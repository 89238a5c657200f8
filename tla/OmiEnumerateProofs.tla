------------------------- MODULE OmiEnumerateProofs -------------------------
(***************************************************************************)
(* Proofs about OmiEnumerate for every value of its constants.             *)
(***************************************************************************)
EXTENDS OmiEnumerate, SequenceTheorems, TLAPS

-----------------------------------------------------------------------------
(***************************************************************************)
(* Lemmas                                                                  *)
(***************************************************************************)

\* An argument that is a Ruby array is a sequence of entries.
LEMMA ArgIsSeq ==
    ASSUME NEW a \in Args, a # NotArray
    PROVE  a \in Seq(ArgEntry)
<1>1. PICK n \in 0..MaxItems : a \in [1..n -> ArgEntry]
  BY DEF Args
<1>2. QED
  BY <1>1, BoundsAssumption, IsASeq

\* Appending a token keeps the stream a sequence of tokens.
LEMMA AppendToken ==
    ASSUME NEW s \in Seq(Token), NEW t \in Token
    PROVE  Append(s, t) \in Seq(Token)
BY AppendProperties

-----------------------------------------------------------------------------
(***************************************************************************)
(* Type correctness.                                                       *)
(***************************************************************************)

\* The numeric variables of TypeOK; SMT proves these, Zenon then
\* assembles TypeOK from them.
NumbersOK ==
    /\ i \in Nat \ {0}
    /\ pos \in Nat \ {0}
    /\ count \in Nat
    /\ pulls \in 0..MaxPulls

\* The call starts with every variable in its type.
LEMMA TypeInit == Init => TypeOK
<1> USE BoundsAssumption DEF Results
<1> SUFFICES ASSUME Init PROVE TypeOK
  OBVIOUS
<1>1. StreamOK
  BY EmptySeq DEF Init, StreamOK
<1>2. enumItems \in Seq(Requests)
  BY EmptySeq DEF Init
<1>3. NumbersOK
  BY DEF Init, NumbersOK
<1>4. QED
  BY <1>1, <1>2, <1>3, Zenon DEF Init, TypeOK, NumbersOK

\* Every step of the call keeps every variable in its type.
LEMMA TypeStep == TypeOK /\ [Next]_vars => TypeOK'
<1> USE BoundsAssumption DEF Results
<1> SUFFICES ASSUME TypeOK, [Next]_vars PROVE TypeOK'
  OBVIOUS
<1>0. NumbersOK
  BY DEF TypeOK, NumbersOK
<1>1. CASE Call
  <2>1. pc' = "filter" => arg \in Seq(ArgEntry)
    BY <1>1, ArgIsSeq DEF Call, TypeOK
  <2>2. NumbersOK'
    BY <1>0, <1>1 DEF Call, NumbersOK
  <2>3. QED
    BY <1>1, <2>1, <2>2, Zenon DEF Call, TypeOK, NumbersOK, StreamOK
<1>2. CASE FilterItem
  <2>1. arg[i] \in ArgEntry /\ (arg[i] # Malformed => arg[i] \in Requests)
    BY <1>2 DEF FilterItem, TypeOK, ArgEntry
  <2>2. enumItems' \in Seq(Requests)
    BY <1>2, <2>1, AppendProperties DEF FilterItem, TypeOK
  <2>3. NumbersOK'
    BY <1>0, <1>2 DEF FilterItem, NumbersOK
  <2>4. QED
    BY <1>2, <2>2, <2>3, Zenon DEF FilterItem, TypeOK, NumbersOK, StreamOK
<1>3. CASE StartEnumerate
  <2>1. StreamOK'
    BY <1>3, EmptySeq, AppendToken DEF StartEnumerate, StreamOK, Token, Punct
  <2>2. NumbersOK'
    BY <1>0, <1>3 DEF StartEnumerate, NumbersOK
  <2>3. QED
    BY <1>3, <2>1, <2>2, Zenon DEF StartEnumerate, TypeOK, NumbersOK
<1>4. CASE OpenOperation
  <2>1. StreamOK'
    BY <1>4, AppendToken DEF OpenOperation, TypeOK, StreamOK, Token, Punct
  <2>2. NumbersOK'
    BY <1>0, <1>4 DEF OpenOperation, NumbersOK
  <2>3. QED
    BY <1>4, <2>1, <2>2, Zenon DEF OpenOperation, TypeOK, NumbersOK
<1>5. CASE EndEnumerate
  <2>1. StreamOK'
    BY <1>5, AppendToken DEF EndEnumerate, TypeOK, StreamOK, Token, Punct
  <2>2. NumbersOK'
    BY <1>0, <1>5 DEF EndEnumerate, NumbersOK
  <2>3. QED
    BY <1>5, <2>1, <2>2, Zenon DEF EndEnumerate, TypeOK, NumbersOK
<1>6. CASE Pull
  <2>1. PICK a \in Answers : GetInstance(a)
    BY <1>6 DEF Pull
  <2>2. /\ a.call \in Results /\ a.inst \in Instances \cup {NULL}
        /\ a.more \in BOOLEAN /\ a.res \in Results
        /\ a.more => pulls < MaxPulls
    <3>1. CASE opDone
      <4>1. a = [call |-> result, inst |-> NULL, more |-> FALSE, res |-> result]
        BY <3>1 DEF Answers
      <4>2. QED
        BY <4>1 DEF TypeOK
    <3>2. CASE ~opDone
      BY <3>2 DEF Answers
    <3>3. QED
      BY <3>1, <3>2
  <2>3. StreamOK'
    <3>1. CASE a.call = "OK" /\ a.inst # NULL
      <4>1. a.inst \in Instances
        BY <2>2, <3>1
      <4>2. (IF count > 0 THEN Append(strm, JSON_SEPARATOR) ELSE strm)
              \in Seq(Token)
        BY AppendToken DEF TypeOK, StreamOK, Token, Punct
      <4>3. InstanceJson(a.inst) \in Seq(Token)
        <5>1. <<>> \in Seq(Token) /\ <<a.inst>> \in Seq(Token)
          BY <4>1, EmptySeq DEF Token
        <5>2. QED
          BY <5>1 DEF InstanceJson
      <4>4. QED
        BY <2>1, <3>1, <4>2, <4>3, ConcatProperties DEF GetInstance, StreamOK
    <3>2. CASE ~(a.call = "OK" /\ a.inst # NULL)
      BY <2>1, <3>2 DEF GetInstance, TypeOK, StreamOK
    <3>3. QED
      BY <3>1, <3>2
  <2>4. NumbersOK'
    BY <1>0, <1>6, <2>1, <2>2 DEF Pull, GetInstance, NumbersOK
  <2>5. result' \in Results /\ moreRemaining' \in BOOLEAN /\ opDone' \in BOOLEAN
    BY <2>1, <2>2, Zenon DEF GetInstance, TypeOK
  <2>6. QED
    BY <1>6, <2>1, <2>3, <2>4, <2>5, Zenon DEF Pull, GetInstance, TypeOK, NumbersOK
<1>7. CASE CloseOperation
  <2>1. NumbersOK'
    BY <1>0, <1>7 DEF CloseOperation, NumbersOK
  <2>2. addSeparator' \in BOOLEAN
    BY <1>7 DEF CloseOperation
  <2>3. QED
    BY <1>7, <2>1, <2>2, Zenon DEF CloseOperation, TypeOK, NumbersOK, StreamOK
<1>8. CASE UNCHANGED vars
  BY <1>8, Zenon DEF vars, TypeOK, StreamOK
<1>9. QED
  BY <1>1, <1>2, <1>3, <1>4, <1>5, <1>6, <1>7, <1>8 DEF Next

\* Every variable of the enumerate call keeps its type.
THEOREM TypeCorrect == Spec => []TypeOK
BY TypeInit, TypeStep, PTL DEF Spec

-----------------------------------------------------------------------------
(***************************************************************************)
(* The separator discipline of the output array.                          *)
(***************************************************************************)

\* Appending a token to a separated sequence keeps it separated when the
\* token fits what precedes it: a separator after an instance object, an
\* object after the list start or a separator, any other token anywhere.
LEMMA AppendSeparated ==
    ASSUME NEW s \in Seq(Token), NEW t \in Token, Separated(s),
           t = JSON_SEPARATOR => s # <<>> /\ s[Len(s)] \in Instances,
           t \in Instances =>
               s # <<>> /\ s[Len(s)] \in {JSON_LIST_START, JSON_SEPARATOR}
    PROVE  Separated(Append(s, t))
<1> DEFINE u == Append(s, t)
<1>1. /\ Len(u) = Len(s) + 1
      /\ \A k \in 1..Len(s) : u[k] = s[k]
      /\ u[Len(s) + 1] = t
  BY AppendProperties
<1>2. SUFFICES ASSUME NEW k \in 2..Len(u)
               PROVE  /\ u[k] = JSON_SEPARATOR => u[k - 1] \in Instances
                      /\ u[k] \in Instances =>
                            u[k - 1] \in {JSON_LIST_START, JSON_SEPARATOR}
  BY DEF Separated
<1>3. CASE k <= Len(s)
  BY <1>1, <1>3 DEF Separated
<1>4. CASE k = Len(s) + 1
  BY <1>1, <1>4
<1>5. QED
  BY <1>1, <1>3, <1>4

\* When no instance has unreadable metadata, a separator in the array
\* Enumerate writes only ever follows an instance object, and an instance
\* object only ever follows the list start or a separator, for any number
\* of requests, instances and provider answers.  (With unreadable metadata
\* it does not hold: see the run enumerate_bad_metadata.)
THEOREM SeparatorSafety ==
    ASSUME BadInstances = {}
    PROVE  Spec => []SeparatorDiscipline
<1> USE ValuesAssumption, BoundsAssumption DEF Results, Punct
<1>1. Init => SeparatorInv
  BY DEF Init, SeparatorInv, SeparatorDiscipline, Separated
<1>2. TypeOK /\ SeparatorInv /\ [Next]_vars => SeparatorInv'
  <2> SUFFICES ASSUME TypeOK, SeparatorInv, [Next]_vars PROVE SeparatorInv'
    OBVIOUS
  <2>0. strm \in Seq(Token) /\ Separated(strm)
    BY DEF TypeOK, StreamOK, SeparatorInv, SeparatorDiscipline
  <2>1. CASE Call
    BY <2>1 DEF Call, SeparatorInv, SeparatorDiscipline, LastToken
  <2>2. CASE FilterItem
    BY <2>2 DEF FilterItem, SeparatorInv, SeparatorDiscipline, LastToken
  <2>3. CASE StartEnumerate
    <3>1. Separated(<<JSON_LIST_START>>)
      BY DEF Separated
    <3>2. QED
      BY <2>3, <3>1 DEF StartEnumerate, SeparatorInv, SeparatorDiscipline,
                        LastToken
  <2>4. CASE OpenOperation
    <3>1. CASE addSeparator
      <4>1. LastToken \in Instances /\ Len(strm) >= 1
        BY <2>4, <3>1 DEF OpenOperation, SeparatorInv
      <4>2. Separated(Append(strm, JSON_SEPARATOR))
        BY <2>0, <4>1, AppendSeparated DEF Token, LastToken
      <4>3. strm' = Append(strm, JSON_SEPARATOR)
        BY <2>4, <3>1 DEF OpenOperation
      <4>4. LastToken' = JSON_SEPARATOR /\ Len(strm') >= 1
        BY <2>0, <4>3, AppendProperties DEF LastToken, Token
      <4>5. QED
        BY <2>4, <4>2, <4>3, <4>4 DEF OpenOperation, SeparatorInv,
                                      SeparatorDiscipline
    <3>2. CASE ~addSeparator
      BY <2>4, <3>2 DEF OpenOperation, SeparatorInv, SeparatorDiscipline,
                        LastToken
    <3>3. QED
      BY <3>1, <3>2
  <2>5. CASE EndEnumerate
    <3>1. Separated(Append(strm, JSON_LIST_END))
      BY <2>0, AppendSeparated DEF Token
    <3>2. QED
      BY <2>5, <3>1 DEF EndEnumerate, SeparatorInv, SeparatorDiscipline
  <2>6. CASE Pull
    <3>1. PICK a \in Answers : GetInstance(a)
      BY <2>6 DEF Pull
    <3>2. a.inst \in Instances \cup {NULL}
      <4>1. CASE opDone
        BY <4>1 DEF Answers
      <4>2. CASE ~opDone
        BY <4>2 DEF Answers
      <4>3. QED
        BY <4>1, <4>2
    <3>3. pc' \in {"pull", "close"} /\ pc = "pull"
      BY <2>6, <3>1 DEF Pull, GetInstance
    <3>4. CASE a.call = "OK" /\ a.inst # NULL
      <4> DEFINE x == IF count > 0 THEN Append(strm, JSON_SEPARATOR) ELSE strm
      <4>1. a.inst \in Instances /\ InstanceJson(a.inst) = <<a.inst>>
        BY <3>2, <3>4 DEF InstanceJson
      <4>2. Len(strm) >= 1
        BY <3>3 DEF SeparatorInv
      <4>3. x \in Seq(Token) /\ Separated(x) /\ x # <<>>
            /\ x[Len(x)] \in {JSON_LIST_START, JSON_SEPARATOR}
        <5>1. CASE count > 0
          <6>1. LastToken \in Instances
            BY <3>3, <5>1 DEF SeparatorInv
          <6>2. QED
            BY <2>0, <4>2, <5>1, <6>1, AppendSeparated, AppendProperties
            DEF Token, LastToken
        <5>2. CASE ~(count > 0)
          BY <2>0, <3>3, <4>2, <5>2 DEF SeparatorInv, LastToken
        <5>3. QED
          BY <5>1, <5>2
      <4>4. strm' = Append(x, a.inst)
        BY <3>1, <3>4, <4>1, <4>3, AppendIsConcat DEF GetInstance, Token
      <4>5. Separated(strm')
        BY <4>1, <4>3, <4>4, AppendSeparated DEF Token
      <4>6. LastToken' \in Instances /\ Len(strm') >= 1 /\ count' > 0
        BY <4>1, <4>3, <4>4, <3>1, <3>4, AppendProperties
        DEF LastToken, Token, GetInstance, TypeOK
      <4>7. QED
        BY <3>3, <4>5, <4>6 DEF SeparatorInv, SeparatorDiscipline
    <3>5. CASE ~(a.call = "OK" /\ a.inst # NULL)
      <4>1. strm' = strm /\ count' = count
        BY <3>1, <3>5 DEF GetInstance
      <4>2. QED
        BY <3>3, <4>1 DEF SeparatorInv, SeparatorDiscipline, LastToken
    <3>6. QED
      BY <3>4, <3>5
  <2>7. CASE CloseOperation
    BY <2>7 DEF CloseOperation, SeparatorInv, SeparatorDiscipline, LastToken
  <2>8. CASE UNCHANGED vars
    BY <2>8 DEF vars, SeparatorInv, SeparatorDiscipline, LastToken
  <2>9. QED
    BY <2>1, <2>2, <2>3, <2>4, <2>5, <2>6, <2>7, <2>8 DEF Next
<1>3. QED
  BY <1>1, <1>2, TypeCorrect, PTL DEF Spec, SeparatorInv


\* Every exit of the drain loop of handle_results, on success or on a
\* provider error, is followed by MI_Operation_Close before the next
\* request's operation opens or Enumerate returns: an open operation exists
\* only while handle_results runs or its count is being handed back.  The
\* property is inductive on its own: only OpenOperation opens, and it
\* enters the drain loop; Pull stays in it or leaves to CloseOperation.
THEOREM OperationSafety == Spec => []OperationReleased
<1>1. Init => OperationReleased
  BY DEF Init, OperationReleased
<1>2. OperationReleased /\ [Next]_vars => OperationReleased'
  <2> SUFFICES ASSUME OperationReleased, [Next]_vars
               PROVE  OperationReleased'
    OBVIOUS
  <2>1. CASE Call \/ FilterItem \/ StartEnumerate \/ EndEnumerate
    BY <2>1 DEF Call, FilterItem, StartEnumerate, EndEnumerate,
                OperationReleased
  <2>2. CASE OpenOperation
    BY <2>2 DEF OpenOperation, OperationReleased
  <2>3. CASE Pull
    <3>1. PICK a \in Answers : GetInstance(a)
      BY <2>3 DEF Pull
    <3>2. pc' \in {"pull", "close"} /\ operation' = operation
      BY <2>3, <3>1 DEF Pull, GetInstance
    <3>3. QED
      BY <3>2 DEF OperationReleased
  <2>4. CASE CloseOperation
    BY <2>4 DEF CloseOperation, OperationReleased
  <2>5. CASE UNCHANGED vars
    BY <2>5 DEF vars, OperationReleased
  <2>6. QED
    BY <2>1, <2>2, <2>3, <2>4, <2>5 DEF Next
<1>3. QED
  BY <1>1, <1>2, PTL DEF Spec


-----------------------------------------------------------------------------
(***************************************************************************)
(* The shape of the returned array.                                        *)
(***************************************************************************)

\* The place after an odd place is even, and the place after an even one
\* is odd.
LEMMA Parity ==
    ASSUME NEW n \in Nat
    PROVE  /\ ~(n % 2 = 0) => (n + 1) % 2 = 0
           /\ n % 2 = 0 => ~((n + 1) % 2 = 0)
BY SMT

\* Appending a token to a stream that alternates up to its end keeps the
\* old places alternating, and extends the alternation to the new place
\* when the token fits its parity: an object at an even place, a
\* separator at an odd one.
LEMMA AlternatesAppend ==
    ASSUME NEW s \in Seq(Token), NEW t \in Token,
           Len(s) >= 1, Alternates(s, Len(s))
    PROVE  /\ Alternates(Append(s, t), Len(s))
           /\ (IF (Len(s) + 1) % 2 = 0 THEN t \in Instances
                                       ELSE t = JSON_SEPARATOR)
                  => Alternates(Append(s, t), Len(s) + 1)
<1>1. /\ Len(Append(s, t)) = Len(s) + 1
      /\ \A k \in 1..Len(s) : Append(s, t)[k] = s[k]
      /\ Append(s, t)[Len(s) + 1] = t
  BY AppendProperties
<1>2. Alternates(Append(s, t), Len(s))
  BY <1>1 DEF Alternates
<1>3. QED
  BY <1>1, <1>2 DEF Alternates

\* When no instance has unreadable metadata, enumerate called with an
\* array returns "[", then instance objects and single commas alternating,
\* then "]": the separator flag between requests and the count inside
\* handle_results never let a comma follow "[" or another comma, nor two
\* objects meet.  Only a comma before "]" can remain (run
\* enumerate_trailing_comma shows that it does).
THEOREM ShapeSafety ==
    ASSUME BadInstances = {}
    PROVE  Spec => []ReturnsArrayShape
<1> USE ValuesAssumption DEF Punct
<1>1. Init => ShapeInv
  BY DEF Init, ShapeInv, ReturnsArrayShape
<1>2. TypeOK /\ ShapeInv /\ [Next]_vars => ShapeInv'
  <2> SUFFICES ASSUME TypeOK, ShapeInv, [Next]_vars PROVE ShapeInv'
    OBVIOUS
  <2>0. strm \in Seq(Token) /\ count \in Nat
    BY DEF TypeOK, StreamOK
  <2>1. CASE Call
    BY <2>1 DEF Call, ShapeInv, ReturnsArrayShape
  <2>2. CASE FilterItem
    BY <2>2 DEF FilterItem, ShapeInv, ReturnsArrayShape
  <2>3. CASE StartEnumerate
    <3>1. Alternates(<< JSON_LIST_START >>, 1)
      BY DEF Alternates
    <3>2. QED
      BY <2>3, <3>1 DEF StartEnumerate, ShapeInv, ReturnsArrayShape
  <2>4. CASE OpenOperation
    <3>1. Len(strm) >= 1 /\ Alternates(strm, Len(strm))
          /\ (addSeparator <=> Len(strm) % 2 = 0)
      BY <2>4 DEF OpenOperation, ShapeInv
    <3>2. CASE addSeparator
      <4>1. strm' = Append(strm, JSON_SEPARATOR)
        BY <2>4, <3>2 DEF OpenOperation
      <4>2. Alternates(strm', Len(strm) + 1) /\ Len(strm') = Len(strm) + 1
        BY <2>0, <3>1, <3>2, <4>1, AlternatesAppend, AppendProperties DEF Token
      <4>3. Len(strm') >= 1 /\ ~(Len(strm') % 2 = 0)
            /\ Alternates(strm', Len(strm'))
        BY <2>0, <3>1, <3>2, <4>2
      <4>4. pc' = "pull" /\ count' = 0
        BY <2>4 DEF OpenOperation
      <4>5. QED
        BY <4>3, <4>4 DEF ShapeInv, ReturnsArrayShape
    <3>3. CASE ~addSeparator
      BY <2>4, <3>1, <3>3 DEF OpenOperation, ShapeInv, ReturnsArrayShape
    <3>4. QED
      BY <3>2, <3>3
  <2>5. CASE EndEnumerate
    <3>1. Len(strm) >= 1 /\ Alternates(strm, Len(strm))
      BY <2>5 DEF EndEnumerate, ShapeInv
    <3>2. strm' = Append(strm, JSON_LIST_END)
      BY <2>5 DEF EndEnumerate
    <3>3. Alternates(strm', Len(strm)) /\ Len(strm') = Len(strm) + 1
          /\ strm'[Len(strm')] = JSON_LIST_END
      BY <2>0, <3>1, <3>2, AlternatesAppend, AppendProperties DEF Token
    <3>4. QED
      BY <2>5, <3>1, <3>3 DEF EndEnumerate, ShapeInv, ReturnsArrayShape
  <2>6. CASE Pull
    <3>1. PICK a \in Answers : GetInstance(a)
      BY <2>6 DEF Pull
    <3>2. a.inst \in Instances \cup {NULL}
      <4>1. CASE opDone
        BY <4>1 DEF Answers
      <4>2. CASE ~opDone
        BY <4>2 DEF Answers
      <4>3. QED
        BY <4>1, <4>2
    <3>3. /\ pc = "pull" /\ pc' \in {"pull", "close"}
          /\ Len(strm) >= 1 /\ Alternates(strm, Len(strm))
          /\ (count > 0 <=> Len(strm) % 2 = 0)
      BY <2>6, <3>1 DEF Pull, GetInstance, ShapeInv
    <3>4. CASE a.call = "OK" /\ a.inst # NULL
      <4> DEFINE x == IF count > 0 THEN Append(strm, JSON_SEPARATOR) ELSE strm
      <4>1. a.inst \in Instances /\ InstanceJson(a.inst) = << a.inst >>
        BY <3>2, <3>4 DEF InstanceJson
      <4>2. /\ x \in Seq(Token) /\ Len(x) >= 1 /\ Alternates(x, Len(x))
            /\ ~(Len(x) % 2 = 0)
        <5>1. CASE count > 0
          <6>1. Alternates(x, Len(strm) + 1) /\ Len(x) = Len(strm) + 1
            BY <2>0, <3>3, <5>1, AlternatesAppend, AppendProperties DEF Token
          <6>2. QED
            BY <2>0, <3>3, <5>1, <6>1, AppendProperties DEF Token
        <5>2. CASE ~(count > 0)
          BY <2>0, <3>3, <5>2
        <5>3. QED
          BY <5>1, <5>2
      <4>3. strm' = Append(x, a.inst)
        BY <3>1, <3>4, <4>1, <4>2, AppendIsConcat DEF GetInstance, Token
      <4>4. Len(x) \in Nat /\ (Len(x) + 1) % 2 = 0
        <5>1. Len(x) \in Nat
          BY <4>2, LenProperties, Zenon
        <5>2. QED
          BY <4>2, <5>1, Parity
      <4>5. Alternates(Append(x, a.inst), Len(x) + 1)
        <5>1. IF (Len(x) + 1) % 2 = 0 THEN a.inst \in Instances
                                      ELSE a.inst = JSON_SEPARATOR
          BY <4>1, <4>4
        <5>2. a.inst \in Token
          BY <4>1 DEF Token
        <5>3. QED
          BY <4>2, <5>1, <5>2, AlternatesAppend
      <4>6. Len(strm') = Len(x) + 1
        BY <4>2, <4>3, <4>1, AppendProperties DEF Token
      <4>7. Alternates(strm', Len(strm')) /\ Len(strm') % 2 = 0
            /\ Len(strm') >= 1
        <5>1. Alternates(strm', Len(strm'))
          BY <4>3, <4>5, <4>6, Zenon
        <5>2. Len(strm') % 2 = 0 /\ Len(strm') >= 1
          <6> DEFINE m == Len(x)
          <6> DEFINE n == Len(strm')
          <6>1. m \in Nat /\ n = m + 1 /\ (m + 1) % 2 = 0
            BY <4>4, <4>6
          <6> HIDE DEF m, n
          <6>2. n % 2 = 0 /\ n >= 1
            BY <6>1
          <6>3. QED
            BY <6>2 DEF m, n
        <5>3. QED
          BY <5>1, <5>2
      <4>8. count' = count + 1
        BY <3>1, <3>4 DEF GetInstance
      <4>9. count' > 0
        BY <2>0, <4>8
      <4>10. QED
        BY <3>3, <4>7, <4>9 DEF ShapeInv, ReturnsArrayShape
    <3>5. CASE ~(a.call = "OK" /\ a.inst # NULL)
      <4>1. strm' = strm /\ count' = count
        BY <3>1, <3>5 DEF GetInstance
      <4>2. QED
        BY <3>3, <4>1 DEF ShapeInv, ReturnsArrayShape
    <3>6. QED
      BY <3>4, <3>5
  <2>7. CASE CloseOperation
    <3>1. addSeparator' <=> Len(strm) % 2 = 0
      BY <2>7 DEF CloseOperation, ShapeInv
    <3>2. QED
      BY <2>7, <3>1 DEF CloseOperation, ShapeInv, ReturnsArrayShape
  <2>8. CASE UNCHANGED vars
    BY <2>8 DEF vars, ShapeInv, ReturnsArrayShape
  <2>9. QED
    BY <2>1, <2>2, <2>3, <2>4, <2>5, <2>6, <2>7, <2>8 DEF Next
<1>3. ShapeInv => ReturnsArrayShape
  BY DEF ShapeInv
<1>4. QED
  BY <1>1, <1>2, <1>3, TypeCorrect, PTL DEF Spec

=============================================================================
