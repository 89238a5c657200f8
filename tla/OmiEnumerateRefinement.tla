---------------------- MODULE OmiEnumerateRefinement ----------------------
(***************************************************************************)
(* Proof that one call of enumerate implements the safety part of          *)
(* OmiEnumerateAbstract under the refinement mapping of OmiEnumerate:      *)
(* Spec => Abs!AInit /\ [][Abs!ANext]_Abs!avars.  The weak fairness of the *)
(* abstract progress steps is liveness and is left to TLC                  *)
(* (ImplementsAbstract in enumerate_pass).                                 *)
(*                                                                         *)
(* The mapping of the delivered objects is ObjectsOf, a recursive          *)
(* function over the stream.  The provers cannot do induction through an  *)
(* operator parameter, so the facts about ObjectsOf are proved with a      *)
(* least counterexample, taken from the well-foundedness of < on Nat       *)
(* (WFMin): a set of naturals that is not empty has a least element.      *)
(***************************************************************************)
EXTENDS OmiEnumerateProofs, WellFoundedInduction

-----------------------------------------------------------------------------
(***************************************************************************)
(* What ObjectsOf computes.  SelStep is one step of its recursive         *)
(* function, IsSel(f, s, S, n) says that f is that function on 0..n, and  *)
(* SelFcn is the function ObjectsOf takes its value from.                 *)
(***************************************************************************)

SelStep(f, s, S, k) ==
    IF k = 0 THEN << >>
    ELSE IF s[k] \in S THEN Append(f[k - 1], s[k]) ELSE f[k - 1]

IsSel(f, s, S, n) == f = [k \in 0..n |-> SelStep(f, s, S, k)]

SelFcn(s, S) == CHOOSE F : IsSel(F, s, S, Len(s))

\* A non-empty set of naturals has a least element.
LEMMA NatMin == ASSUME NEW D \in SUBSET Nat, D # {}
                PROVE \E m \in D : \A y \in D : ~(y < m)
  <1>1. \E m \in D : \A y \in D : ~(<<y, m>> \in OpToRel(<, Nat))
    BY NatLessThanWellFounded, WFMin
  <1>2. QED
    BY <1>1 DEF OpToRel

\* ObjectsOf is the last value of SelFcn.
LEMMA ObjectsOfDef == ASSUME NEW s, NEW S
  PROVE ObjectsOf(s, S) = SelFcn(s, S)[Len(s)]
  BY DEF ObjectsOf, SelFcn, SelStep, IsSel

\* The recursive function exists on every prefix 0..n: on 0..0 it is
\* <<>>, and one on 0..(m-1) extends to 0..m by one step.
LEMMA SelExists ==
  ASSUME NEW S, NEW T, NEW s \in Seq(T), NEW n \in 0..Len(s)
  PROVE  \E f : IsSel(f, s, S, n)
<1> DEFINE D == {m \in 0..Len(s) : ~\E f : IsSel(f, s, S, m)}
<1>1. SUFFICES ASSUME D # {} PROVE FALSE
  OBVIOUS
<1>2. PICK m \in D : \A y \in D : ~(y < m)
  <2>1. D \in SUBSET Nat
    OBVIOUS
  <2>2. QED
    BY <1>1, <2>1, NatMin
<1>3. CASE m = 0
  <2> DEFINE f == [k \in 0..0 |-> << >>]
  <2>1. IsSel(f, s, S, 0)
    BY DEF IsSel, SelStep
  <2>2. QED
    BY <1>2, <1>3, <2>1
<1>4. CASE m # 0
  <2>1. m - 1 \in 0..Len(s) /\ m - 1 \notin D
    BY <1>2, <1>4
  <2>2. PICK g : IsSel(g, s, S, m - 1)
    BY <2>1
  <2> DEFINE f == [k \in 0..m |-> IF k < m THEN g[k] ELSE SelStep(g, s, S, m)]
  <2>3. \A k \in 0..m : f[k] = SelStep(f, s, S, k)
    <3> SUFFICES ASSUME NEW k \in 0..m PROVE f[k] = SelStep(f, s, S, k)
      OBVIOUS
    <3>1. k > 0 => f[k - 1] = g[k - 1]
      BY <1>4
    <3>2. CASE k < m
      <4>1. g[k] = SelStep(g, s, S, k)
        BY <2>2, <3>2 DEF IsSel
      <4>2. QED
        BY <3>1, <3>2, <4>1 DEF SelStep
    <3>3. CASE k = m
      BY <3>1, <3>3, <1>4 DEF SelStep
    <3>4. QED
      BY <3>2, <3>3
  <2>4. IsSel(f, s, S, m)
    BY <2>3 DEF IsSel
  <2>5. QED
    BY <1>2, <2>4
<1>5. QED
  BY <1>3, <1>4

\* The functions of s and of Append(s, x) agree on 0..Len(s): a least
\* index where they differ cannot be 0, and at any other one the step reads
\* the same entry and the same earlier value.
LEMMA SelAppendAgree ==
  ASSUME NEW S, NEW T, NEW s \in Seq(T), NEW x \in T, NEW f, NEW g,
         IsSel(f, s, S, Len(s)), IsSel(g, Append(s, x), S, Len(s) + 1)
  PROVE  \A k \in 0..Len(s) : f[k] = g[k]
<1> DEFINE D == {k \in 0..Len(s) : f[k] # g[k]}
<1>0. Len(s) \in Nat /\ \A j \in 1..Len(s) : Append(s, x)[j] = s[j]
  BY AppendProperties
<1>1. SUFFICES ASSUME D # {} PROVE FALSE
  OBVIOUS
<1>2. PICK k \in D : \A y \in D : ~(y < k)
  <2>1. D \in SUBSET Nat
    BY <1>0
  <2>2. QED
    BY <1>1, <2>1, NatMin
<1>3. f[k] = SelStep(f, s, S, k) /\ g[k] = SelStep(g, Append(s, x), S, k)
  <2>1. k \in 0..Len(s) /\ k \in 0..(Len(s) + 1)
    BY <1>0
  <2>2. QED
    BY <2>1 DEF IsSel
<1>4. k # 0 => f[k - 1] = g[k - 1] /\ s[k] = Append(s, x)[k]
  BY <1>0, <1>2
<1>5. QED
  BY <1>2, <1>3, <1>4 DEF SelStep

\* SelFcn is the recursive function of s.
LEMMA SelFcnIsSel ==
  ASSUME NEW S, NEW T, NEW s \in Seq(T)
  PROVE  IsSel(SelFcn(s, S), s, S, Len(s))
<1>0. Len(s) \in 0..Len(s)
  BY LenProperties
<1>1. \E f : IsSel(f, s, S, Len(s))
  BY <1>0, SelExists
<1>2. QED
  BY <1>1 DEF SelFcn

\* The empty stream delivers no object.
LEMMA ObjectsOfEmpty == ASSUME NEW S PROVE ObjectsOf(<< >>, S) = << >>
<1>1. IsSel(SelFcn(<< >>, S), << >>, S, 0)
  BY SelFcnIsSel, EmptySeq
<1>2. QED
  BY <1>1, ObjectsOfDef DEF IsSel, SelStep

\* Appending a token to the stream appends it to the objects delivered
\* when it is an object, and leaves them alone otherwise.
LEMMA ObjectsOfAppend ==
  ASSUME NEW S, NEW T, NEW s \in Seq(T), NEW x \in T
  PROVE  ObjectsOf(Append(s, x), S) =
           IF x \in S THEN Append(ObjectsOf(s, S), x) ELSE ObjectsOf(s, S)
<1> DEFINE f == SelFcn(s, S)
           g == SelFcn(Append(s, x), S)
           L == Len(s)
<1>0. L \in Nat
  BY LenProperties
<1>1. Append(s, x) \in Seq(T) /\ Len(Append(s, x)) = L + 1
      /\ \A j \in 1..L : Append(s, x)[j] = s[j] /\ Append(s, x)[L + 1] = x
  BY AppendProperties
<1>2. IsSel(f, s, S, L) /\ IsSel(g, Append(s, x), S, L + 1)
  BY <1>1, SelFcnIsSel
<1>3. \A k \in 0..L : f[k] = g[k]
  <2>1. L \in 0..L /\ L + 1 \in Nat /\ L <= L + 1
    BY <1>0
  <2>2. \A j \in 1..L : s[j] = Append(s, x)[j]
    BY <1>1
  <2>3. IsSel(f, s, S, L) /\ IsSel(g, Append(s, x), S, L + 1)
    BY <1>2
  <2>4. QED
    BY <2>3, SelAppendAgree
<1>4. g[L + 1] = SelStep(g, Append(s, x), S, L + 1)
  <2>1. L + 1 \in 0..(L + 1)
    BY <1>0
  <2>2. QED
    BY <1>2, <2>1 DEF IsSel
<1>5. SelStep(g, Append(s, x), S, L + 1)
        = IF x \in S THEN Append(g[L], x) ELSE g[L]
  <2>1. L + 1 # 0 /\ (L + 1) - 1 = L
    BY <1>0
  <2>2. QED
    BY <1>1, <2>1 DEF SelStep
<1>6. QED
  <2>1. f[L] = g[L]
    BY <1>0, <1>3
  <2>2. ObjectsOf(s, S) = f[L] /\ ObjectsOf(Append(s, x), S) = g[L + 1]
    BY <1>1, ObjectsOfDef
  <2>3. QED
    BY <1>4, <1>5, <2>1, <2>2
-----------------------------------------------------------------------------
(***************************************************************************)
(* The invariant the refinement rests on.                                  *)
(***************************************************************************)

\* Before the argument is read no request, operation or output exists;
\* inside handle_results the current request exists and its MI_Operation is
\* open; between requests of Enumerate no operation is open.  Each step of
\* the call keeps this: only OpenOperation opens and it enters the drain
\* loop at a request that exists, and only CloseOperation leaves it.
THEOREM RefinementInvariant == Spec => []RefinementInv
<1>1. Init => RefinementInv
  BY DEF Init, RefinementInv
<1>2. RefinementInv /\ [Next]_vars => RefinementInv'
  <2> SUFFICES ASSUME RefinementInv, [Next]_vars PROVE RefinementInv'
    OBVIOUS
  <2>1. CASE Call
    BY <2>1 DEF Call, RefinementInv
  <2>2. CASE FilterItem \/ StartEnumerate \/ EndEnumerate
    BY <2>2 DEF FilterItem, StartEnumerate, EndEnumerate, RefinementInv
  <2>3. CASE OpenOperation
    BY <2>3 DEF OpenOperation, RefinementInv
  <2>4. CASE Pull
    <3>1. PICK a \in Answers : GetInstance(a)
      BY <2>4 DEF Pull
    <3>2. pc' \in {"pull", "close"} /\ pc = "pull"
      BY <2>4, <3>1 DEF Pull, GetInstance
    <3>3. UNCHANGED <<enumItems, pos, operation>>
      BY <2>4 DEF Pull
    <3>4. QED
      BY <3>2, <3>3 DEF RefinementInv
  <2>5. CASE CloseOperation
    BY <2>5 DEF CloseOperation, RefinementInv
  <2>6. CASE UNCHANGED vars
    BY <2>6 DEF vars, RefinementInv
  <2>7. QED
    BY <2>1, <2>2, <2>3, <2>4, <2>5, <2>6 DEF Next
<1>3. QED
  BY <1>1, <1>2, PTL DEF Spec

-----------------------------------------------------------------------------
(***************************************************************************)
(* The refinement, step by step.                                           *)
(***************************************************************************)

\* A punctuation token written to the stream delivers no object.
LEMMA PunctDeliversNothing ==
    ASSUME NEW s \in Seq(Token), NEW t \in Punct
    PROVE  ObjectsOf(Append(s, t), Instances) = ObjectsOf(s, Instances)
<1>1. t \in Token /\ t \notin Instances
  BY ValuesAssumption DEF Token
<1>2. QED
  BY <1>1, ObjectsOfAppend

\* A call starts where the abstract call starts: no request accepted, no
\* object delivered, the argument being read.
LEMMA InitRefines == Init => Abs!AInit
<1> SUFFICES ASSUME Init PROVE Abs!AInit
  OBVIOUS
<1>1. opsBar = << >>
  BY DEF Init, opsBar
<1>2. outBar = << >>
  BY ObjectsOfEmpty DEF Init, outBar
<1>3. phaseBar = "accept"
  BY DEF Init, phaseBar
<1>4. QED
  BY <1>1, <1>2, <1>3 DEF Abs!AInit

\* Every step of the call is a step of the abstract call or leaves the
\* mapped state alone: the argument filter accepts requests, the list start
\* starts the run, each OpenOperation, Pull that writes an object and
\* CloseOperation is an Open, Deliver and Close of the current request, and
\* EndEnumerate (or a non-array argument) finishes the call.
LEMMA StepRefines ==
    TypeOK /\ RefinementInv /\ [Next]_vars => [Abs!ANext]_Abs!avars
<1> SUFFICES ASSUME TypeOK, RefinementInv, [Next]_vars
             PROVE  [Abs!ANext]_Abs!avars
  OBVIOUS
<1>0. strm \in Seq(Token) /\ enumItems \in Seq(Requests) /\ pos \in Nat \ {0}
  BY DEF TypeOK, StreamOK
<1>1. CASE Call
  <2>1. CASE arg = NotArray
    <3>1. DOMAIN opsBar = {} /\ opsBar' = opsBar /\ outBar' = outBar
      BY <1>1, <2>1 DEF Call, RefinementInv, opsBar, outBar
    <3>2. phaseBar = "accept" /\ phaseBar' = "done"
      BY <1>1, <2>1 DEF Call, phaseBar
    <3>3. Abs!Finish
      BY <3>1, <3>2 DEF Abs!Finish
    <3>4. QED
      BY <3>3 DEF Abs!ANext, Abs!Progress
  <2>2. CASE arg # NotArray
    <3>1. opsBar' = opsBar /\ outBar' = outBar /\ phaseBar' = phaseBar
      BY <1>1, <2>2 DEF Call, opsBar, outBar, phaseBar
    <3>2. QED
      BY <3>1 DEF Abs!avars
  <2>3. QED
    BY <2>1, <2>2
<1>2. CASE FilterItem
  <2>0. pos = 1 /\ operation = "null" /\ phaseBar = "accept"
        /\ UNCHANGED <<pos, operation, pc, strm>>
    BY <1>2 DEF FilterItem, RefinementInv, phaseBar
  <2>1. CASE arg[i] # Malformed
    <3>1. arg[i] \in Requests
      <4>1. arg \in Seq(ArgEntry) /\ i \in 1..Len(arg)
        BY <1>2 DEF FilterItem, TypeOK
      <4>2. QED
        BY <4>1, <2>1 DEF ArgEntry
    <3>2. enumItems' = Append(enumItems, arg[i])
      BY <1>2, <2>1 DEF FilterItem
    <3>3. opsBar = [k \in 1..Len(enumItems) |-> "pending"]
      BY <2>0 DEF opsBar
    <3>4. opsBar' = [k \in 1..Len(enumItems) + 1 |-> "pending"]
      BY <1>0, <2>0, <3>1, <3>2, AppendProperties DEF opsBar
    <3>5. opsBar' = Append(opsBar, "pending")
      BY <1>0, <3>3, <3>4
    <3>6. Abs!Accept
      BY <2>0, <3>5 DEF Abs!Accept, outBar, phaseBar
    <3>7. QED
      BY <3>6 DEF Abs!ANext
  <2>2. CASE arg[i] = Malformed
    <3>1. opsBar' = opsBar /\ outBar' = outBar /\ phaseBar' = phaseBar
      BY <1>2, <2>0, <2>2 DEF FilterItem, opsBar, outBar, phaseBar
    <3>2. QED
      BY <3>1 DEF Abs!avars
  <2>3. QED
    BY <2>1, <2>2
<1>3. CASE StartEnumerate
  <2>1. outBar = << >>
    BY <1>3, ObjectsOfEmpty DEF StartEnumerate, RefinementInv, outBar
  <2>2. outBar' = << >>
    <3>1. strm' = Append(<< >>, JSON_LIST_START)
      BY <1>3 DEF StartEnumerate
    <3>2. << >> \in Seq(Token) /\ JSON_LIST_START \in Punct
      BY EmptySeq DEF Punct
    <3>3. QED
      BY <3>1, <3>2, PunctDeliversNothing, ObjectsOfEmpty DEF outBar
  <2>3. opsBar' = opsBar /\ phaseBar = "accept" /\ phaseBar' = "run"
    BY <1>3 DEF StartEnumerate, opsBar, phaseBar
  <2>4. Abs!Start
    BY <2>1, <2>2, <2>3 DEF Abs!Start
  <2>5. QED
    BY <2>4 DEF Abs!ANext, Abs!Progress
<1>4. CASE OpenOperation
  <2>0. pos \in DOMAIN opsBar /\ operation # "open"
        /\ phaseBar = "run" /\ phaseBar' = "run"
    BY <1>0, <1>4 DEF OpenOperation, RefinementInv, opsBar, phaseBar
  <2>1. opsBar[pos] = "pending" /\ \A j \in 1..(pos - 1) : opsBar[j] = "closed"
    BY <1>0, <2>0 DEF opsBar
  <2>2. \A k \in DOMAIN opsBar : opsBar[k] # "open"
    BY <2>0 DEF opsBar
  <2>3. opsBar' = [opsBar EXCEPT ![pos] = "open"]
    <3>1. UNCHANGED <<enumItems, pos>> /\ operation' = "open"
      BY <1>4 DEF OpenOperation
    <3>2. opsBar' = [k \in 1..Len(enumItems) |->
                        IF k = pos THEN "open" ELSE opsBar[k]]
      BY <1>0, <3>1 DEF opsBar
    <3>3. QED
      BY <3>2 DEF opsBar
  <2>4. outBar' = outBar
    <3>1. CASE addSeparator
      <4>1. strm' = Append(strm, JSON_SEPARATOR) /\ JSON_SEPARATOR \in Punct
        BY <1>4, <3>1 DEF OpenOperation, Punct
      <4>2. QED
        BY <1>0, <4>1, PunctDeliversNothing DEF outBar
    <3>2. CASE ~addSeparator
      BY <1>4, <3>2 DEF OpenOperation, outBar
    <3>3. QED
      BY <3>1, <3>2
  <2>5. Abs!Open(pos)
    BY <2>0, <2>1, <2>2, <2>3, <2>4 DEF Abs!Open, Abs!NoneOpen, Abs!IsOpen
  <2>6. QED
    BY <2>0, <2>5 DEF Abs!ANext, Abs!Progress
<1>5. CASE EndEnumerate
  <2>1. \A k \in DOMAIN opsBar : opsBar[k] = "closed"
    BY <1>0, <1>5 DEF EndEnumerate, opsBar
  <2>2. opsBar' = opsBar /\ phaseBar = "run" /\ phaseBar' = "done"
    BY <1>5 DEF EndEnumerate, opsBar, phaseBar
  <2>3. outBar' = outBar
    <3>1. strm' = Append(strm, JSON_LIST_END) /\ JSON_LIST_END \in Punct
      BY <1>5 DEF EndEnumerate, Punct
    <3>2. QED
      BY <1>0, <3>1, PunctDeliversNothing DEF outBar
  <2>4. Abs!Finish
    BY <2>1, <2>2, <2>3 DEF Abs!Finish
  <2>5. QED
    BY <2>4 DEF Abs!ANext, Abs!Progress
<1>6. CASE Pull
  <2>1. PICK a \in Answers : GetInstance(a)
    BY <1>6 DEF Pull
  <2> DEFINE emit == a.call = "OK" /\ a.inst # NULL
             X == IF count > 0 THEN Append(strm, JSON_SEPARATOR) ELSE strm
  <2>2. opsBar' = opsBar /\ phaseBar' = phaseBar /\ phaseBar = "run"
    <3>1. pc = "pull" /\ pc' \in {"pull", "close"}
      BY <1>6, <2>1 DEF Pull, GetInstance
    <3>2. UNCHANGED <<enumItems, pos, operation>>
      BY <1>6 DEF Pull
    <3>3. QED
      BY <3>1, <3>2 DEF opsBar, phaseBar
  <2>3. X \in Seq(Token) /\ ObjectsOf(X, Instances) = outBar
    <3>1. JSON_SEPARATOR \in Punct /\ JSON_SEPARATOR \in Token
      BY DEF Punct, Token
    <3>2. QED
      BY <1>0, <3>1, PunctDeliversNothing, AppendProperties DEF outBar
  <2>4. CASE emit /\ a.inst \notin BadInstances
    <3>1. a.inst \in Instances
      BY <2>4 DEF Answers
    <3>2. strm' = Append(X, a.inst)
      <4>1. strm' = X \o << a.inst >>
        BY <1>6, <2>1, <2>4 DEF GetInstance, InstanceJson
      <4>2. a.inst \in Token
        BY <3>1 DEF Token
      <4>3. QED
        BY <2>3, <4>1, <4>2, AppendIsConcat
    <3>3. outBar' = Append(outBar, a.inst)
      <4>1. a.inst \in Token
        BY <3>1 DEF Token
      <4>2. QED
        BY <2>3, <3>1, <3>2, <4>1, ObjectsOfAppend DEF outBar
    <3>4. opsBar[pos] = "open"
      BY <1>0, <2>1, <1>6 DEF Pull, RefinementInv, opsBar
    <3>5. pos \in DOMAIN opsBar
      BY <1>0, <1>6 DEF Pull, RefinementInv, opsBar
    <3>6. Abs!Deliver(a.inst)
      BY <2>2, <3>3, <3>4, <3>5 DEF Abs!Deliver, Abs!NoneOpen, Abs!IsOpen
    <3>7. QED
      BY <3>1, <3>6 DEF Abs!ANext
  <2>5. CASE emit /\ a.inst \in BadInstances
    <3>1. strm' = X \o << >>
      BY <1>6, <2>1, <2>5 DEF GetInstance, InstanceJson
    <3>2. outBar' = outBar
      BY <2>3, <3>1, ConcatEmptySeq DEF outBar
    <3>3. QED
      BY <2>2, <3>2 DEF Abs!avars
  <2>6. CASE ~emit
    <3>1. outBar' = outBar
      BY <1>6, <2>1, <2>6 DEF GetInstance, outBar
    <3>2. QED
      BY <2>2, <3>1 DEF Abs!avars
  <2>7. QED
    BY <2>4, <2>5, <2>6
<1>7. CASE CloseOperation
  <2>1. pos \in DOMAIN opsBar /\ opsBar[pos] = "open"
    BY <1>0, <1>7 DEF CloseOperation, RefinementInv, opsBar
  <2>2. opsBar' = [opsBar EXCEPT ![pos] = "closed"]
    <3>1. UNCHANGED enumItems /\ pos' = pos + 1 /\ operation' = "closed"
      BY <1>7 DEF CloseOperation
    <3>2. opsBar' = [k \in 1..Len(enumItems) |->
                        IF k = pos THEN "closed" ELSE opsBar[k]]
      BY <1>0, <3>1 DEF opsBar
    <3>3. QED
      BY <3>2 DEF opsBar
  <2>3. outBar' = outBar /\ phaseBar' = phaseBar
    BY <1>7 DEF CloseOperation, outBar, phaseBar
  <2>4. Abs!Close(pos)
    BY <2>1, <2>2, <2>3 DEF Abs!Close, Abs!IsOpen
  <2>5. QED
    BY <2>1, <2>4 DEF Abs!ANext, Abs!Progress
<1>9. CASE UNCHANGED vars
  BY <1>9 DEF vars, Abs!avars, opsBar, outBar, phaseBar
<1>10. QED
  BY <1>1, <1>2, <1>3, <1>4, <1>5, <1>6, <1>7, <1>9 DEF Next

\* One call of enumerate implements the safety part of OmiEnumerateAbstract
\* for every value of the constants: the requests of the argument are
\* taken in order, each MI_Operation is opened only when every earlier one
\* is closed and no other is open, instance objects are written only while
\* an operation is open, and the call returns only once every operation is
\* closed.  The fairness part is checked by TLC (ImplementsAbstract).
THEOREM Refinement == Spec => Abs!AInit /\ [][Abs!ANext]_Abs!avars
<1>1. Spec => []TypeOK
  BY TypeCorrect
<1>2. Spec => []RefinementInv
  BY RefinementInvariant
<1>3. QED
  BY <1>1, <1>2, InitRefines, StepRefines, PTL DEF Spec

=============================================================================
