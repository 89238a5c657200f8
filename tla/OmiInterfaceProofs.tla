-------------------------- MODULE OmiInterfaceProofs --------------------------
(***************************************************************************)
(* Proofs about one OMIInterface object used by a Ruby program             *)
(* (OmiInterface), for every value of the constants: what an enumerate     *)
(* call without a session returns, and that the composition keeps the      *)
(* invariants proved of its parts, OmiSession and OmiEnumerate.            *)
(***************************************************************************)
EXTENDS OmiInterface, OmiSessionProofs, SequenceTheorems, TLAPS

-----------------------------------------------------------------------------
(***************************************************************************)
(* An enumerate call on a null session.                                   *)
(***************************************************************************)

\* A call starts with an empty stream and no separator pending; while the
\* session handle is null, the stream of a call past StartEnumerate is the
\* list start alone, no separator is pending, and the drain loop has
\* emitted nothing.
NullSessionInv ==
    /\ pc \in {"call", "filter"} => strm = << >> /\ ~addSeparator
    /\ field["session"] = "null" =>
           /\ pc \in {"loop", "pull", "close"} =>
                  strm = << JSON_LIST_START >> /\ ~addSeparator
           /\ pc \in {"pull", "close"} => count = 0

\* The object starts outside any call.
LEMMA NullSessionInit == IfaceInit => NullSessionInv
BY DEF IfaceInit, NullSessionInv

\* A pull on a null session writes nothing: the provider's only answer is
\* the failed one.
LEMMA NullSessionPull ==
    ASSUME SessionPull, field["session"] = "null"
    PROVE  strm' = strm /\ count' = count /\ pc' \in {"pull", "close"}
<1>1. PICK a \in ProviderAnswers : E!GetInstance(a)
  BY DEF SessionPull
<1>2. a.call = "FAILED"
  BY <1>1 DEF ProviderAnswers
<1>3. QED
  BY <1>1, <1>2 DEF E!GetInstance

\* Every step of the object keeps NullSessionInv: the session handle does
\* not change during a call, and on a null session OpenOperation finds no
\* separator pending, pulls write nothing, and CloseOperation sees count 0.
LEMMA NullSessionStep ==
    NullSessionInv /\ [IfaceNext]_ifaceVars => NullSessionInv'
<1> SUFFICES ASSUME NullSessionInv, [IfaceNext]_ifaceVars
             PROVE  NullSessionInv'
  OBVIOUS
<1>1. CASE RubyNew \/ RubyConnect \/ RubyDisconnect \/ RubyFree
  <2>1. pc = "done" /\ pc' = "done"
    BY <1>1 DEF RubyNew, RubyConnect, RubyDisconnect, RubyFree, Idle, enumVars
  <2>2. QED
    BY <2>1 DEF NullSessionInv
<1>2. CASE RubyEnumerate
  BY <1>2 DEF RubyEnumerate, NullSessionInv
<1>3. CASE EnumerateStep
  <2>1. field' = field
    BY <1>3 DEF EnumerateStep, sessionVars
  <2>2. CASE E!Call \/ E!FilterItem
    BY <2>1, <2>2 DEF E!Call, E!FilterItem, NullSessionInv
  <2>3. CASE E!StartEnumerate
    BY <2>1, <2>3 DEF E!StartEnumerate, NullSessionInv
  <2>4. CASE E!OpenOperation
    BY <2>1, <2>4 DEF E!OpenOperation, NullSessionInv
  <2>5. CASE E!EndEnumerate
    BY <2>1, <2>5 DEF E!EndEnumerate, NullSessionInv
  <2>6. CASE SessionPull
    <3>1. pc = "pull" /\ UNCHANGED <<addSeparator>>
      BY <2>6 DEF SessionPull
    <3>2. field["session"] = "null" =>
            strm' = strm /\ count' = count /\ pc' \in {"pull", "close"}
      BY <2>6, NullSessionPull
    <3>3. pc' \in {"pull", "close"}
      <4>1. PICK a \in ProviderAnswers : E!GetInstance(a)
        BY <2>6 DEF SessionPull
      <4>2. QED
        BY <4>1 DEF E!GetInstance
    <3>4. QED
      BY <2>1, <3>1, <3>2, <3>3 DEF NullSessionInv
  <2>7. CASE E!CloseOperation
    <3>1. pc' = "loop" /\ UNCHANGED <<strm>>
          /\ addSeparator' = (0 < count) /\ pc = "close"
      BY <2>7 DEF E!CloseOperation
    <3>2. field["session"] = "null" => ~addSeparator'
      <4>1. field["session"] = "null" => ~(0 < count)
        BY <3>1 DEF NullSessionInv
      <4>2. QED
        BY <3>1, <4>1, Zenon
    <3>3. QED
      BY <2>1, <3>1, <3>2 DEF NullSessionInv
  <2>8. QED
    BY <1>3, <2>2, <2>3, <2>4, <2>5, <2>6, <2>7 DEF EnumerateStep
<1>4. CASE UNCHANGED ifaceVars
  BY <1>4 DEF ifaceVars, enumVars, sessionVars, NullSessionInv
<1>5. QED
  BY <1>1, <1>2, <1>3, <1>4 DEF IfaceNext

\* Appending to a one-token stream gives the two-token stream.
LEMMA AppendPair ==
    ASSUME NEW a, NEW b
    PROVE  Append(<< a >>, b) = << a, b >>
<1>1. << a >> \in Seq({a, b}) /\ b \in {a, b}
  OBVIOUS
<1>2. /\ Append(<< a >>, b) \in Seq({a, b}) /\ << a, b >> \in Seq({a, b})
      /\ Len(Append(<< a >>, b)) = 2
      /\ Append(<< a >>, b)[1] = a /\ Append(<< a >>, b)[2] = b
  BY <1>1, AppendProperties
<1>3. Len(Append(<< a >>, b)) = Len(<< a, b >>)
      /\ \A k \in 1..Len(Append(<< a >>, b)) : Append(<< a >>, b)[k] = << a, b >>[k]
  BY <1>2
<1>4. QED
  BY <1>2, <1>3, SeqEqual

\* The step that ends a call on a null session writes "]" right after
\* "[": only EndEnumerate ends a call that has an array argument.
LEMMA NullSessionEnd ==
    ASSUME NullSessionInv, EnumerateStep, pc' = "done", arg # NotArray,
           field["session"] = "null"
    PROVE  strm' = << JSON_LIST_START, JSON_LIST_END >>
<1>1. CASE E!EndEnumerate
  <2>1. strm = << JSON_LIST_START >>
    BY <1>1 DEF E!EndEnumerate, NullSessionInv
  <2>2. strm' = Append(strm, JSON_LIST_END)
    BY <1>1 DEF E!EndEnumerate
  <2>3. QED
    BY <2>1, <2>2, AppendPair
<1>2. CASE SessionPull
  <2>1. PICK a \in ProviderAnswers : E!GetInstance(a)
    BY <1>2 DEF SessionPull
  <2>2. QED
    BY <2>1 DEF E!GetInstance
<1>3. QED
  BY <1>1, <1>2 DEF EnumerateStep, E!Call, E!FilterItem, E!StartEnumerate,
                    E!OpenOperation, E!CloseOperation

\* An enumerate call made while the object holds no session (never
\* connected, disconnected, or after a failed connect) returns "[]",
\* whatever requests it was given and in whatever order: no instance is
\* written, and no separator either.
THEOREM DisconnectedEnumerateSafety == IfaceSpec => DisconnectedEnumerateEmpty
<1>1. NullSessionInv =>
        ((EnumerateStep /\ pc' = "done" /\ arg # NotArray
          /\ field["session"] = "null")
           => strm' = << JSON_LIST_START, JSON_LIST_END >>)
  BY NullSessionEnd
<1>2. []NullSessionInv =>
        [][(EnumerateStep /\ pc' = "done" /\ arg # NotArray
            /\ field["session"] = "null")
             => strm' = << JSON_LIST_START, JSON_LIST_END >>]_ifaceVars
  BY <1>1, PTL
<1>3. QED
  BY <1>2, NullSessionInit, NullSessionStep, PTL
     DEF IfaceSpec, DisconnectedEnumerateEmpty

-----------------------------------------------------------------------------
(***************************************************************************)
(* The types and the handle lifecycle of the composition.                  *)
(***************************************************************************)

EP == INSTANCE OmiEnumerateProofs

\* A step of the running call is a step of OmiEnumerate: the answers the
\* session gives are among those the provider's contract allows.
LEMMA EnumerateStepIsNext ==
    ASSUME EnumerateStep
    PROVE  E!Next
<1>1. ProviderAnswers \subseteq E!Answers
  BY DEF ProviderAnswers
<1>2. SessionPull => E!Pull
  BY <1>1 DEF SessionPull, E!Pull
<1>3. QED
  BY <1>2 DEF EnumerateStep, E!Next

\* The bounds OmiEnumerateProofs assumes hold of the composition's.
LEMMA EnumerateBounds == EP!BoundsAssumption /\ EP!ValuesAssumption
BY EnumerateAssumption
   DEF E!BoundsAssumption, EP!BoundsAssumption, E!ValuesAssumption,
       EP!ValuesAssumption, E!Punct, EP!Punct

\* Every step of OmiEnumerate keeps its types, for the composition's
\* constants: TypeStep of OmiEnumerateProofs, through the instance EP,
\* whose definitions are those of the composition's instance E.
LEMMA EnumerateTypeStep ==
    ASSUME E!TypeOK, [E!Next]_E!vars
    PROVE  E!TypeOK'
<1>1. EP!TypeOK
  BY DEF E!TypeOK, EP!TypeOK, E!Args, EP!Args, E!ArgEntry, EP!ArgEntry,
         E!Results, EP!Results, E!StreamOK, EP!StreamOK, E!Token, EP!Token,
         E!Punct, EP!Punct
<1>2. [EP!Next]_EP!vars
  <2>1. CASE E!Call
    BY <2>1 DEF E!Call, EP!Call, EP!Next
  <2>2. CASE E!FilterItem
    BY <2>2 DEF E!FilterItem, EP!FilterItem, EP!Next
  <2>3. CASE E!StartEnumerate
    BY <2>3 DEF E!StartEnumerate, EP!StartEnumerate, EP!Next
  <2>4. CASE E!OpenOperation
    BY <2>4 DEF E!OpenOperation, EP!OpenOperation, EP!Next
  <2>5. CASE E!EndEnumerate
    BY <2>5 DEF E!EndEnumerate, EP!EndEnumerate, EP!Next
  <2>6. CASE E!Pull
    BY <2>6 DEF E!Pull, EP!Pull, EP!Next, E!Answers, EP!Answers,
                E!GetInstance, EP!GetInstance, E!InstanceJson, EP!InstanceJson,
                E!Results, EP!Results
  <2>7. CASE E!CloseOperation
    BY <2>7 DEF E!CloseOperation, EP!CloseOperation, EP!Next
  <2>8. CASE UNCHANGED E!vars
    BY <2>8 DEF E!vars, EP!vars
  <2>9. QED
    BY <2>1, <2>2, <2>3, <2>4, <2>5, <2>6, <2>7, <2>8 DEF E!Next
<1>3. EP!TypeOK'
  BY <1>1, <1>2, EnumerateBounds, EP!TypeStep
<1>4. QED
  BY <1>3 DEF E!TypeOK, EP!TypeOK, E!Args, EP!Args, E!ArgEntry, EP!ArgEntry,
              E!Results, EP!Results, E!StreamOK, EP!StreamOK, E!Token, EP!Token,
              E!Punct, EP!Punct

\* The part of the invariant about the enumerate calls: the types of the
\* running call and the call count.
CallInv ==
    /\ E!TypeOK
    /\ enumerates \in 0..MaxEnumerates

\* The inductive invariant of the composition for a caller that does not
\* reconnect: the session's (SessionInv of OmiSessionProofs) and CallInv.
IfaceInv == SessionInv /\ CallInv

\* The inductive invariant of the composition for every caller: the
\* session's counters (CountInv of OmiSessionProofs) and CallInv.
\* IfaceTypeOK alone is not inductive: it does not relate the provider
\* counters to the members and the connect count.
IfaceCountInv == CountInv /\ CallInv

\* The values a call starts from (the empty stream, no pull yet, a
\* successful result) have the types of the enumerate call.
LEMMA FreshCallTypes ==
    /\ << >> \in Seq(E!Token)
    /\ 0 \in 0..MaxPulls
    /\ "OK" \in E!Results
BY EnumerateAssumption DEF E!BoundsAssumption, E!Results

\* wrap_OMIInterface_alloc leaves no call running and none made.
LEMMA CallInit == IfaceInit => CallInv
<1> SUFFICES ASSUME IfaceInit PROVE CallInv
  OBVIOUS
<1>1. E!TypeOK
  <2>1. arg \in E!Args
    BY DEF IfaceInit, E!Args
  <2>2. i \in Nat \ {0} /\ pos \in Nat \ {0} /\ count \in Nat
        /\ enumItems \in Seq(Requests)
    BY DEF IfaceInit
  <2>3. QED
    BY <2>1, <2>2, FreshCallTypes, Zenon DEF IfaceInit, E!TypeOK, E!StreamOK
<1>2. enumerates \in 0..MaxEnumerates
  BY EnumeratesAssumption DEF IfaceInit
<1>3. QED
  BY <1>1, <1>2 DEF CallInv

\* wrap_OMIInterface_alloc leaves the object in both invariants.
LEMMA IfaceInitInv == IfaceInit => IfaceInv /\ IfaceCountInv
<1> SUFFICES ASSUME IfaceInit PROVE IfaceInv /\ IfaceCountInv
  OBVIOUS
<1>1. SessionInv /\ CountInv
  BY InitInv, CountInit DEF IfaceInit
<1>2. QED
  BY <1>1, CallInit DEF IfaceInv, IfaceCountInv

\* Every step of the composition is a step of OmiSession or leaves the
\* session's state alone: the Ruby methods call the session's operations
\* only while no enumerate call is running, and an enumerate call never
\* touches the handles.
LEMMA SessionSteps ==
    ASSUME [IfaceNext]_ifaceVars
    PROVE  [Next]_vars
<1>1. CASE RubyNew
  BY <1>1 DEF RubyNew, Next
<1>2. CASE RubyConnect
  BY <1>2 DEF RubyConnect, Next
<1>3. CASE RubyDisconnect
  BY <1>3 DEF RubyDisconnect, Next
<1>4. CASE RubyFree
  BY <1>4 DEF RubyFree, Next
<1>5. CASE RubyEnumerate
  BY <1>5 DEF RubyEnumerate, sessionVars, vars
<1>6. CASE EnumerateStep
  BY <1>6 DEF EnumerateStep, sessionVars, vars
<1>7. CASE UNCHANGED ifaceVars
  BY <1>7 DEF ifaceVars, sessionVars, vars
<1>8. QED
  BY <1>1, <1>2, <1>3, <1>4, <1>5, <1>6, <1>7 DEF IfaceNext

\* Every step of the composition but the start of a call is a step of
\* OmiEnumerate or leaves the call's state alone.
LEMMA EnumerateSteps ==
    ASSUME [IfaceNext]_ifaceVars, ~RubyEnumerate
    PROVE  [E!Next]_E!vars
<1>1. CASE RubyNew \/ RubyConnect \/ RubyDisconnect \/ RubyFree
  BY <1>1 DEF RubyNew, RubyConnect, RubyDisconnect, RubyFree, enumVars, E!vars
<1>2. CASE EnumerateStep
  BY <1>2, EnumerateStepIsNext
<1>3. CASE UNCHANGED ifaceVars
  BY <1>3 DEF ifaceVars, enumVars, E!vars
<1>4. QED
  BY <1>1, <1>2, <1>3 DEF IfaceNext

\* Every step of the composition keeps CallInv: RubyEnumerate starts a
\* call with fresh locals, and every other step is a step of OmiEnumerate
\* or leaves the call alone.
LEMMA CallStep == CallInv /\ [IfaceNext]_ifaceVars => CallInv'
<1> SUFFICES ASSUME CallInv, [IfaceNext]_ifaceVars PROVE CallInv'
  OBVIOUS
<1>1. CASE RubyEnumerate
  <2>1. E!TypeOK'
    <3>1. i' \in Nat \ {0} /\ pos' \in Nat \ {0} /\ count' \in Nat
          /\ enumItems' \in Seq(Requests)
      BY <1>1 DEF RubyEnumerate
    <3>2. QED
      BY <1>1, <3>1, FreshCallTypes, Zenon
         DEF RubyEnumerate, E!TypeOK, E!StreamOK
  <2>2. enumerates' \in 0..MaxEnumerates
    BY <1>1, EnumeratesAssumption DEF RubyEnumerate, CallInv
  <2>3. QED
    BY <2>1, <2>2 DEF CallInv
<1>2. CASE ~RubyEnumerate
  <2>1. E!TypeOK'
    BY <1>2, EnumerateSteps, EnumerateTypeStep DEF CallInv
  <2>2. enumerates' = enumerates
    BY <1>2 DEF IfaceNext, RubyNew, RubyConnect, RubyDisconnect, RubyFree,
                EnumerateStep, ifaceVars
  <2>3. QED
    BY <2>1, <2>2 DEF CallInv
<1>3. QED
  BY <1>1, <1>2

\* For a caller that connects only a disconnected object, every step of
\* the composition keeps IfaceInv.
LEMMA IfaceStepInv ==
    ASSUME ~CallerReconnects
    PROVE  IfaceInv /\ [IfaceNext]_ifaceVars => IfaceInv'
<1> SUFFICES ASSUME IfaceInv, [IfaceNext]_ifaceVars PROVE IfaceInv'
  OBVIOUS
<1>0. ~CallerAllocates
  BY NewObjectsAssumption
<1>1. SessionInv'
  BY <1>0, SessionSteps, NextInv DEF IfaceInv
<1>2. QED
  BY <1>1, CallStep DEF IfaceInv

\* For every caller, every step of the composition keeps IfaceCountInv.
LEMMA IfaceStepCount ==
    IfaceCountInv /\ [IfaceNext]_ifaceVars => IfaceCountInv'
<1> SUFFICES ASSUME IfaceCountInv, [IfaceNext]_ifaceVars
             PROVE  IfaceCountInv'
  OBVIOUS
<1>1. CountInv'
  BY SessionSteps, NextCount DEF IfaceCountInv
<1>2. QED
  BY <1>1, CallStep DEF IfaceCountInv

\* For every caller, one that connects a connected object included, every
\* state of the Ruby object has the types of both components, and at most
\* MaxEnumerates enumerate calls are made.
THEOREM IfaceTypeCorrect == IfaceSpec => []IfaceTypeOK
<1>1. IfaceCountInv => IfaceTypeOK
  BY DEF IfaceCountInv, CountInv, CallInv, IfaceTypeOK
<1>2. IfaceInit => IfaceCountInv
  BY IfaceInitInv
<1>3. QED
  BY <1>1, <1>2, IfaceStepCount, PTL DEF IfaceSpec

\* The handle lifecycle of OmiSession holds of the Ruby object whatever
\* enumerate calls it runs between its connects and disconnects: no
\* provider object is leaked and a failed connect leaves nothing alive.
THEOREM IfaceSessionSafety ==
    ~CallerReconnects =>
        (IfaceSpec => [](NoLeak /\ FailedConnectHoldsNothing))
<1> SUFFICES ASSUME ~CallerReconnects
             PROVE  IfaceSpec => [](NoLeak /\ FailedConnectHoldsNothing)
  OBVIOUS
<1>1. IfaceInv => NoLeak /\ FailedConnectHoldsNothing
  BY DEF IfaceInv, SessionInv
<1>2. IfaceInit => IfaceInv
  BY IfaceInitInv
<1>3. QED
  BY <1>1, <1>2, IfaceStepInv, PTL DEF IfaceSpec

=============================================================================
