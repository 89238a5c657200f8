------------------------- MODULE OmiSessionRefinement -------------------------
(***************************************************************************)
(* Proof that the handle lifecycle of OMIInterface (OmiSession) implements *)
(* the safety part of OmiSessionAbstract under the refinement mapping at   *)
(* the end of OmiSession, for every MaxConnects, for objects made by new   *)
(* whose caller connects them only while they hold no handle.  The        *)
(* mapping needs the state after each step to be known, not only the one *)
(* before it: each step is matched using SessionInv on both of its states.*)
(***************************************************************************)
EXTENDS OmiSessionProofs

\* Nothing is alive in the object wrap_OMIInterface_alloc creates.
LEMMA SessionInitRefines == Init => SAbs!AInit
BY DEF Init, SAbs!AInit, aliveBar

\* Every step of an object made by new, whose caller does not reconnect,
\* is a step of OmiSessionAbstract or leaves the abstract state alone.
LEMMA SessionStepRefines ==
    ASSUME ~CallerReconnects, ~CallerAllocates,
           SessionInv, SessionInv', [Next]_vars
    PROVE  [SAbs!ANext]_SAbs!avars
<1> USE DEF SessionInv
<1>1. CASE Initialize
  <2>1. life = "allocated" /\ life' = "live"
    BY <1>1 DEF Initialize
  <2>2. aliveBar' = aliveBar /\ lastResult' = lastResult
    BY <1>1 DEF Initialize, aliveBar
  <2>3. QED
    BY <2>1, <2>2 DEF SAbs!ANext, SAbs!New
<1>2. ASSUME NEW f \in FailurePoints, Connect(f)
      PROVE  [SAbs!ANext]_SAbs!avars
  <2>1. life = "live" /\ life' = "live"
    BY <1>2, ReachableLive DEF Connect
  <2>2. CASE f = "none"
    <3>1. field' = [h \in Handles |-> "open"]
      BY <1>2, <2>2 DEF Connect, Created
    <3>2. aliveBar' = Handles /\ lastResult' = "OK"
      BY <1>2, <2>2, <3>1 DEF Connect, NoLeak, aliveBar
    <3>3. QED
      BY <2>1, <3>2 DEF SAbs!ANext, SAbs!ConnectOK
  <2>3. CASE f # "none"
    <3>1. lastResult' = "FAILED"
      BY <1>2, <2>3 DEF Connect
    <3>2. aliveBar' = {}
      BY <3>1 DEF FailedConnectHoldsNothing, aliveBar
    <3>3. QED
      BY <2>1, <3>1, <3>2 DEF SAbs!ANext, SAbs!ConnectFailed
  <2>4. QED
    BY <2>2, <2>3
<1>3. CASE Disconnect
  <2>1. life = "live" /\ life' = life /\ lastResult' = lastResult
        /\ field' = NullFields
    BY <1>3, ReachableLive DEF Disconnect
  <2>2. aliveBar' = {}
    BY <2>1 DEF NoLeak, NullFields, TypeOK, aliveBar
  <2>3. QED
    BY <2>1, <2>2 DEF SAbs!ANext, SAbs!Disconnect
<1>4. CASE Free
  <2>1. life = "live" /\ life' = "freed" /\ lastResult' = lastResult
        /\ field' = NullFields
    BY <1>4, ReachableLive DEF Free
  <2>2. aliveBar' = {}
    BY <2>1 DEF NoLeak, NullFields, TypeOK, aliveBar
  <2>3. QED
    BY <2>1, <2>2 DEF SAbs!ANext, SAbs!Free
<1>5. CASE UNCHANGED vars
  BY <1>5 DEF vars, SAbs!avars, aliveBar
<1>6. QED
  BY <1>1, <1>2, <1>3, <1>4, <1>5 DEF Next

\* For an object made by OMIInterface.new whose caller connects it only
\* while it holds no handle, the handle lifecycle keeps the promises of the
\* connection collaborator (spec section 6): a successful connect holds one
\* application, session and options object, and a failed connect,
\* disconnect and the destructor leave none alive.  Only the safety part
\* of ImplementsSessionAbstract is proved; its fairness (the object is
\* eventually freed) is checked by TLC.
THEOREM SessionRefinement ==
    ~CallerReconnects /\ ~CallerAllocates
        => (Spec => SAbs!AInit /\ [][SAbs!ANext]_SAbs!avars)
<1> SUFFICES ASSUME ~CallerReconnects, ~CallerAllocates
             PROVE  Spec => SAbs!AInit /\ [][SAbs!ANext]_SAbs!avars
  OBVIOUS
<1>1. SessionInv /\ SessionInv' /\ [Next]_vars => [SAbs!ANext]_SAbs!avars
  BY SessionStepRefines
<1>2. QED
  BY <1>1, InitInv, NextInv, SessionInitRefines, PTL DEF Spec

=============================================================================
