--------------------------- MODULE OmiSessionProofs ---------------------------
(***************************************************************************)
(* Proofs about the handle lifecycle of OMIInterface (OmiSession), for     *)
(* every MaxConnects, for objects made by OMIInterface.new                 *)
(* (CallerAllocates = FALSE) whose caller connects them only while they    *)
(* hold no handle (CallerReconnects = FALSE).  Without the second          *)
(* hypothesis NoLeak fails (run session_reconnect).  The first keeps the   *)
(* members initialised (LifeInv), which the step lemmas use; without it    *)
(* NoIndeterminateHandle fails (run session_allocate).                     *)
(***************************************************************************)
EXTENDS OmiSession, TLAPS

\* The fields as ruby_xmalloc leaves them.
GarbageFields == [h \in Handles |-> "garbage"]

\* Until initialize runs the fields are garbage; once it has run, none is.
LifeInv ==
    /\ life = "allocated" => field = GarbageFields
    /\ life # "allocated" => ~Indeterminate(field)
    /\ NoIndeterminateHandle

\* The inductive invariant: the handle types, NoLeak, that a failed connect
\* leaves nothing alive, and LifeInv.  NoLeak alone is not inductive: a
\* Disconnect after a failed Connect must find the counters at zero, and
\* so must initialize, which nulls the fields without closing anything.
SessionInv == TypeOK /\ NoLeak /\ FailedConnectHoldsNothing /\ LifeInv

\* The counters TypeOK bounds, for every caller: a member that holds an
\* open handle has its provider object counted, so the decrement of
\* Disconnect never goes below zero; and no kind has more live objects
\* than connect calls were made, so the counters stay within MaxConnects
\* even when a reconnect or a second initialize leaks handles.
CountInv ==
    /\ TypeOK
    /\ \A h \in Handles : field[h] = "open" => live[h] >= 1
    /\ \A h \in Handles : live[h] <= connects

\* Objects made by new are reached by the C functions only once constructed.
LEMMA ReachableLive ==
    ASSUME ~CallerAllocates, Reachable
    PROVE  life = "live"
BY DEF Reachable

\* The object that wrap_OMIInterface_alloc creates satisfies the invariant.
LEMMA InitInv == Init => SessionInv
<1> SUFFICES ASSUME Init PROVE SessionInv
    OBVIOUS
<1>1. TypeOK
  <2>1. indeterminateUse \in BOOLEAN
      BY Zenon DEF Init
  <2> QED
      BY <2>1, SessionAssumption DEF Init, TypeOK
<1>2. NoLeak
    BY DEF Init, NoLeak
<1>3. FailedConnectHoldsNothing
    BY DEF Init, FailedConnectHoldsNothing
<1>4. LifeInv
    BY DEF Init, LifeInv, GarbageFields, NoIndeterminateHandle
<1> QED
    BY <1>1, <1>2, <1>3, <1>4 DEF SessionInv

\* When the fields are all null and NoLeak holds, no provider object is
\* alive: the state in which the caller may connect.
LEMMA NullFieldsNothingAlive ==
    ASSUME TypeOK, NoLeak, field = NullFields
    PROVE  \A h \in Handles : live[h] = 0
BY DEF NoLeak, NullFields

\* DisconnectFields on counters that agree with the fields (NoLeak) gives
\* all counters zero.
LEMMA DisconnectClosesAll ==
    ASSUME NEW fld \in [Handles -> {"null", "open", "garbage"}],
           NEW lv \in [Handles -> Nat],
           \A h \in Handles : lv[h] = IF fld[h] = "open" THEN 1 ELSE 0
    PROVE  DisconnectFields(fld, lv) = [h \in Handles |-> 0]
BY DEF DisconnectFields

\* wrap_OMIInterface_init nulls the garbage fields of a fresh object, on
\* which nothing is alive.
LEMMA InitializeInv ==
    ASSUME SessionInv, ~CallerAllocates, Initialize
    PROVE  SessionInv'
<1>0. life = "allocated"
    BY DEF Initialize
<1>1. field = GarbageFields /\ \A h \in Handles : live[h] = 0
    BY <1>0 DEF SessionInv, LifeInv, NoLeak, GarbageFields
<1>2. indeterminateUse' \in BOOLEAN /\ indeterminateUse' = indeterminateUse
    BY Zenon DEF Initialize, SessionInv, TypeOK
<1>3. TypeOK' /\ NoLeak' /\ FailedConnectHoldsNothing'
    BY <1>1, <1>2 DEF SessionInv, Initialize, TypeOK, NoLeak,
                      FailedConnectHoldsNothing, NullFields
<1>4. LifeInv'
    BY <1>2 DEF SessionInv, LifeInv, Initialize, Indeterminate, NullFields,
                NoIndeterminateHandle
<1> QED
    BY <1>3, <1>4 DEF SessionInv

\* Connect, for any failure point, keeps the invariant when the caller does
\* not reconnect and the object was made by new.
LEMMA ConnectInv ==
    ASSUME SessionInv, ~CallerReconnects, ~CallerAllocates,
           NEW f \in FailurePoints, Connect(f)
    PROVE  SessionInv'
<1> USE SessionAssumption
<1>1. field = NullFields /\ \A h \in Handles : live[h] = 0
    BY NullFieldsNothingAlive DEF Connect, SessionInv
<1>0. life = "live" /\ life' = "live"
    BY ReachableLive DEF Connect
<1> DEFINE fld1 == [h \in Handles |->
                      IF h \in Created(f) THEN "open"
                      ELSE IF h \in Written(f) THEN "null" ELSE field[h]]
           lv1  == [h \in Handles |->
                      IF h \in Created(f) THEN live[h] + 1 ELSE live[h]]
<1>3. /\ fld1 \in [Handles -> {"null", "open"}]
      /\ lv1 \in [Handles -> Nat]
      /\ \A h \in Handles : lv1[h] = IF fld1[h] = "open" THEN 1 ELSE 0
  <2>1. fld1 \in [Handles -> {"null", "open"}]
      BY <1>1 DEF NullFields
  <2>2. lv1 \in [Handles -> Nat]
      BY <1>1
  <2>3. ASSUME NEW h \in Handles
        PROVE  lv1[h] = IF fld1[h] = "open" THEN 1 ELSE 0
      BY <1>1 DEF NullFields
  <2> QED
      BY <2>1, <2>2, <2>3
<1>4. MaxConnects >= 1
    BY DEF Connect, SessionInv, TypeOK
<1>2. ~Indeterminate(fld1)
    BY <1>3 DEF Indeterminate
<1>7. indeterminateUse' = FALSE
  <2>1. ~indeterminateUse
      BY DEF SessionInv, LifeInv, NoIndeterminateHandle
  <2>2. CASE f = "none"
    <3>1. UNCHANGED indeterminateUse
        BY <2>2 DEF Connect
    <3>2. indeterminateUse \in BOOLEAN
        BY DEF SessionInv, TypeOK
    <3> QED
        BY <2>1, <3>1, <3>2, Zenon
  <2>3. CASE f # "none"
    <3>1. indeterminateUse' = (indeterminateUse \/ Indeterminate(fld1))
        BY <2>3, Zenon DEF Connect
    <3> QED
        BY <1>2, <2>1, <3>1, Zenon
  <2> QED
      BY <2>2, <2>3
<1>9. indeterminateUse' \in BOOLEAN
    BY <1>7, Zenon
<1>8. ASSUME ~Indeterminate(field')
      PROVE  LifeInv'
    BY <1>0, <1>7, <1>8, Zenon DEF LifeInv, NoIndeterminateHandle
<1>5. CASE f = "none"
  <2>1. field' = fld1 /\ live' = lv1 /\ lastResult' = "OK"
        /\ connects' = connects + 1
      BY <1>5 DEF Connect
  <2>2. TypeOK'
    <3>1. lv1 \in [Handles -> 0..MaxConnects]
        BY <1>3, <1>4
    <3>2. connects + 1 \in 0..MaxConnects
        BY DEF Connect, SessionInv, TypeOK
    <3> QED
        BY <1>0, <1>3, <1>9, <2>1, <3>1, <3>2 DEF SessionInv, TypeOK
  <2>3. NoLeak'
      BY <1>3, <2>1 DEF NoLeak
  <2>4. FailedConnectHoldsNothing'
      BY <2>1 DEF FailedConnectHoldsNothing
  <2>5. LifeInv'
      BY <1>2, <1>8, <2>1
  <2> QED
      BY <2>2, <2>3, <2>4, <2>5 DEF SessionInv
<1>6. CASE f # "none"
  <2>1. field' = NullFields /\ live' = DisconnectFields(fld1, lv1)
        /\ lastResult' = "FAILED"
        /\ connects' = connects + 1
      BY <1>6 DEF Connect
  <2>2. live' = [h \in Handles |-> 0]
      BY <1>3, <2>1, DisconnectClosesAll
  <2>3. TypeOK'
      BY <1>0, <1>9, <2>1, <2>2 DEF SessionInv, TypeOK, Connect, NullFields
  <2>4. NoLeak'
      BY <2>1, <2>2 DEF NoLeak, NullFields
  <2>5. FailedConnectHoldsNothing'
      BY <2>2 DEF FailedConnectHoldsNothing
  <2>6. LifeInv'
    <3>1. ~Indeterminate(field')
        BY <2>1 DEF Indeterminate, NullFields
    <3> QED
        BY <1>8, <3>1
  <2> QED
      BY <2>3, <2>4, <2>5, <2>6 DEF SessionInv
<1> QED
    BY <1>5, <1>6

\* Disconnect and Free, on an object made by new, close what the fields
\* hold: afterwards nothing is alive and every field is null.
LEMMA TeardownInv ==
    ASSUME SessionInv, ~CallerAllocates, Disconnect \/ Free
    PROVE  SessionInv'
<1>0. life = "live"
    BY ReachableLive DEF Disconnect, Free
<1>1. /\ field \in [Handles -> {"null", "open", "garbage"}]
      /\ live \in [Handles -> Nat]
      /\ \A h \in Handles : live[h] = IF field[h] = "open" THEN 1 ELSE 0
      /\ ~Indeterminate(field)
      /\ ~indeterminateUse
    BY <1>0 DEF SessionInv, TypeOK, NoLeak, LifeInv, NoIndeterminateHandle
<1>2. field' = NullFields /\ live' = [h \in Handles |-> 0]
      /\ connects' = connects /\ lastResult' = lastResult
      /\ life' \in {"live", "freed"}
    BY <1>0, <1>1, DisconnectClosesAll DEF Disconnect, Free
<1>3. indeterminateUse' = FALSE
    BY <1>1, Zenon DEF Disconnect, Free
<1>7. indeterminateUse' \in BOOLEAN
    BY <1>3, Zenon
<1>4. TypeOK'
    BY <1>2, <1>7, SessionAssumption DEF SessionInv, TypeOK, NullFields
<1>5. NoLeak' /\ FailedConnectHoldsNothing'
    BY <1>2 DEF NoLeak, FailedConnectHoldsNothing, NullFields
<1>6. LifeInv'
    BY <1>2, <1>3 DEF LifeInv, Indeterminate, NullFields,
                      NoIndeterminateHandle
<1> QED
    BY <1>4, <1>5, <1>6 DEF SessionInv

\* A stuttering step leaves the invariant as it is.
LEMMA StutterInv ==
    ASSUME SessionInv, UNCHANGED vars
    PROVE  SessionInv'
BY DEF SessionInv, TypeOK, NoLeak, FailedConnectHoldsNothing, LifeInv,
       NoIndeterminateHandle, Indeterminate, GarbageFields, vars

\* Every step of an object made by new, whose caller does not reconnect,
\* keeps the invariant.
LEMMA NextInv ==
    ASSUME ~CallerReconnects, ~CallerAllocates
    PROVE  SessionInv /\ [Next]_vars => SessionInv'
<1> SUFFICES ASSUME SessionInv, [Next]_vars PROVE SessionInv'
    OBVIOUS
<1>1. CASE Initialize
    BY <1>1, InitializeInv
<1>2. CASE \E f \in FailurePoints : Connect(f)
    BY <1>2, ConnectInv
<1>3. CASE Disconnect \/ Free
    BY <1>3, TeardownInv
<1>4. CASE UNCHANGED vars
    BY <1>4, StutterInv
<1> QED
    BY <1>1, <1>2, <1>3, <1>4 DEF Next

\* For an object made by new whose Ruby caller connects it only while it
\* holds no handle, Connect, Disconnect and the destructor never leak a
\* provider object: every live application, session and options object is
\* the one its member holds.
THEOREM NoLeakSafety ==
    ~CallerReconnects /\ ~CallerAllocates => (Spec => []NoLeak)
<1> SUFFICES ASSUME ~CallerReconnects, ~CallerAllocates
             PROVE Spec => []NoLeak
    OBVIOUS
<1>1. SessionInv => NoLeak
    BY DEF SessionInv
<1> QED
    BY InitInv, NextInv, <1>1, PTL DEF Spec

\* Under the same hypotheses, after a connect that returned a failure and
\* until the next connect, no provider object the object created is alive:
\* the teardown in Connect closes what the earlier provider calls created.
THEOREM FailedConnectSafety ==
    ~CallerReconnects /\ ~CallerAllocates
        => (Spec => []FailedConnectHoldsNothing)
<1> SUFFICES ASSUME ~CallerReconnects, ~CallerAllocates
             PROVE Spec => []FailedConnectHoldsNothing
    OBVIOUS
<1>1. SessionInv => FailedConnectHoldsNothing
    BY DEF SessionInv
<1> QED
    BY InitInv, NextInv, <1>1, PTL DEF Spec

-----------------------------------------------------------------------------
(***************************************************************************)
(* Type correctness for every caller.                                      *)
(***************************************************************************)

\* Disconnect's closing of what the fields hold leaves every counter
\* between zero and its old bound when every open field is counted.
LEMMA DisconnectFieldsBounded ==
    ASSUME NEW fld \in [Handles -> {"null", "open", "garbage"}],
           NEW lv \in [Handles -> Nat], NEW c \in Nat,
           \A h \in Handles : fld[h] = "open" => lv[h] >= 1,
           \A h \in Handles : lv[h] <= c
    PROVE  DisconnectFields(fld, lv) \in [Handles -> 0..c]
BY DEF DisconnectFields

\* The handles the provider calls before a failure create, and those whose
\* out-parameter they write, are handles.
LEMMA CreatedWritten ==
    ASSUME NEW f \in FailurePoints
    PROVE  Created(f) \subseteq Handles /\ Written(f) \subseteq Handles
BY DEF FailurePoints, Created, Written, Handles

\* The object that wrap_OMIInterface_alloc creates satisfies CountInv.
LEMMA CountInit == Init => CountInv
<1> SUFFICES ASSUME Init PROVE CountInv
    OBVIOUS
<1>1. TypeOK
    BY InitInv DEF SessionInv
<1> QED
    BY <1>1 DEF Init, CountInv

\* Connect, failing at any point or succeeding, keeps CountInv, whether or
\* not the object held handles before.
LEMMA ConnectCount ==
    ASSUME CountInv, NEW f \in FailurePoints, Connect(f)
    PROVE  CountInv'
<1> USE SessionAssumption
<1> DEFINE fld1 == [h \in Handles |->
                      IF h \in Created(f) THEN "open"
                      ELSE IF h \in Written(f) THEN "null" ELSE field[h]]
           lv1  == [h \in Handles |->
                      IF h \in Created(f) THEN live[h] + 1 ELSE live[h]]
<1>0. /\ field \in [Handles -> {"null", "open", "garbage"}]
      /\ live \in [Handles -> 0..MaxConnects]
      /\ connects \in 0..MaxConnects /\ connects < MaxConnects
      /\ \A h \in Handles : field[h] = "open" => live[h] >= 1
      /\ \A h \in Handles : live[h] <= connects
    BY DEF CountInv, TypeOK, Connect
<1>1. /\ fld1 \in [Handles -> {"null", "open", "garbage"}]
      /\ lv1 \in [Handles -> Nat]
      /\ \A h \in Handles : fld1[h] = "open" => lv1[h] >= 1
      /\ \A h \in Handles : lv1[h] <= connects + 1
    BY <1>0
<1>2. connects' = connects + 1 /\ connects + 1 \in 0..MaxConnects
      /\ life' = life /\ life \in {"allocated", "live", "freed"}
    BY <1>0 DEF Connect, CountInv, TypeOK
<1>3. indeterminateUse' \in BOOLEAN
    BY Zenon DEF Connect, CountInv, TypeOK
<1>4. lastResult' \in {"none", "OK", "FAILED"}
    BY DEF Connect
<1>5. CASE f = "none"
  <2>1. field' = fld1 /\ live' = lv1
      BY <1>5 DEF Connect
  <2>2. live' \in [Handles -> 0..MaxConnects]
      BY <1>0, <1>1, <2>1
  <2> QED
      BY <1>1, <1>2, <1>3, <1>4, <2>1, <2>2 DEF CountInv, TypeOK
<1>6. CASE f # "none"
  <2>1. field' = NullFields /\ live' = DisconnectFields(fld1, lv1)
      BY <1>6 DEF Connect
  <2>2. live' \in [Handles -> 0..connects + 1]
      BY <1>1, <1>2, <2>1, DisconnectFieldsBounded
  <2>3. live' \in [Handles -> 0..MaxConnects]
      BY <1>0, <2>2
  <2> QED
      BY <1>2, <1>3, <1>4, <2>1, <2>2, <2>3 DEF CountInv, TypeOK, NullFields
<1> QED
    BY <1>5, <1>6

\* Disconnect and the destructor keep CountInv: they close exactly what the
\* open fields hold, and garbage fields are passed on but count nothing.
LEMMA TeardownCount ==
    ASSUME CountInv, Disconnect \/ Free
    PROVE  CountInv'
<1> USE SessionAssumption
<1>0. /\ field \in [Handles -> {"null", "open", "garbage"}]
      /\ live \in [Handles -> 0..MaxConnects]
      /\ connects \in 0..MaxConnects
      /\ \A h \in Handles : field[h] = "open" => live[h] >= 1
      /\ \A h \in Handles : live[h] <= connects
    BY DEF CountInv, TypeOK
<1>1. /\ field' = NullFields /\ live' = DisconnectFields(field, live)
      /\ connects' = connects /\ lastResult' = lastResult
      /\ life' \in {"allocated", "live", "freed"}
    BY DEF Disconnect, Free, CountInv, TypeOK
<1>2. live' \in [Handles -> 0..connects]
    BY <1>0, <1>1, DisconnectFieldsBounded
<1>3. indeterminateUse' \in BOOLEAN
    BY Zenon DEF Disconnect, Free, CountInv, TypeOK
<1> QED
    BY <1>0, <1>1, <1>2, <1>3 DEF CountInv, TypeOK, NullFields

\* wrap_OMIInterface_init nulls the fields without closing anything: the
\* counters stay, and no field is open afterwards.
LEMMA InitializeCount ==
    ASSUME CountInv, Initialize
    PROVE  CountInv'
<1>1. indeterminateUse' \in BOOLEAN
    BY Zenon DEF Initialize, CountInv, TypeOK
<1> QED
    BY <1>1 DEF Initialize, CountInv, TypeOK, NullFields

\* Every step keeps CountInv, whatever the caller does.
LEMMA NextCount == CountInv /\ [Next]_vars => CountInv'
<1> SUFFICES ASSUME CountInv, [Next]_vars PROVE CountInv'
    OBVIOUS
<1>1. CASE Initialize
    BY <1>1, InitializeCount
<1>2. CASE \E f \in FailurePoints : Connect(f)
    BY <1>2, ConnectCount
<1>3. CASE Disconnect \/ Free
    BY <1>3, TeardownCount
<1>4. CASE UNCHANGED vars
    BY <1>4 DEF CountInv, TypeOK, vars
<1> QED
    BY <1>1, <1>2, <1>3, <1>4 DEF Next

\* For every caller (one that reconnects a connected object or reaches an
\* unconstructed one included), the members, the provider counters and the
\* connect count keep their types: even the handles a reconnect leaks are
\* bounded by the connect calls made.
THEOREM SessionTypeCorrect == Spec => []TypeOK
<1>1. CountInv => TypeOK
    BY DEF CountInv
<1> QED
    BY CountInit, NextCount, <1>1, PTL DEF Spec

=============================================================================
