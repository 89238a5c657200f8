----------------------------- MODULE OmiSession -----------------------------
(***************************************************************************)
(* The life of one Libomi::OMIInterface object and of the three provider   *)
(* handles it owns: the application (m_App), the session (m_Session) and   *)
(* the operation options (m_Options).                                      *)
(*                                                                         *)
(* Each Ruby method is one atomic step: the C functions run with the Ruby  *)
(* global VM lock held and call nothing that releases it, so no other      *)
(* Ruby thread runs inside them.  A handle field is "null" or "open"; the  *)
(* provider side is counted: live[h] is the number of provider objects of  *)
(* kind h that were created and not yet closed, whether or not a field     *)
(* still refers to them.  A provider call that fails writes the null       *)
(* handle to its out-parameter (MI_APPLICATION_NULL, MI_SESSION_NULL,      *)
(* MI_OPERATIONOPTIONS_NULL) and creates nothing.                          *)
(*                                                                         *)
(* The object's memory comes from wrap_OMIInterface_alloc (ruby_xmalloc,   *)
(* not zeroed) and is constructed by wrap_OMIInterface_init.               *)
(* OMIInterface.new runs both back to back, but Class#allocate and         *)
(* Object#dup/clone call the alloc function without initialize: the        *)
(* fields of such an object are "garbage" (indeterminate), and the C       *)
(* functions, the free function included, use them all the same.           *)
(***************************************************************************)
EXTENDS Naturals

CONSTANTS
    MaxConnects,       \* bound on the connect calls of one object
    CallerReconnects,  \* whether the Ruby caller may connect a connected object
    CallerAllocates    \* whether Ruby code holds an object initialize never ran on

ASSUME SessionAssumption ==
    /\ MaxConnects \in Nat
    /\ CallerReconnects \in BOOLEAN
    /\ CallerAllocates \in BOOLEAN

\* The three handles an OMIInterface owns.
Handles == {"app", "session", "options"}

\* The provider calls of Connect at which it can fail, in the order Connect
\* makes them; "none" stands for a Connect in which every call succeeds.
FailurePoints == {"Initialize", "NewSession", "NewOperationOptions",
                  "SetTimeout", "none"}

VARIABLES
    life,        \* the Ruby object: "allocated", "live" (constructed) or "freed"
    field,       \* field[h]: the handle member, "null", "open" or "garbage"
    live,        \* live[h]: provider objects of kind h not yet closed
    connects,    \* connect calls made so far
    lastResult,  \* the MI_Result the last connect returned: "none", "OK", "FAILED"
    indeterminateUse  \* a provider call was passed an indeterminate handle

vars == <<life, field, live, connects, lastResult, indeterminateUse>>

NullFields == [h \in Handles |-> "null"]

\* Some field holds what ruby_xmalloc left there.
Indeterminate(fld) == \E h \in Handles : fld[h] = "garbage"

\* get_OMIInterface hands the object's memory to a C function: always for
\* a constructed object, and for an unconstructed one only when Ruby code
\* can reach it.
Reachable == life = "live" \/ (CallerAllocates /\ life = "allocated")

\* The handles the provider calls up to (and excluding) the failing one
\* create, given the point at which Connect fails.  SetTimeout is not a
\* handle: when it fails, all three handles have been created.
Created(f) ==
    CASE f = "Initialize"          -> {}
      [] f = "NewSession"          -> {"app"}
      [] f = "NewOperationOptions" -> {"app", "session"}
      [] f = "SetTimeout"          -> Handles
      [] f = "none"                -> Handles

\* The handles whose out-parameter a provider call writes, successful or
\* not, before Connect stops.
Written(f) ==
    CASE f = "Initialize"          -> {"app"}
      [] f = "NewSession"          -> {"app", "session"}
      [] f = "NewOperationOptions" -> Handles
      [] f = "SetTimeout"          -> Handles
      [] f = "none"                -> Handles

\* Mutant: a Disconnect that forgets MI_OperationOptions_Delete.
DisconnectFieldsKeepOptions(fld, lv) ==
    [h \in Handles |->
        IF fld[h] = "open" /\ h # "options" THEN lv[h] - 1 ELSE lv[h]]

\* Disconnect: MI_OperationOptions_Delete, MI_Session_Close and
\* MI_Application_Close close whatever the fields hold (a null handle is
\* rejected and nothing happens), and every field is reset to null.
DisconnectFields(fld, lv) ==
    [h \in Handles |-> IF fld[h] = "open" THEN lv[h] - 1 ELSE lv[h]]

-----------------------------------------------------------------------------

\* wrap_OMIInterface_alloc: Data_Wrap_Struct over ruby_xmalloc'd memory.
Init ==
    /\ life = "allocated"
    /\ field = [h \in Handles |-> "garbage"]
    /\ live = [h \in Handles |-> 0]
    /\ connects = 0
    /\ lastResult = "none"
    /\ indeterminateUse = FALSE

\* Mutant: an initialize that does not run the constructor, leaving the
\* handle members as ruby_xmalloc returned them.
InitializeNoConstruct ==
    /\ life = "allocated" \/ (CallerAllocates /\ life = "live")
    /\ life' = "live"
    /\ UNCHANGED <<field, live, connects, lastResult, indeterminateUse>>

\* wrap_OMIInterface_init: placement new of OMIInterface, whose constructor
\* sets the three handles to null without closing what they held.  new
\* calls it once on fresh memory; Ruby code that reaches the private
\* initialize (send) can call it on a constructed object as well.
Initialize ==
    /\ life = "allocated" \/ (CallerAllocates /\ life = "live")
    /\ life' = "live"
    /\ field' = NullFields
    /\ UNCHANGED <<live, connects, lastResult, indeterminateUse>>

\* Mutant: a Connect that returns the failure without calling Disconnect.
ConnectNoTeardown(f) ==
    /\ Reachable
    /\ connects < MaxConnects
    /\ CallerReconnects \/ field = NullFields
    /\ field' = [h \in Handles |->
                  IF h \in Created(f) THEN "open"
                  ELSE IF h \in Written(f) THEN "null" ELSE field[h]]
    /\ live' = [h \in Handles |->
                  IF h \in Created(f) THEN live[h] + 1 ELSE live[h]]
    /\ lastResult' = IF f = "none" THEN "OK" ELSE "FAILED"
    /\ connects' = connects + 1
    /\ UNCHANGED <<life, indeterminateUse>>

\* Mutant: a Connect whose later calls assign a result declared in an inner
\* block, shadowing the outer one: only a failing MI_Application_Initialize
\* is reported, and only it is followed by the teardown.
ConnectShadowedResult(f) ==
    /\ Reachable
    /\ connects < MaxConnects
    /\ CallerReconnects \/ field = NullFields
    /\ LET fld1 == [h \in Handles |->
                      IF h \in Created(f) THEN "open"
                      ELSE IF h \in Written(f) THEN "null" ELSE field[h]]
           lv1  == [h \in Handles |->
                      IF h \in Created(f) THEN live[h] + 1 ELSE live[h]]
       IN  IF f # "Initialize"
           THEN /\ field' = fld1
                /\ live' = lv1
                /\ lastResult' = "OK"
                /\ UNCHANGED indeterminateUse
           ELSE /\ field' = NullFields
                /\ live' = DisconnectFields(fld1, lv1)
                /\ lastResult' = "FAILED"
                /\ indeterminateUse' = (indeterminateUse \/ Indeterminate(fld1))
    /\ connects' = connects + 1
    /\ UNCHANGED life

\* OMIInterface::Connect, failing at point f or succeeding (f = "none").
\* The calls before f write their handle and create it; the failing call
\* writes null over its field.  On failure Connect calls Disconnect, which
\* passes every field, written or not, to the provider.
Connect(f) ==
    /\ Reachable
    /\ connects < MaxConnects
    /\ CallerReconnects \/ field = NullFields
    /\ LET fld1 == [h \in Handles |->
                      IF h \in Created(f) THEN "open"
                      ELSE IF h \in Written(f) THEN "null" ELSE field[h]]
           lv1  == [h \in Handles |->
                      IF h \in Created(f) THEN live[h] + 1 ELSE live[h]]
       IN  IF f = "none"
           THEN /\ field' = fld1
                /\ live' = lv1
                /\ lastResult' = "OK"
                /\ UNCHANGED indeterminateUse
           ELSE /\ field' = NullFields
                /\ live' = DisconnectFields(fld1, lv1)
                /\ lastResult' = "FAILED"
                /\ indeterminateUse' = (indeterminateUse \/ Indeterminate(fld1))
    /\ connects' = connects + 1
    /\ UNCHANGED life

\* OMIInterface#disconnect: OMIInterface::Disconnect.
Disconnect ==
    /\ Reachable
    /\ field' = NullFields
    /\ live' = DisconnectFields(field, live)
    /\ indeterminateUse' = (indeterminateUse \/ Indeterminate(field))
    /\ UNCHANGED <<life, connects, lastResult>>

\* Mutant: a free function that releases the memory without the destructor.
FreeWithoutDtor ==
    /\ Reachable
    /\ life' = "freed"
    /\ UNCHANGED <<field, live, connects, lastResult, indeterminateUse>>

\* The garbage collector frees the object: wrap_OMIInterface_free runs the
\* destructor, which calls Disconnect, then releases the memory.  The
\* pointer is never null, so the destructor always runs, constructed or not.
Free ==
    /\ Reachable
    /\ life' = "freed"
    /\ field' = NullFields
    /\ live' = DisconnectFields(field, live)
    /\ indeterminateUse' = (indeterminateUse \/ Indeterminate(field))
    /\ UNCHANGED <<connects, lastResult>>

Next ==
    \/ Initialize
    \/ \E f \in FailurePoints : Connect(f)
    \/ Disconnect
    \/ Free

\* OMIInterface.new calls initialize right after the allocation, and the
\* garbage collector eventually frees an unreachable object; a Ruby caller
\* may stop calling at any time.
Spec == Init /\ [][Next]_vars /\ WF_vars(Initialize) /\ WF_vars(Free)

-----------------------------------------------------------------------------

TypeOK ==
    /\ life \in {"allocated", "live", "freed"}
    /\ field \in [Handles -> {"null", "open", "garbage"}]
    /\ live \in [Handles -> 0..MaxConnects]
    /\ connects \in 0..MaxConnects
    /\ lastResult \in {"none", "OK", "FAILED"}
    /\ indeterminateUse \in BOOLEAN

\* No provider object is leaked: every application, session and options
\* object Connect created and no Disconnect closed is still held by the
\* field that Disconnect closes (so at most one of each kind is alive).
NoLeak ==
    \A h \in Handles : live[h] = IF field[h] = "open" THEN 1 ELSE 0

\* After a connect that returned a failure, and until the next connect,
\* the object holds no provider object: Connect's call of Disconnect tears
\* down the application and session that the calls before the failing one
\* created (spec: "no partial-resource leak").
FailedConnectHoldsNothing ==
    lastResult = "FAILED" => \A h \in Handles : live[h] = 0

\* No provider call (MI_OperationOptions_Delete, MI_Session_Close,
\* MI_Application_Close in Disconnect, reached from disconnect, from a
\* failed connect or from the free function) is passed a handle the
\* constructor never initialised: the memory of an object is constructed
\* before any C function uses it.
NoIndeterminateHandle == ~indeterminateUse

\* Once the object is freed, no provider object it created is alive.
FreedReleasesAll ==
    <>(life = "freed" /\ \A h \in Handles : live[h] = 0)


-----------------------------------------------------------------------------
(***************************************************************************)
(* Refinement: the object implements OmiSessionAbstract.  The Ruby object  *)
(* is the same; a kind of provider object is alive when the counter of    *)
(* its kind is positive; the status is what the last connect returned.     *)
(***************************************************************************)

aliveBar == {h \in Handles : live[h] > 0}

SAbs == INSTANCE OmiSessionAbstract
            WITH Kinds <- Handles, obj <- life, alive <- aliveBar,
                 status <- lastResult

\* The handle lifecycle keeps the promises of the connection collaborator
\* (spec section 6): a successful connect holds all three provider objects,
\* a failed connect, disconnect and the destructor leave none alive, and an
\* unused object is eventually freed.
ImplementsSessionAbstract == SAbs!ASpec

=============================================================================
