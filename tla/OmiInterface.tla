---------------------------- MODULE OmiInterface ----------------------------
(***************************************************************************)
(* One Libomi::OMIInterface object as a Ruby program uses it: the calls    *)
(* connect, disconnect and enumerate on one object, in any order, and the  *)
(* garbage collector that frees it.  The session lifecycle is OmiSession;  *)
(* a call of enumerate runs the steps of OmiEnumerate.                     *)
(*                                                                         *)
(* All of it runs on the Ruby thread that holds the global VM lock, which  *)
(* none of these C functions releases: a call runs to its end before the   *)
(* next call starts, and the object is not collected while a call on it is *)
(* in progress (self is on that call's stack).  Between calls, "pc" is     *)
(* "done".                                                                 *)
(*                                                                         *)
(* The provider is an environment.  With a null session (never connected,  *)
(* disconnected, or a failed connect) the enumeration operation that       *)
(* MI_Session_EnumerateInstances writes is the failed one: its first       *)
(* MI_Operation_GetInstance returns an error, no instance, no more results *)
(* and an error result.                                                    *)
(***************************************************************************)
EXTENDS OmiSession

CONSTANTS
    Requests, Malformed, NotArray, Instances, BadInstances, NULL,
    JSON_LIST_START, JSON_LIST_END, JSON_SEPARATOR, MaxItems, MaxPulls,
    MaxEnumerates   \* bound on the enumerate calls of one object

ASSUME EnumeratesAssumption == MaxEnumerates \in Nat

VARIABLES
    pc, arg, i, enumItems, pos, addSeparator, operation, count, result,
    moreRemaining, pulls, opDone, strm,
    enumerates      \* enumerate calls made so far

E == INSTANCE OmiEnumerate

\* The bounds and sentinels of the enumerate call are those OmiEnumerate
\* assumes of them.
ASSUME EnumerateAssumption == E!BoundsAssumption /\ E!ValuesAssumption

\* The composition is about objects made by OMIInterface.new; objects whose
\* initialize never ran are the subject of OmiSession alone.
ASSUME NewObjectsAssumption == CallerAllocates = FALSE

sessionVars == <<life, field, live, connects, lastResult, indeterminateUse>>
enumVars == <<pc, arg, i, enumItems, pos, addSeparator, operation, count,
              result, moreRemaining, pulls, opDone, strm>>
ifaceVars == <<sessionVars, enumVars, enumerates>>

\* No Ruby method of the object is running.
Idle == pc = "done"

\* The answers of MI_Operation_GetInstance for an operation opened on the
\* current session: any answer of the provider's contract when a session is
\* open, the failed answer when the session handle is null.
ProviderAnswers ==
    IF field["session"] = "open"
    THEN E!Answers
    ELSE {a \in E!Answers :
            a.call = "FAILED" /\ a.inst = NULL /\ ~a.more /\ a.res = "FAILED"}

-----------------------------------------------------------------------------

\* wrap_OMIInterface_alloc of OMIInterface.new; no method has run yet.
IfaceInit ==
    /\ Init
    /\ pc = "done"
    /\ arg = NotArray
    /\ i = 1
    /\ enumItems = <<>>
    /\ pos = 1
    /\ addSeparator = FALSE
    /\ operation = "null"
    /\ count = 0
    /\ result = "OK"
    /\ moreRemaining = TRUE
    /\ pulls = 0
    /\ opDone = FALSE
    /\ strm = <<>>
    /\ enumerates = 0

\* wrap_OMIInterface_init, the second half of OMIInterface.new.
RubyNew ==
    /\ Idle
    /\ Initialize
    /\ UNCHANGED <<enumVars, enumerates>>

\* OMIInterface#connect.
RubyConnect ==
    /\ Idle
    /\ \E f \in FailurePoints : Connect(f)
    /\ UNCHANGED <<enumVars, enumerates>>

\* OMIInterface#disconnect.
RubyDisconnect ==
    /\ Idle
    /\ Disconnect
    /\ UNCHANGED <<enumVars, enumerates>>

\* The garbage collector frees an object no call is running on.
RubyFree ==
    /\ Idle
    /\ Free
    /\ UNCHANGED <<enumVars, enumerates>>

\* OMIInterface#enumerate(items) is called: wrap_OMIInterface_enumerate
\* starts with its argument and an empty request vector.
RubyEnumerate ==
    /\ Idle
    /\ life = "live"
    /\ enumerates < MaxEnumerates
    /\ enumerates' = enumerates + 1
    /\ pc' = "call"
    /\ arg' \in E!Args
    /\ i' = 1
    /\ enumItems' = <<>>
    /\ pos' = 1
    /\ addSeparator' = FALSE
    /\ operation' = "null"
    /\ count' = 0
    /\ result' = "OK"
    /\ moreRemaining' = TRUE
    /\ pulls' = 0
    /\ opDone' = FALSE
    /\ strm' = <<>>
    /\ UNCHANGED sessionVars

\* One pull of handle_results on the operation of the current session.
SessionPull ==
    /\ pc = "pull"
    /\ \E a \in ProviderAnswers : E!GetInstance(a)
    /\ UNCHANGED <<arg, i, enumItems, pos, addSeparator, operation>>

\* One step of the running enumerate call.
EnumerateStep ==
    /\ \/ E!Call
       \/ E!FilterItem
       \/ E!StartEnumerate
       \/ E!OpenOperation
       \/ E!EndEnumerate
       \/ SessionPull
       \/ E!CloseOperation
    /\ UNCHANGED <<sessionVars, enumerates>>

IfaceNext ==
    \/ RubyNew
    \/ RubyConnect
    \/ RubyDisconnect
    \/ RubyFree
    \/ RubyEnumerate
    \/ EnumerateStep

\* A running call is never postponed forever (one thread, every provider
\* call returns within the operation timeout), and an object the caller
\* stops using is eventually collected.  The caller itself is not bound to
\* call anything.
IfaceSpec ==
    /\ IfaceInit
    /\ [][IfaceNext]_ifaceVars
    /\ WF_ifaceVars(RubyNew)
    /\ WF_ifaceVars(EnumerateStep)
    /\ WF_ifaceVars(RubyFree)

-----------------------------------------------------------------------------

IfaceTypeOK ==
    /\ TypeOK
    /\ E!TypeOK
    /\ enumerates \in 0..MaxEnumerates

\* An enumerate call made while the object holds no session (before the
\* first connect, after disconnect or after a failed connect) returns the
\* empty array "[]" however many requests it was given: every operation on
\* the null session fails at once, and no separator may be written
\* between requests that emitted nothing.  The caller gets no status.
DisconnectedEnumerateEmpty ==
    [][(EnumerateStep /\ pc' = "done" /\ arg # NotArray
         /\ field["session"] = "null")
          => strm' = <<JSON_LIST_START, JSON_LIST_END>>]_ifaceVars

=============================================================================
