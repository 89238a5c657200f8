-------------------------- MODULE OmiSessionAbstract --------------------------
(***************************************************************************)
(* What the connection collaborator of one interface object promises      *)
(* (spec section 6), without the three provider calls of connect, the     *)
(* handle members or the order of the closes:                              *)
(*   - connect returns a status; on success the object holds an           *)
(*     application, a session and an options object, on failure it holds *)
(*     none of them (no partial-resource leak);                            *)
(*   - disconnect releases everything the object holds, whatever it held; *)
(*   - freeing the object releases everything it holds;                   *)
(*   - an object the caller stops using is eventually freed.              *)
(***************************************************************************)

CONSTANTS
    Kinds          \* the kinds of provider objects a connection consists of

VARIABLES
    obj,      \* the Ruby object: "allocated", "live" (constructed), "freed"
    alive,    \* the kinds of which a provider object created by this object is alive
    status    \* what the last connect returned: "none", "OK", "FAILED"

avars == <<obj, alive, status>>

AInit ==
    /\ obj = "allocated"
    /\ alive = {}
    /\ status = "none"

\* The object is constructed; it holds nothing yet.
New ==
    /\ obj = "allocated"
    /\ obj' = "live"
    /\ UNCHANGED <<alive, status>>

\* connect succeeds: the object holds one provider object of every kind.
ConnectOK ==
    /\ obj = "live"
    /\ alive' = Kinds
    /\ status' = "OK"
    /\ UNCHANGED obj

\* connect fails at some provider call: whatever it created is released.
ConnectFailed ==
    /\ obj = "live"
    /\ alive' = {}
    /\ status' = "FAILED"
    /\ UNCHANGED obj

\* disconnect releases what the object holds.
Disconnect ==
    /\ obj = "live"
    /\ alive' = {}
    /\ UNCHANGED <<obj, status>>

\* The object is freed, and what it held with it.
Free ==
    /\ obj = "live"
    /\ obj' = "freed"
    /\ alive' = {}
    /\ UNCHANGED status

ANext == New \/ ConnectOK \/ ConnectFailed \/ Disconnect \/ Free

\* Construction follows allocation, and an object is eventually freed.
ASpec == AInit /\ [][ANext]_avars /\ WF_avars(New) /\ WF_avars(Free)

=============================================================================
