------------------------- MODULE OmiEnumerateAbstract -------------------------
(***************************************************************************)
(* What one call of enumerate promises, without the pull loop, the         *)
(* argument filter or the punctuation of the JSON text:                    *)
(*   - the requests are taken in order, and each gets one enumeration      *)
(*     operation, opened, drained and closed before the next one opens;    *)
(*   - an instance object is delivered only while an operation is open,    *)
(*     so the objects appear in request order;                             *)
(*   - the call returns once every operation is closed, and nothing is     *)
(*     delivered afterwards;                                               *)
(*   - every call returns.                                                 *)
(***************************************************************************)
EXTENDS Naturals, Sequences

CONSTANTS
    Objects        \* the instance objects a call can deliver

VARIABLES
    ops,     \* ops[k]: operation of the k-th request, "pending", "open", "closed"
    out,     \* the instance objects delivered, in order
    phase    \* "accept" (reading the argument), "run", "done"

avars == <<ops, out, phase>>

\* The request whose operation is open, if any.
IsOpen(k) == ops[k] = "open"
NoneOpen == \A k \in DOMAIN ops : ~IsOpen(k)

AInit ==
    /\ ops = <<>>
    /\ out = <<>>
    /\ phase = "accept"

\* A request of the argument is accepted: its operation is pending.
Accept ==
    /\ phase = "accept"
    /\ ops' = Append(ops, "pending")
    /\ UNCHANGED <<out, phase>>

\* The argument is read; the requests are processed from now on.
Start ==
    /\ phase = "accept"
    /\ phase' = "run"
    /\ UNCHANGED <<ops, out>>

\* The operation of request k opens: every earlier request is closed.
Open(k) ==
    /\ phase = "run"
    /\ ops[k] = "pending"
    /\ \A j \in 1..(k - 1) : ops[j] = "closed"
    /\ NoneOpen
    /\ ops' = [ops EXCEPT ![k] = "open"]
    /\ UNCHANGED <<out, phase>>

\* The open operation delivers object x.
Deliver(x) ==
    /\ phase = "run"
    /\ ~NoneOpen
    /\ out' = Append(out, x)
    /\ UNCHANGED <<ops, phase>>

\* The open operation of request k is closed, whatever its drain ended in.
Close(k) ==
    /\ IsOpen(k)
    /\ ops' = [ops EXCEPT ![k] = "closed"]
    /\ UNCHANGED <<out, phase>>

\* The call returns: every operation is closed.
Finish ==
    /\ phase \in {"accept", "run"}
    /\ \A k \in DOMAIN ops : ops[k] = "closed"
    /\ phase' = "done"
    /\ UNCHANGED <<ops, out>>

\* The steps the call must eventually take: it is never stuck with an
\* operation open, a request pending or its result unreturned.
Progress ==
    \/ Start
    \/ \E k \in DOMAIN ops : Open(k) \/ Close(k)
    \/ Finish

ANext ==
    \/ Accept
    \/ \E x \in Objects : Deliver(x)
    \/ Progress

ASpec == AInit /\ [][ANext]_avars /\ WF_avars(Progress)

=============================================================================
