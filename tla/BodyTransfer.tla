----------------------------- MODULE BodyTransfer -----------------------------
(***************************************************************************)
(* What a server may receive of a request's body, without buffers and      *)
(* pointers: from some position on, one byte after the other, until the    *)
(* sender starts again from a position of the body.  A byte is the number  *)
(* of its position, 0 for the first.                                       *)
(***************************************************************************)
EXTENDS Integers, Sequences

VARIABLES
    length,     \* of the body
    start,      \* where the sender started the latest time
    received,   \* what has come since
    answer      \* what the latest request for another start was told

vars == <<length, start, received, answer>>

Init ==
    /\ length \in Nat
    /\ start = 0
    /\ received = <<>>
    /\ answer = "none"

Position == start + Len(received)

\* The next k bytes of the body.
Receive(k) ==
    /\ received' = received \o [i \in 1..k |-> Position + i - 1]
    /\ UNCHANGED <<length, start, answer>>

\* The sender starts again at position p.
Restart(p) ==
    /\ length > 0
    /\ start' = p
    /\ received' = <<>>
    /\ answer' = "ok"
    /\ UNCHANGED length

\* The sender goes on as if it had not been asked.
Refuse ==
    /\ answer' \in {"fail", "cantseek"}
    /\ UNCHANGED <<length, start, received>>

Next ==
    \/ \E k \in 0..(length - Position) : Receive(k)
    \/ \E p \in 0..length : Restart(p)
    \/ Refuse

Spec == Init /\ [][Next]_vars

=============================================================================
