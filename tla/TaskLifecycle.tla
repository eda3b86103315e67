----------------------------- MODULE TaskLifecycle -----------------------------
(***************************************************************************)
(* What a script may rely on of its background tasks, without threads and  *)
(* queues: ids are issued in increasing order; an issued task finishes at  *)
(* most once and never un-finishes; its result is applied to the database  *)
(* at most once, with the step that finishes it or (deferred DDL) later.   *)
(* Finishing does not promise that the result is applied at all.           *)
(***************************************************************************)
EXTENDS Naturals

CONSTANT Tasks   \* the ids, a set of numbers

VARIABLES
    issued,     \* the ids handed out
    finished,   \* how often each task was marked completed
    applied     \* how often each task's statement reached the SQL engine

vars == <<issued, finished, applied>>

Init ==
    /\ issued = {}
    /\ finished = [id \in Tasks |-> 0]
    /\ applied = [id \in Tasks |-> 0]

Issue(id) ==
    /\ \A j \in issued : j < id
    /\ issued' = issued \cup {id}
    /\ UNCHANGED <<finished, applied>>

Apply(id) ==
    /\ applied[id] = 0
    /\ applied' = [applied EXCEPT ![id] = 1]

Finish(id) ==
    /\ id \in issued
    /\ finished[id] = 0
    /\ finished' = [finished EXCEPT ![id] = 1]
    /\ Apply(id) \/ UNCHANGED applied
    /\ UNCHANGED issued

ApplyLate(id) ==
    /\ finished[id] = 1
    /\ Apply(id)
    /\ UNCHANGED <<issued, finished>>

Next == \E id \in Tasks : Issue(id) \/ Finish(id) \/ ApplyLate(id)

Spec == Init /\ [][Next]_vars

=============================================================================
