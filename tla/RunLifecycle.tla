---------------------------- MODULE RunLifecycle ----------------------------
(* What a run promises to the clients of the journal, whatever the engine does   *)
(* between two durable writes: one drive at a time, a row nobody drives changes  *)
(* only by the cancel of a crash remnant, and a COMPLETED or CANCELLED row is    *)
(* final.  The model of the engine (WorkflowRun) is shown to implement it.       *)

VARIABLES
    row,       \* the durable run state, "none" when there is no row
    driving    \* whether a drive executes the run

vars == <<row, driving>>

Open == {"RUNNING", "FAILED"}
Terminal == {"COMPLETED", "FAILED", "CANCELLED"}

Init == row = "none" /\ driving = FALSE

\* A start claims a new run_id, a resume one that is not finally settled.
Claim == ~driving /\ row \in Open \cup {"none"} /\ driving' = TRUE /\ row' = row

\* The drive makes the row, or re-opens it.
MarkRunning == driving /\ row \in Open \cup {"none"} /\ row' = "RUNNING" /\ UNCHANGED driving

\* The drive ends and settles the row.
Settle == driving /\ row \in Open /\ row' \in Terminal /\ driving' = FALSE

\* The drive is lost, or its last write is: the row stays as it was.
Lose == driving /\ driving' = FALSE /\ row' = row

\* A remnant is cancelled in the journal.
CancelRemnant == ~driving /\ row = "RUNNING" /\ row' = "CANCELLED" /\ UNCHANGED driving

Next == Claim \/ MarkRunning \/ Settle \/ Lose \/ CancelRemnant

Spec == Init /\ [][Next]_vars
=============================================================================
