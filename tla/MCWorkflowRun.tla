---------------------------- MODULE MCWorkflowRun ----------------------------
(* Instances of WorkflowRun for TLC.                                            *)
EXTENDS WorkflowRun

\* The first step is retried once, the others not.
MCRetries == [i \in Idx |-> IF i = 1 THEN 1 ELSE 0]
=============================================================================
