----------------------------- MODULE EngineSide -----------------------------
(* The workflow engine and the tooling operations in one API server: they share  *)
(* the process and nothing else.                                                 *)
EXTENDS WorkflowRun, ToolingAdapters

VARIABLES host, pages, lists, ring, req, status, pc, cancelling, why, child, check, reader, cut
tooling == <<host, pages, lists, ring, req, status, pc, cancelling, why, child, check, reader, cut>>

Tool == INSTANCE ToolingOps

\* A verdict is true of the CLI, of every operation there is (verify of every adapter,
\* operations.py _run).
VerdictIsTrue == [][\A o \in DOMAIN status : Tool!Verdict(o)]_tooling
=============================================================================
