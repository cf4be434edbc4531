----------------------------- MODULE MCScriptRun -----------------------------
(* Instances of ScriptRun for TLC.                                                *)
EXTENDS ScriptRun

AllFaults == FaultKinds
=============================================================================
