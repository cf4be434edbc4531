---------------------------- MODULE MCEngineModes ----------------------------
(* EngineSide for TLC, with two more instances of ToolingOps beside its own: two    *)
(* operations that race for a lock and the only slot; one operation under a         *)
(* reader of all the pages; its own is one operation of every kind on every adapter.*)
EXTENDS MCWorkflowRun, EngineSide

VARIABLE mode
modes == <<mode, vars, tooling>>

CONSTANTS n, o1, o2, r1

Ask(action, provider, catalog) ==
    [action |-> action, provider |-> provider, target |-> n, catalog |-> catalog]
Have(cli, items) == [p \in Adapters |-> [cli |-> cli, items |-> items]]

Few == {"claude_code", "generic_skills"}
FewHave(cli, items) ==
    [p \in Few |-> IF p = "claude_code" THEN [cli |-> cli, items |-> items]
                                        ELSE [cli |-> TRUE, items |-> {n}]]

\* Every request there is, on every adapter.
AllRequests == Request
AllHosts == {Have(TRUE, {}), Have(TRUE, {n}), Have(FALSE, {})}

Pair == INSTANCE ToolingOps WITH
            Adapters <- Few, Ops <- {o1, o2}, Collections <- {}, Faults <- {"blind", "noop"},
            Hosts <- {FewHave(TRUE, {}), FewHave(TRUE, {n}), FewHave(FALSE, {})},
            Requests <- {Ask("install", "claude_code", TRUE), Ask("remove", "claude_code", FALSE),
                         Ask("install_cli", "claude_code", FALSE),
                         Ask("update", "generic_skills", FALSE)}

Pages == INSTANCE ToolingOps WITH
            Adapters <- Few, Readers <- {r1}, Faults <- {"mute"}, Collections <- KnownCollections,
            Hosts <- {FewHave(TRUE, {}), FewHave(TRUE, {n})},
            Requests <- {Ask("install", "claude_code", TRUE), Ask("remove", "claude_code", FALSE)}

ModesInit ==
    \/ mode = "engine" /\ Init /\ Tool!Init /\ host = Have(FALSE, {})
    \/ mode = "each" /\ Init /\ Tool!Init
    \/ mode = "pair" /\ Init /\ Pair!Init
    \/ mode = "pages" /\ Init /\ Pages!Init

ModesNext ==
    /\ UNCHANGED mode
    /\ \/ mode = "engine" /\ Next /\ UNCHANGED tooling
       \/ mode = "each" /\ Tool!Next /\ UNCHANGED vars
       \/ mode = "pair" /\ Pair!Next /\ UNCHANGED vars
       \/ mode = "pages" /\ Pages!Next /\ UNCHANGED vars

DriveOf(r) == mode = "engine" /\ Drive(r) /\ UNCHANGED <<mode, tooling>>
TaskOf(o) == mode = "pair" /\ Pair!Task(o) /\ UNCHANGED <<mode, vars>>
CheckOf(o) == mode = "pair" /\ Pair!Verification(o) /\ UNCHANGED <<mode, vars>>

\* FairSpec of WorkflowRun and of the pair, side by side.
ModesSpec ==
    /\ ModesInit /\ [][ModesNext]_modes
    /\ \A r \in Recs : WF_modes(DriveOf(r))
    /\ \A o \in {o1, o2} : WF_modes(TaskOf(o)) /\ WF_modes(CheckOf(o))

\* Every operation comes to an end, whoever else is cancelled, times out or waits
\* (OpSettles of the pair; operations.py _run, runner.py run).
OpSettles == \A o \in {o1, o2} : (mode = "pair" /\ pc[o] = "lock") ~> (mode = "pair" => pc[o] = "end")
=============================================================================
