------------------------------ MODULE ScriptRun ------------------------------
(* The script tier (services/script_runner.py): one run_id whose script runs in  *)
(* a process of its own and asks the server, over HTTP, to run its steps.  A      *)
(* start or a resume drives the process; a cancel and the wall-clock bound end    *)
(* it; a process that outlives its server is kept out by the generation that      *)
(* every call carries.                                                            *)
(*                                                                                *)
(* Handlers run on one asyncio loop: `pc` names the await a handler is suspended  *)
(* at, and an action is the completion of that await, with its effect on the      *)
(* journal, and the block after it.                                               *)
EXTENDS Naturals, FiniteSets

CONSTANTS
    MaxDrives,      \* bound on starts and resumes
    MaxCalls,       \* bound on run-step calls
    Steps,          \* step ids
    Cancels,        \* cancel requests in flight
    Overtakes,      \* whether a resume may be admitted while a cancel is unanswered
    Faults,         \* what may go wrong
    MaxFaults

Drives == 1..MaxDrives
Calls == 1..MaxCalls
FaultKinds == {"state", "gen", "insert", "bump", "spawn", "crash"}

ASSUME ScriptAssumption ==
    /\ MaxDrives \in Nat /\ MaxCalls \in Nat /\ MaxFaults \in Nat
    /\ Overtakes \in BOOLEAN /\ Faults \subseteq FaultKinds /\ Steps # {}

VARIABLES
    row,        \* the workflow_run row: state, "none" without a row, and generation
    registry,   \* run_registry: the drive whose record is registered, or 0
    active,     \* run_id \in _active_drives
    run,        \* per start or resume: the await it is at, its record, its process
    cancel,     \* per cancel request: the await it is at, its record, its generation
    call,       \* per run-step call
    terminals,  \* the calls whose terminal is alive
    degraded,   \* a generation was lost: its journaling failed, or the server died
                \* between handing it to a process and journaling it
    faults

vars == <<row, registry, active, run, cancel, call, terminals, degraded, faults>>

Terminal == {"COMPLETED", "FAILED", "CANCELLED"}
RunStates == Terminal \cup {"RUNNING"}
Exits == {"exit0", "exit1"}

\* A ScriptRunRecord with its process and the generation in the environment of
\* that process (0 until it is built).
Run == [ pc : {"unused", "insert", "bump", "reopen", "spawn", "run", "term",
               "tgen", "final", "done"},
         arg : Nat, state : RunStates, cancelled : BOOLEAN, gen : Nat,
         process : {"none", "running"} \cup Exits, env : Nat,
         steps : [Steps -> [st : {"none", "running", "completed", "failed"},
                            term : 0..MaxCalls]] ]
Blank == [ pc |-> "unused", arg |-> 0, state |-> "RUNNING", cancelled |-> FALSE,
           gen |-> 0, process |-> "none", env |-> 0,
           steps |-> [s \in Steps |-> [st |-> "none", term |-> 0]] ]
NoCancel == [pc |-> "idle", rec |-> 0, arg |-> 0]
NoCall == [pc |-> "unused", by |-> 0, step |-> CHOOSE s \in Steps : TRUE, rec |-> 0]
Answered == [NoCall EXCEPT !.pc = "done"]

TypeOK ==
    /\ row \in [state : RunStates \cup {"none"}, gen : Nat]
    /\ registry \in 0..MaxDrives
    /\ active \in BOOLEAN
    /\ run \in [Drives -> Run]
    /\ cancel \in [Cancels -> [pc : {"idle", "gen", "term", "write"},
                               rec : 0..MaxDrives, arg : Nat]]
    /\ call \in [Calls -> [pc : {"unused", "sent", "create", "work", "done"},
                           by : 0..MaxDrives, step : Steps, rec : 0..MaxDrives]]
    /\ terminals \subseteq Calls
    /\ degraded \in BOOLEAN
    /\ faults \in 0..MaxFaults

Init ==
    /\ row = [state |-> "none", gen |-> 0]
    /\ registry = 0 /\ active = FALSE
    /\ run = [d \in Drives |-> Blank]
    /\ cancel = [c \in Cancels |-> NoCancel]
    /\ call = [k \in Calls |-> NoCall]
    /\ terminals = {} /\ degraded = FALSE /\ faults = 0

Fault(kind) == kind \in Faults /\ faults < MaxFaults /\ faults' = faults + 1

-----------------------------------------------------------------------------
(* The pieces of the handlers.                                                  *)

Fresh(d) == run[d].pc = "unused" /\ \A e \in Drives : e < d => run[e].pc # "unused"

\* Mutant: the generation is kept.
BumpedNot(g) == g

\* _bump.
Bumped(g) == g + 1

\* A best-effort update of the row's state: no effect without a row, or lost.
WriteState(s) ==
    \/ /\ row' = IF row.state = "none" THEN row ELSE [row EXCEPT !.state = s]
       /\ UNCHANGED faults
    \/ Fault("state") /\ UNCHANGED row

\* A best-effort update of its generation.
WriteGeneration(g) ==
    \/ /\ row' = IF row.state = "none" THEN row ELSE [row EXCEPT !.gen = g]
       /\ UNCHANGED <<degraded, faults>>
    \/ Fault("gen") /\ degraded' = TRUE /\ UNCHANGED row

\* _reconcile_orphans: the terminals of the in-flight steps of the registered
\* record.  Without a record there is nothing to read them from.
InFlight(d) == {run[d].steps[s].term : s \in {t \in Steps : run[d].steps[t].st = "running"}}
Sweep == terminals' = terminals \ (IF registry = 0 THEN {} ELSE InFlight(registry))

\* What the end of the process means.
Outcome(d) ==
    IF run[d].cancelled \/ run[d].state = "CANCELLED" THEN "CANCELLED"
    ELSE IF run[d].process = "exit0" THEN "COMPLETED" ELSE "FAILED"

-----------------------------------------------------------------------------
(* Start, resume and drive.                                                     *)

\* run_script_workflow, up to the insertion of the row; run_id is available.
Start(d) ==
    /\ Fresh(d)
    /\ registry = 0 /\ ~active /\ row.state = "none"
    /\ registry' = d
    /\ run' = [run EXCEPT ![d] = [@ EXCEPT !.pc = "insert", !.gen = 1]]
    /\ UNCHANGED <<row, active, cancel, call, terminals, degraded, faults>>

\* The row is inserted, best-effort; the environment carries generation 1.
Insert(d) ==
    /\ run[d].pc = "insert"
    /\ \/ row' = [state |-> "RUNNING", gen |-> 1] /\ UNCHANGED <<degraded, faults>>
       \/ Fault("insert") /\ degraded' = TRUE /\ UNCHANGED row
    /\ active' = TRUE
    /\ run' = [run EXCEPT ![d] = [@ EXCEPT !.pc = "spawn", !.env = 1]]
    /\ UNCHANGED <<registry, cancel, call, terminals>>

\* Mutant: liveness is judged by the registered record.
NotDrivenByRecord == \A d \in Drives : registry = d => run[d].state \in Terminal

\* Gate 2.
NotDriven == ~active

\* Gates 1 and 3 (_is_resumable_for_tier): a cancelled script run is resumable.
Resumable == row.state \notin {"none", "COMPLETED"}

\* No cancel is on its way, or the client does not care.
Patient == Overtakes \/ \A c \in Cancels : cancel[c].pc = "idle"

\* resume_script_run up to the journaling of the generation.
Resume(d) ==
    /\ Fresh(d) /\ Patient
    /\ NotDriven /\ Resumable
    /\ active' = TRUE
    /\ run' = [run EXCEPT ![d] = [@ EXCEPT !.pc = "bump", !.gen = Bumped(row.gen)]]
    /\ UNCHANGED <<row, registry, cancel, call, terminals, degraded, faults>>

\* The generation is journaled and the record registered.
Bump(d) ==
    /\ run[d].pc = "bump"
    /\ row' = [row EXCEPT !.gen = run[d].gen]
    /\ registry' = d
    /\ run' = [run EXCEPT ![d] = [@ EXCEPT !.pc = "reopen"]]
    /\ UNCHANGED <<active, cancel, call, terminals, degraded, faults>>

\* update_run_generation raises out of the resume, whose finally releases.
BumpRaises(d) ==
    /\ run[d].pc = "bump" /\ Fault("bump")
    /\ active' = FALSE
    /\ run' = [run EXCEPT ![d] = [@ EXCEPT !.pc = "done"]]
    /\ UNCHANGED <<row, registry, cancel, call, terminals, degraded>>

\* The row is reopened; the environment carries the generation of the record.
Reopen(d) ==
    /\ run[d].pc = "reopen"
    /\ WriteState("RUNNING")
    /\ run' = [run EXCEPT ![d] = [@ EXCEPT !.pc = "spawn", !.env = run[d].gen]]
    /\ UNCHANGED <<registry, active, cancel, call, terminals, degraded>>

Spawn(d) ==
    /\ run[d].pc = "spawn"
    /\ run' = [run EXCEPT ![d] = [@ EXCEPT !.pc = "run", !.process = "running"]]
    /\ UNCHANGED <<row, registry, active, cancel, call, terminals, degraded, faults>>

\* A spawn that fails settles the run FAILED.
SpawnRaises(d) ==
    /\ run[d].pc = "spawn" /\ Fault("spawn")
    /\ Sweep
    /\ run' = [run EXCEPT ![d] = [@ EXCEPT !.pc = "final", !.state = "FAILED"]]
    /\ UNCHANGED <<row, registry, active, cancel, call, degraded>>

\* The process has exited and its pipes are drained.  COMPLETED needs no sweep.
Reap(d) ==
    /\ run[d].pc = "run" /\ run[d].process \in Exits
    /\ IF Outcome(d) = "COMPLETED" THEN UNCHANGED terminals ELSE Sweep
    /\ run' = [run EXCEPT ![d] = [@ EXCEPT !.pc = "final", !.state = Outcome(d)]]
    /\ UNCHANGED <<row, registry, active, cancel, call, degraded, faults>>

\* Mutant: a cancelled run is left to its cancel.
TimeoutUnlessCancelled(d) ==
    /\ run[d].pc = "run" /\ run[d].process = "running" /\ ~run[d].cancelled
    /\ run' = [run EXCEPT ![d] = [@ EXCEPT !.pc = "term"]]
    /\ UNCHANGED <<row, registry, active, cancel, call, terminals, degraded, faults>>

\* WORKFLOW_SCRIPT_TIMEOUT elapses.
Timeout(d) ==
    /\ run[d].pc = "run" /\ run[d].process = "running"
    /\ run' = [run EXCEPT ![d] = [@ EXCEPT !.pc = "term"]]
    /\ UNCHANGED <<row, registry, active, cancel, call, terminals, degraded, faults>>

\* The process a handler has signalled, or that exited by itself meanwhile.
Killed(p) == IF p = "running" THEN Exits ELSE {p}

\* _terminate returns to the timeout arm: sweep, bump the generation.
Terminated(d) ==
    /\ run[d].pc = "term"
    /\ Sweep
    /\ \E p \in Killed(run[d].process) :
          run' = [run EXCEPT ![d] = [@ EXCEPT !.pc = "tgen", !.process = p,
                       !.gen = Bumped(run[d].gen), !.arg = Bumped(run[d].gen)]]
    /\ UNCHANGED <<row, registry, active, cancel, call, degraded, faults>>

\* The timeout arm journals that generation, best-effort, and settles FAILED.
PersistGeneration(d) ==
    /\ run[d].pc = "tgen"
    /\ WriteGeneration(run[d].arg)
    /\ run' = [run EXCEPT ![d] = [@ EXCEPT !.pc = "final", !.arg = 0, !.state = "FAILED"]]
    /\ UNCHANGED <<registry, active, cancel, call, terminals>>

\* _finalize: the state the record has by now is journaled, the claim released.
Finalize(d) ==
    /\ run[d].pc = "final"
    /\ WriteState(run[d].state)
    /\ active' = FALSE
    /\ run' = [run EXCEPT ![d] = [@ EXCEPT !.pc = "done"]]
    /\ UNCHANGED <<registry, cancel, call, terminals, degraded>>

Drive(d) ==
    \/ Insert(d) \/ Bump(d) \/ BumpRaises(d) \/ Reopen(d) \/ Spawn(d) \/ SpawnRaises(d)
    \/ Reap(d) \/ Timeout(d) \/ Terminated(d) \/ PersistGeneration(d) \/ Finalize(d)

-----------------------------------------------------------------------------
(* Cancel.                                                                      *)

\* The cancel route and cancel_script_run, up to the journaling of the generation.
Cancel(c) ==
    /\ cancel[c].pc = "idle"
    /\ \E d \in Drives :
          /\ registry = d /\ run[d].state \notin Terminal /\ ~run[d].cancelled
          /\ run' = [run EXCEPT ![d] = [@ EXCEPT !.cancelled = TRUE,
                                              !.gen = Bumped(run[d].gen)]]
          /\ cancel' = [cancel EXCEPT ![c] =
                           [pc |-> "gen", rec |-> d, arg |-> Bumped(run[d].gen)]]
    /\ UNCHANGED <<row, registry, active, call, terminals, degraded, faults>>

\* The cancel route without a record: the row is settled directly.
CancelJournaled ==
    /\ registry = 0 /\ row.state = "RUNNING"
    /\ row' = [row EXCEPT !.state = "CANCELLED"]
    /\ UNCHANGED <<registry, active, run, cancel, call, terminals, degraded, faults>>

\* The generation is journaled; a process that runs is signalled and awaited.
CancelSignal(c) ==
    /\ cancel[c].pc = "gen" /\ run[cancel[c].rec].process = "running"
    /\ WriteGeneration(cancel[c].arg)
    /\ cancel' = [cancel EXCEPT ![c].pc = "term"]
    /\ UNCHANGED <<registry, active, run, call, terminals>>

\* The sweep and the state of a cancel, with the process as p.
CancelSettles(c, p) ==
    /\ Sweep
    /\ run' = [run EXCEPT ![cancel[c].rec] = [@ EXCEPT !.state = "CANCELLED", !.process = p]]
    /\ cancel' = [cancel EXCEPT ![c].pc = "write"]

\* The generation is journaled; there is no process, or it has exited.
CancelUnsignalled(c) ==
    /\ cancel[c].pc = "gen" /\ run[cancel[c].rec].process # "running"
    /\ WriteGeneration(cancel[c].arg)
    /\ CancelSettles(c, run[cancel[c].rec].process)
    /\ UNCHANGED <<registry, active, call>>

\* _terminate returns to the cancel.
CancelTerminated(c) ==
    /\ cancel[c].pc = "term"
    /\ \E p \in Killed(run[cancel[c].rec].process) : CancelSettles(c, p)
    /\ UNCHANGED <<row, registry, active, call, degraded, faults>>

CancelAnswers(c) ==
    /\ cancel[c].pc = "write"
    /\ WriteState("CANCELLED")
    /\ cancel' = [cancel EXCEPT ![c] = NoCancel]
    /\ UNCHANGED <<registry, active, run, call, terminals, degraded>>

-----------------------------------------------------------------------------
(* The script and its calls.                                                    *)

ScriptOnly == UNCHANGED <<row, registry, active, cancel, degraded, faults>>

\* The script ends by itself, also after the death of the server.
Exit(d) ==
    /\ run[d].process = "running"
    /\ \E p \in Exits : run' = [run EXCEPT ![d] = [@ EXCEPT !.process = p]]
    /\ UNCHANGED <<call, terminals>> /\ ScriptOnly

\* The script asks for a step.
Send(k, d, s) ==
    /\ call[k].pc = "unused" /\ \A j \in Calls : j < k => call[j].pc # "unused"
    /\ run[d].process = "running"
    /\ call' = [call EXCEPT ![k] = [NoCall EXCEPT !.pc = "sent", !.by = d, !.step = s]]
    /\ UNCHANGED <<run, terminals>> /\ ScriptOnly

\* check_generation.
Current(k) == row.state # "none" /\ run[call[k].by].env = row.gen

\* The run-step route: what records the terminal is bound to the record that is
\* registered now, and the call is let in or refused.
Serve(k) ==
    /\ call[k].pc = "sent"
    /\ call' = [call EXCEPT ![k] = IF Current(k)
                                   THEN [@ EXCEPT !.pc = "create", !.rec = registry]
                                   ELSE Answered]
    /\ UNCHANGED <<run, terminals>> /\ ScriptOnly

\* The record bound to the call, if any, has its step in state st, on terminal t.
Step(k) == run[call[k].rec].steps[call[k].step]
Record(k, st, t) ==
    run' = IF call[k].rec = 0 THEN run
           ELSE [run EXCEPT ![call[k].rec].steps[call[k].step] = [st |-> st, term |-> t]]

\* The terminal is created and recorded; a step that is known keeps its state.
CreateTerminal(k) ==
    /\ call[k].pc = "create"
    /\ terminals' = terminals \cup {k}
    /\ Record(k, IF Step(k).st = "none" THEN "running" ELSE Step(k).st, k)
    /\ call' = [call EXCEPT ![k].pc = "work"]
    /\ ScriptOnly

\* The step succeeds: its terminal is torn down and it is settled.
StepReturns(k) ==
    /\ call[k].pc = "work" /\ k \in terminals
    /\ terminals' = terminals \ {k}
    /\ Record(k, "completed", k)
    /\ call' = [call EXCEPT ![k] = Answered]
    /\ ScriptOnly

\* The step fails, before or after its terminal exists, which stays; a ValueError
\* is answered without settling the step.
StepFails(k) ==
    /\ call[k].pc \in {"create", "work"}
    /\ Record(k, "failed", Step(k).term) \/ UNCHANGED run
    /\ call' = [call EXCEPT ![k] = IF k \in terminals THEN [@ EXCEPT !.pc = "done"] ELSE Answered]
    /\ UNCHANGED terminals /\ ScriptOnly

\* The server dies.  The row, the script processes and the terminals stay.
Crash ==
    /\ Fault("crash")
    /\ registry' = 0 /\ active' = FALSE
    /\ run' = [d \in Drives |-> IF run[d].pc = "unused" THEN run[d]
                                ELSE [run[d] EXCEPT !.pc = "done"]]
    /\ cancel' = [c \in Cancels |-> NoCancel]
    /\ call' = [k \in Calls |-> IF call[k].pc = "unused" THEN call[k]
                                ELSE Answered]
    /\ degraded' = (degraded \/ \E d \in Drives : run[d].env > row.gen)
    /\ UNCHANGED <<row, terminals>>

Next ==
    \/ \E d \in Drives : \/ Start(d) \/ Resume(d) \/ Exit(d) \/ Insert(d) \/ Bump(d)
                         \/ BumpRaises(d) \/ Reopen(d) \/ Spawn(d) \/ SpawnRaises(d)
                         \/ Reap(d) \/ Timeout(d) \/ Terminated(d)
                         \/ PersistGeneration(d) \/ Finalize(d)
                         \/ \E k \in Calls, s \in Steps : Send(k, d, s)
    \/ \E c \in Cancels : \/ Cancel(c) \/ CancelSignal(c) \/ CancelUnsignalled(c)
                          \/ CancelTerminated(c) \/ CancelAnswers(c)
    \/ CancelJournaled
    \/ \E k \in Calls : Serve(k) \/ CreateTerminal(k) \/ StepReturns(k) \/ StepFails(k)
    \/ Crash

Spec == Init /\ [][Next]_vars

\* The loop resumes handlers whose await is over, journal calls return, the
\* wall-clock bound elapses, and a signalled process dies.  Nothing is asked of
\* the script, of its calls or of a cancel.
FairSpec == Spec /\ \A d \in Drives : WF_vars(Drive(d))

-----------------------------------------------------------------------------
(* Properties.                                                                  *)

Driving(d) == run[d].pc \notin {"unused", "done"}

\* One run_id is driven by one start or resume at a time: the claim taken right
\* after Gate 2 keeps a second resume out, over every await of the first.
OneDrive == \A d, e \in Drives : Driving(d) /\ Driving(e) => d = e

\* A run_id that is marked as executing is being driven: no exit path of a drive,
\* an exception included, leaves a run that can never be resumed again.
NoStuckClaim == active => \E d \in Drives : Driving(d)

\* A run is journaled COMPLETED only if the process of some drive exited 0 and
\* nobody had cancelled that drive: a cancel that was accepted is never answered
\* by a success, whichever of the exit and the cancel comes first.
CompletedIsEarned ==
    /\ \A d \in Drives : run[d].state = "COMPLETED" =>
                              ~run[d].cancelled /\ run[d].process = "exit0"
    /\ row.state = "COMPLETED" => \E d \in Drives : run[d].state = "COMPLETED"

\* A journaled COMPLETED is never rewritten: not by a resume, a cancel or a drive
\* that ends later.
CompletedIsFinal == [][row.state = "COMPLETED" => row'.state = "COMPLETED"]_vars

Admitted(k) == call[k].pc = "sent" /\ call'[k].pc = "create"

\* As long as no generation was lost, a call is let in only from
\* the process with the newest generation: a process that outlived its server, a
\* reaped one or a predecessor never has an agent run beside the resumed script.
FencedOut ==
    [][\A k \in Calls : Admitted(k) /\ ~degraded =>
          \A d \in Drives \ {call[k].by} : run[d].env < run[call[k].by].env]_vars

\* A terminal goes when its own step returns, or in the sweep of the drive that
\* recorded it, cancelled or ended: no late sweep takes the terminals of the
\* resumed run.
SweepSparesOthers ==
    [][\A k \in terminals \ terminals' :
          \/ call[k].pc = "work" /\ call'[k].pc = "done"
          \/ /\ call[k].rec # 0
             /\ LET r == run'[call[k].rec]
                IN  r.cancelled \/ r.state \in Terminal \/ r.pc = "tgen"]_vars

\* Every start and resume comes to its end, cancelled or not, and whatever the
\* script does: the wall-clock bound is on every path.
DriveEnds == \A d \in Drives : Driving(d) ~> ~Driving(d)

\* The documented promise of a cancel: once its generation is journaled, no call
\* of the cancelled script is let in.
CancelFences ==
    [][\A k \in Calls : Admitted(k) =>
          \/ ~run[call[k].by].cancelled
          \/ \E c \in Cancels : cancel[c].rec = call[k].by /\ cancel[c].pc = "gen"]_vars
=============================================================================
