----------------------------- MODULE WorkflowRun -----------------------------
(* The YAML workflow run engine (services/workflow_service.py) with its durable  *)
(* journal (services/workflow_journal.py): one run_id, driven over its steps in  *)
(* topological order, cancelled and polled by HTTP handlers while the drive is   *)
(* suspended at an await, crashed with the server, rebuilt and resumed.          *)
(*                                                                               *)
(* The engine runs on one asyncio loop, so a drive is a sequence of atomic        *)
(* blocks separated by awaits.  `pc` names the await a drive is suspended at; an  *)
(* action is the completion of that await together with the block after it.      *)
EXTENDS Naturals, FiniteSets

CONSTANTS
    N,                  \* number of steps; step i is order[i - 1]
    Retries,            \* step.retries, resolved (WORKFLOW_DEFAULT_STEP_RETRIES)
    ContinueOnFailure,  \* the steps with on_failure = "continue"
    WithSchema,         \* the steps that declare an output_schema
    Templated,          \* the steps whose prompt may reference a missing output
    StrayErrors,        \* whether run_agent_step may raise outside its own errors
    FailingReads,       \* whether a journal read may fail
    Recs,               \* identities of in-memory RunRecords
    NoRec,
    MaxDrops,           \* bound on swallowed journal writes and failed reads
    MaxCrashes          \* bound on server crashes

Idx == 1..N

ASSUME WorkflowAssumption ==
    /\ N \in Nat \ {0}
    /\ Retries \in [Idx -> Nat]
    /\ ContinueOnFailure \subseteq Idx
    /\ WithSchema \subseteq Idx
    /\ Templated \subseteq Idx
    /\ StrayErrors \in BOOLEAN
    /\ FailingReads \in BOOLEAN
    /\ NoRec \notin Recs
    /\ MaxDrops \in Nat
    /\ MaxCrashes \in Nat

VARIABLES
    run_registry,   \* the record registered for the run_id, or NoRec
    active_drives,  \* run_id \in _active_drives
    run,            \* every RunRecord, with the position of the drive running it
    jrun,           \* workflow_run.state, "none" when there is no row
    jcur,           \* workflow_run.current_step_id, 0 for NULL
    jstep,          \* workflow_run_step.state per step, "absent" without a row
    drops,          \* journal writes swallowed and reads failed so far
    crashes

vars == <<run_registry, active_drives, run, jrun, jcur, jstep, drops, crashes>>
journal == <<jrun, jcur, jstep>>

Done == {"COMPLETED", "COMPLETED_UNVALIDATED"}
StepStates == Done \cup {"PENDING", "RUNNING", "FAILED", "SKIPPED"}
Terminal == {"COMPLETED", "FAILED", "CANCELLED"}
RunStates == Terminal \cup {"RUNNING"}

\* The awaits of a drive.
JournalsStep == {"stepRunning", "stepSettled", "stepFailed", "skip"}
JournalsCurrent == {"curRunning", "reopenCur", "engineCur", "endCur"}
JournalsRun == {"reopenState", "engineRun", "endRun"}
Agent == {"agent", "reprompt"}
Labels == {"idle", "insertRun"} \cup JournalsStep \cup JournalsCurrent
            \cup JournalsRun \cup Agent

Record == [ state     : RunStates,
            cancelled : BOOLEAN,
            cur       : 0..N,               \* current_step_id, 0 for None
            steps     : [Idx -> StepStates],
            pc        : Labels,
            at        : 0..N,               \* the step the drive is at
            att       : Nat,                \* attempts made of that step
            reprompted: BOOLEAN ]

Blank == [ state |-> "RUNNING", cancelled |-> FALSE, cur |-> 0,
           steps |-> [i \in Idx |-> "PENDING"],
           pc |-> "idle", at |-> 0, att |-> 0, reprompted |-> FALSE ]

Driving(r) == run[r].pc # "idle"

TypeOK ==
    /\ run_registry \in Recs \cup {NoRec}
    /\ active_drives \in BOOLEAN
    /\ run \in [Recs -> Record]
    /\ jrun \in RunStates \cup {"none"}
    /\ jcur \in 0..N
    /\ jstep \in [Idx -> StepStates \cup {"absent"}]
    /\ drops \in 0..MaxDrops
    /\ crashes \in 0..MaxCrashes

Init ==
    /\ run_registry = NoRec
    /\ active_drives = FALSE
    /\ run = [r \in Recs |-> Blank]
    /\ jrun = "none" /\ jcur = 0 /\ jstep = [i \in Idx |-> "absent"]
    /\ drops = 0 /\ crashes = 0

-----------------------------------------------------------------------------
(* The blocks of the drive between two awaits, as functions of the record.      *)

\* The first step of S, in order.
First(S) == CHOOSE i \in S : \A j \in S : i <= j

\* Mutant: the cleared current step is not journaled.
SettleUnjournaled(d, s) == [d EXCEPT !.state = s, !.cur = 0, !.pc = "endRun"]

\* Leave the loop with run state s: clear the current step, write the end.
Settle(d, s) == [d EXCEPT !.state = s, !.cur = 0, !.pc = "endCur"]

\* _skip_remaining: one await per step still PENDING; then the run is settled
\* FAILED (a halt) or CANCELLED (a cancel).
SkipRemaining(d, i) ==
    LET pending == {j \in i..N : d.steps[j] = "PENDING"}
    IN  IF pending = {}
        THEN Settle(d, IF d.state = "FAILED" THEN "FAILED" ELSE "CANCELLED")
        ELSE [d EXCEPT !.steps[First(pending)] = "SKIPPED",
                       !.at = First(pending), !.pc = "skip"]

\* Mutant: no convergence to CANCELLED after the loop.
FinalizeBlind(d) == Settle(d, "COMPLETED")

\* The code of _drive after its loop.
Finalize(d) ==
    IF d.cancelled THEN SkipRemaining(d, 1) ELSE Settle(d, "COMPLETED")

\* The loop of _drive from index i: a cancel, the kept steps, the next step.
Boundary(d, i) ==
    LET rest == {j \in i..N : d.steps[j] \notin Done}
    IN  IF d.cancelled /\ i <= N THEN SkipRemaining(d, i)
        ELSE IF rest = {} THEN Finalize(d)
        ELSE [d EXCEPT !.steps[First(rest)] = "RUNNING", !.cur = First(rest),
                       !.at = First(rest), !.att = 0, !.reprompted = FALSE,
                       !.pc = "stepRunning"]

\* The except WorkflowEngineError branch of _drive.
EngineError(d) ==
    [d EXCEPT !.steps[d.at] = "FAILED", !.state = "FAILED", !.cur = 0,
              !.pc = "engineCur"]

\* The top of the attempt loop of _run_step.  A cancel returns from _run_step
\* with the step as it is; _substitute raises, if at all, on the first attempt.
Attempt(d) ==
    IF d.cancelled THEN {Boundary(d, d.at + 1)}
    ELSE {[d EXCEPT !.att = d.att + 1, !.pc = "agent"]}
         \cup IF d.at \in Templated /\ d.att = 0 THEN {EngineError(d)} ELSE {}

SettleStep(d, s) == [d EXCEPT !.steps[d.at] = s, !.pc = "stepSettled"]

\* run_agent_step returned: collect the structured output, reprompting once.
Collect(d) ==
    IF d.at \notin WithSchema THEN {SettleStep(d, "COMPLETED")}
    ELSE {SettleStep(d, "COMPLETED"),
          IF d.reprompted THEN SettleStep(d, "COMPLETED_UNVALIDATED")
          ELSE [d EXCEPT !.reprompted = TRUE, !.pc = "reprompt"]}

\* Mutant: a failed step is begun again, with all its attempts.
ConsumeNothing(d) == {[d EXCEPT !.att = 0, !.pc = "stepRunning"]}

\* StepExecutionError: consume an attempt; attempts exhausted is FAILED.
ConsumeAttempt(d) ==
    IF d.att <= Retries[d.at] THEN Attempt(d)
    ELSE {[d EXCEPT !.steps[d.at] = "FAILED", !.pc = "stepFailed"]}

\* on_failure once the FAILED step is journaled.
AfterFailure(d) ==
    IF d.at \in ContinueOnFailure THEN Boundary(d, d.at + 1)
    ELSE SkipRemaining([d EXCEPT !.state = "FAILED"], d.at + 1)

-----------------------------------------------------------------------------
(* The drive.                                                                   *)

MayDrop == drops < MaxDrops
MayMisread == FailingReads /\ MayDrop

\* The best-effort UPDATE a drive is awaiting.  It has no effect without a row
\* and may fail, which is logged and swallowed.
JournalWrite(d) ==
    \/ /\ jrun' = IF jrun # "none" /\ d.pc \in JournalsRun THEN d.state ELSE jrun
       /\ jcur' = IF jrun # "none" /\ d.pc \in JournalsCurrent THEN d.cur ELSE jcur
       /\ jstep' = IF d.pc \in JournalsStep /\ jstep[d.at] # "absent"
                   THEN [jstep EXCEPT ![d.at] = d.steps[d.at]] ELSE jstep
       /\ drops' = drops
    \/ MayDrop /\ drops' = drops + 1 /\ UNCHANGED journal

\* Where the drive is after each journal write.
AfterWrite(d) ==
    CASE d.pc = "reopenState" -> {[d EXCEPT !.pc = "reopenCur"]}
      [] d.pc = "reopenCur"   -> {Boundary(d, 1)}
      [] d.pc = "stepRunning" -> {[d EXCEPT !.pc = "curRunning"]}
      [] d.pc = "curRunning"  -> Attempt(d)
      [] d.pc = "stepSettled" -> {Boundary(d, d.at + 1)}
      [] d.pc = "stepFailed"  -> {AfterFailure(d)}
      [] d.pc = "skip"        -> {SkipRemaining(d, d.at + 1)}
      [] d.pc = "endCur"      -> {[d EXCEPT !.pc = "endRun"]}
      [] d.pc = "engineCur"   -> {[d EXCEPT !.pc = "engineRun"]}

\* A journal write completes and the drive goes on.
DriveJournal(r) ==
    /\ run[r].pc \in JournalsStep \cup JournalsCurrent \cup {"reopenState"}
    /\ JournalWrite(run[r])
    /\ \E d \in AfterWrite(run[r]) : run' = [run EXCEPT ![r] = d]
    /\ UNCHANGED <<run_registry, active_drives, crashes>>

\* The terminal run state is written; the finally clears the liveness mark.
DriveEnd(r) ==
    /\ run[r].pc \in {"endRun", "engineRun"}
    /\ JournalWrite(run[r])
    /\ run' = [run EXCEPT ![r].pc = "idle"]
    /\ active_drives' = FALSE
    /\ UNCHANGED <<run_registry, crashes>>

\* _journal_insert_run: the run row, then the step rows, best-effort.  A row
\* that exists raises IntegrityError, which leaves the journal alone.
DriveInsert(r) ==
    /\ run[r].pc = "insertRun"
    /\ run' = [run EXCEPT ![r] = Boundary(@, 1)]
    /\ \/ jrun # "none" /\ UNCHANGED <<journal, drops>>
       \/ /\ jrun = "none" /\ jrun' = "RUNNING" /\ jcur' = 0
          /\ jstep' = [i \in Idx |-> "PENDING"] /\ UNCHANGED drops
       \/ /\ jrun = "none" /\ MayDrop /\ drops' = drops + 1
          /\ jrun' \in {"none", "RUNNING"} /\ UNCHANGED <<jcur, jstep>>
    /\ UNCHANGED <<run_registry, active_drives, crashes>>

\* run_agent_step completes, fails, or is interrupted by the cancel event.
DriveAgent(r) ==
    /\ run[r].pc \in Agent
    /\ \E d \in Collect(run[r]) \cup ConsumeAttempt(run[r])
                  \cup IF run[r].cancelled THEN {SettleStep(run[r], "SKIPPED")} ELSE {} :
          run' = [run EXCEPT ![r] = d]
    /\ UNCHANGED <<run_registry, active_drives, journal, drops, crashes>>

\* run_agent_step raises what neither _run_step nor _drive catches (ValueError
\* or TimeoutError from create_terminal, a failing send_input or get_output).
DriveStray(r) ==
    /\ StrayErrors
    /\ run[r].pc \in Agent
    /\ run' = [run EXCEPT ![r].pc = "idle"]
    /\ active_drives' = FALSE
    /\ UNCHANGED <<run_registry, journal, drops, crashes>>

Drive(r) == DriveInsert(r) \/ DriveJournal(r) \/ DriveAgent(r) \/ DriveEnd(r)

-----------------------------------------------------------------------------
(* The HTTP handlers and the server.                                            *)

\* A record object nothing refers to.
Free(r) == r # run_registry /\ ~Driving(r)

\* Register record d as r; records nothing refers to any more are collected.
Register(r, d) ==
    /\ run_registry' = r
    /\ run' = [q \in Recs |-> IF q = r THEN d
                              ELSE IF Driving(q) THEN run[q] ELSE Blank]

\* _check_run_id_available passes: no record, no drive, and no row, or a journal
\* read that failed.
RunIdAvailable ==
    /\ run_registry = NoRec
    /\ ~active_drives
    /\ \/ jrun = "none" /\ drops' = drops
       \/ jrun # "none" /\ MayMisread /\ drops' = drops + 1

Start(r) ==
    /\ RunIdAvailable
    /\ Free(r)
    /\ Register(r, [Blank EXCEPT !.pc = "insertRun"])
    /\ active_drives' = TRUE
    /\ UNCHANGED <<journal, crashes>>

\* The durable step states, PENDING for a missing row.
Overlaid == [i \in Idx |-> IF jstep[i] = "absent" THEN "PENDING" ELSE jstep[i]]

\* _rebuild_record_from_journal reads the step rows; a failed read leaves every
\* step PENDING.
ReadSteps(steps) ==
    \/ steps = Overlaid /\ drops' = drops
    \/ steps = Blank.steps /\ MayMisread /\ drops' = drops + 1

Rebuilt(steps) == [Blank EXCEPT !.state = jrun, !.cur = jcur, !.steps = steps]

\* get_run_status on a cache miss: rebuild the record and register it.
StatusRead(r) ==
    /\ run_registry = NoRec
    /\ jrun # "none"
    /\ Free(r)
    /\ \E steps \in {Overlaid, Blank.steps} :
          ReadSteps(steps) /\ Register(r, Rebuilt(steps))
    /\ UNCHANGED <<active_drives, journal, crashes>>

\* cancel_run on a registered record that is not terminal.
Cancel ==
    /\ \E r \in Recs :
          /\ run_registry = r
          /\ run[r].state \notin Terminal
          /\ run' = [run EXCEPT ![r].cancelled = TRUE]
    /\ UNCHANGED <<run_registry, active_drives, journal, drops, crashes>>

\* Mutant: the row is written although a record, perhaps a live one, exists.
CancelJournaledAlways ==
    /\ jrun \notin Terminal \cup {"none"}
    /\ jrun' = "CANCELLED"
    /\ UNCHANGED <<run_registry, active_drives, run, jcur, jstep, drops, crashes>>

\* The cancel endpoint without a record: it writes the row itself.
CancelJournaled ==
    /\ run_registry = NoRec
    /\ jrun \notin Terminal \cup {"none"}
    /\ jrun' = "CANCELLED"
    /\ UNCHANGED <<run_registry, active_drives, run, jcur, jstep, drops, crashes>>

\* The row says the run is not finally settled.
Resumable == jrun \notin {"none", "COMPLETED", "CANCELLED"}

\* Mutant: liveness is judged by the state of the cached record.
NotDrivenByRecord ==
    \A r \in Recs : run_registry = r => run[r].state \in Terminal

\* The liveness guard of a resume.
NotDriven == ~active_drives

\* Mutant: nothing is kept.
ResetAll(steps) == [i \in DOMAIN steps |-> "PENDING"]

\* The done steps are kept; every other one is reset.
ResetUnfinished(steps) ==
    [i \in Idx |-> IF steps[i] \in Done THEN steps[i] ELSE "PENDING"]

\* resume_from_last_completed.
Resume(r) ==
    /\ NotDriven
    /\ Resumable
    /\ Free(r)
    /\ \E steps \in {Overlaid, Blank.steps} :
          /\ ReadSteps(steps)
          /\ Register(r, [Blank EXCEPT !.steps = ResetUnfinished(steps),
                                       !.pc = "reopenState"])
    /\ active_drives' = TRUE
    /\ UNCHANGED <<journal, crashes>>

\* The server process dies: the journal is what is left.
Crash ==
    /\ crashes < MaxCrashes
    /\ crashes' = crashes + 1
    /\ run_registry' = NoRec
    /\ active_drives' = FALSE
    /\ run' = [r \in Recs |-> Blank]
    /\ UNCHANGED <<journal, drops>>

Next ==
    \/ \E r \in Recs : \/ DriveInsert(r) \/ DriveJournal(r) \/ DriveAgent(r)
                       \/ DriveEnd(r) \/ DriveStray(r)
                       \/ Start(r) \/ StatusRead(r) \/ Resume(r)
    \/ Cancel \/ CancelJournaled \/ Crash

Spec == Init /\ [][Next]_vars

\* The loop resumes a drive whose await is over, and every await ends: a journal
\* write is a local sqlite call and run_agent_step has timeouts.
FairSpec == Spec /\ \A r \in Recs : WF_vars(Drive(r))
-----------------------------------------------------------------------------
(* Properties.                                                                  *)

\* At most one drive executes the run: two resumes, a resume racing a start and
\* a resume after a status read rebuilt the record never double-drive it
\* (resume_from_last_completed, "Never double-drive a live run").
NoDoubleDrive == \A r, q \in Recs : Driving(r) /\ Driving(q) => r = q

\* A cancel the API accepted is never overtaken by success: a drive flagged
\* cancelled does not settle COMPLETED, whichever await the cancel landed in
\* (_drive, "so the run never settles COMPLETED after being cancelled").
CancelledNeverCompletes ==
    \A r \in Recs : run[r].cancelled => run[r].state # "COMPLETED"

\* Step k no longer stands in the way of a later one.
Settled(d, k) ==
    \/ d.steps[k] \in Done
    \/ d.steps[k] = "FAILED" /\ k \in ContinueOnFailure

\* A step's agent runs only over settled predecessors: each earlier step is done,
\* or failed with on_failure = "continue"; across halts, resumes and rebuilds.
RunsOverSettledPrefix ==
    \A r \in Recs : run[r].pc \in Agent =>
        \A k \in 1..(run[r].at - 1) : Settled(run[r], k)

\* When a drive writes its end, no step is left PENDING: a halt and a cancel,
\* wherever they are observed, skip what did not run (_skip_remaining).
EndLeavesNothingPending ==
    \A r \in Recs : run[r].pc \in {"endCur", "endRun"} =>
        \A i \in Idx : run[r].steps[i] # "PENDING"

\* Step i was left PENDING by an engine error.
Unreached(d, i) ==
    d.steps[i] = "PENDING" /\ \E k \in Templated : d.steps[k] = "FAILED"

\* With no write lost, the journal says of a run nobody drives what its record
\* says: the run, the current step and the done steps of any run, and every step
\* of a settled one (a resume resets the unfinished steps in memory only).
\* "Every engine transition mutates the in-memory RunRecord FIRST, THEN writes
\* the journal here."  The one exception is a step whose prompt could not be
\* substituted: _drive marks it FAILED in memory only, and leaves the steps behind
\* it PENDING in memory whatever an earlier drive had journaled of them.
JournalAgrees ==
    \A r \in Recs :
        run_registry = r /\ ~active_drives /\ drops = 0 =>
            /\ jrun = run[r].state
            /\ jcur = run[r].cur
            /\ \A i \in Idx : \/ jstep[i] = run[r].steps[i]
                               \/ (i \in Templated /\ run[r].steps[i] = "FAILED")
                               \/ /\ jrun = "RUNNING" \/ Unreached(run[r], i)
                                  /\ {jstep[i], run[r].steps[i]} \cap Done = {}

\* Nothing is left RUNNING in the registry once its drive has ended ("must NOT
\* leave the registered record stranded in RUNNING").  A rebuilt crash remnant
\* has no drive to speak of: only a run that has not crashed counts.
NoStrandedRecord ==
    crashes = 0 =>
        \A r \in Recs : run_registry = r /\ ~active_drives => run[r].state \in Terminal

\* A durable COMPLETED or CANCELLED is final: no late write of a drive, no
\* resume, no second start under the same run_id reopens it (start_run, "a
\* durable row must never be clobbered by a reused id").
SettledRowIsFinal ==
    [][jrun' = jrun \/ jrun \notin {"COMPLETED", "CANCELLED"}]_vars

\* No step is begun that the journal already has as done: a resume, even of a
\* run whose terminal write was lost, re-runs only unfinished steps (_drive,
\* "done steps are never re-run").
NoRerunOfJournaledStep ==
    [][\A r \in Recs :
          run'[r].pc = "stepRunning" /\ run[r].pc # "stepRunning"
              => jstep[run'[r].at] \notin Done]_vars

\* Every drive ends, whatever its steps do: the attempts and the reprompt are
\* bounded and each step is visited once.
DriveEnds == \A r \in Recs : Driving(r) ~> ~Driving(r)

-----------------------------------------------------------------------------
(* The inductive invariant behind the safety properties above.                  *)

Stepping == {"stepRunning", "curRunning", "stepSettled", "stepFailed"} \cup Agent
Ending == {"endCur", "endRun"}
EngineEnding == {"engineCur", "engineRun"}

\* What a record satisfies at every await of its drive.
Sound(d) ==
    /\ d.cancelled => d.state # "COMPLETED"
    /\ d.pc = "reopenState" => d.state = "RUNNING"
    /\ d.pc \in Ending \cup EngineEnding => d.state \in Terminal
    /\ d.pc \in Stepping =>
         d.at \in Idx /\ d.steps[d.at] # "PENDING" /\ \A k \in 1..(d.at - 1) : Settled(d, k)
    /\ d.pc = "stepSettled" => d.cancelled \/ d.steps[d.at] \in Done
    /\ d.pc = "stepFailed" => d.steps[d.at] = "FAILED"
    /\ d.pc = "skip" => d.at \in Idx /\ \A k \in 1..d.at : d.steps[k] # "PENDING"
    /\ d.pc \in Ending => \A k \in Idx : d.steps[k] # "PENDING"

SoundRecords == \A r \in Recs : Sound(run[r])

\* The registered record, and no other, may be driven, and only while the run is
\* marked live, which a run without a record is not.
LiveIsDriven ==
    /\ \A r \in Recs : Driving(r) => active_drives /\ run_registry = r
    /\ active_drives => run_registry # NoRec

\* What is driven is not finally settled, as long as no journal read fails.
LiveIsOpen == ~FailingReads /\ active_drives => jrun \notin {"COMPLETED", "CANCELLED"}

\* Claims are made before the first await (_check_run_id_available, the guards of
\* resume_from_last_completed) and released by the drive's finally, so the
\* registry, the liveness mark, the records and the row stay in step at every
\* await of every drive.
DriveInvariant == SoundRecords /\ LiveIsDriven /\ LiveIsOpen

\* The step a drive has begun and not settled is RUNNING in its record.
Working == {"stepRunning", "curRunning"} \cup Agent
Begun(d) == d.pc \in Working => d.at \in Idx /\ d.steps[d.at] = "RUNNING"
BegunRecords == \A r \in Recs : Begun(run[r])

\* A run without a row has no step rows.
RowFirst == jrun = "none" => jcur = 0 /\ \A i \in Idx : jstep[i] = "absent"

\* What the journal has as done, the record of a drive has as done.
Keeps(d, js) == d.pc # "idle" => \A i \in Idx : js[i] \in Done => d.steps[i] \in Done
KeepsDone == \A r \in Recs : Keeps(run[r], jstep)

\* The awaits at which the current step, or the step's own state, is yet to be
\* written.
CurrentPending == {"reopenState", "stepRunning"} \cup JournalsCurrent
StepPending == JournalsStep

\* The row of a step trails its state in record d: they agree, or the write is the
\* one awaited, or the drive has not come to the step, or never will.
StepTrails(d, js, i) ==
    \/ js = d.steps[i]
    \/ js \notin Done /\ i = d.at /\ d.pc \in StepPending
    \/ js \notin Done /\ d.steps[i] = "FAILED" /\ i \in Templated
    \/ /\ js \notin Done /\ d.steps[i] = "PENDING"
       /\ d.pc = "idle" => d.state = "RUNNING" \/ Unreached(d, i)

\* The journal <<row, jc, js>> trails record d by the one write d awaits.
Trails(d, row, jc, js) ==
    /\ d.pc = "insertRun" <=> row = "none"
    /\ d.pc = "insertRun" => d.cur = 0 /\ \A i \in Idx : d.steps[i] = "PENDING"
    /\ d.pc \in Stepping \cup {"insertRun", "reopenState", "reopenCur"} => d.state = "RUNNING"
    /\ d.pc \in Stepping \cup {"reopenCur", "skip"} \cup Ending \cup EngineEnding => row = "RUNNING"
    /\ d.pc = "idle" => row = d.state
    /\ d.pc \in EngineEnding => d.at \in Templated /\ d.steps[d.at] = "FAILED"
    /\ d.pc \notin CurrentPending => jc = d.cur
    /\ d.pc # "insertRun" => \A i \in Idx : js[i] # "absent" /\ StepTrails(d, js[i], i)

\* With no write lost, the step rows come with the row, and the journal trails the
\* registered record.
JournalTrails ==
    drops = 0 =>
        /\ jrun # "none" => \A i \in Idx : jstep[i] # "absent"
        /\ \A r \in Recs : run_registry = r => Trails(run[r], jrun, jcur, jstep)

-----------------------------------------------------------------------------
\* What the engine implements.
Lifecycle == INSTANCE RunLifecycle WITH row <- jrun, driving <- active_drives
LifecycleSpec == Lifecycle!Spec
=============================================================================
