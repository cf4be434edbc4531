-------------------------- MODULE ScriptRunProofs --------------------------
(* Theorems about the script tier, for every number of starts, resumes, calls,    *)
(* steps, cancels and faults.                                                     *)
EXTENDS ScriptRun, TLAPS

-----------------------------------------------------------------------------
(* Types.                                                                       *)

\* The initial values, and the call that is answered, have their types.
LEMMA InitialTypes ==
    /\ Blank \in Run
    /\ NoCall \in [pc : {"unused", "sent", "create", "work", "done"},
                   by : 0..MaxDrives, step : Steps, rec : 0..MaxDrives]
    /\ Answered \in [pc : {"unused", "sent", "create", "work", "done"},
                     by : 0..MaxDrives, step : Steps, rec : 0..MaxDrives]
    /\ NoCancel \in [pc : {"idle", "gen", "term", "write"}, rec : 0..MaxDrives, arg : Nat]
<1>1. 0 \in 0..MaxDrives /\ 0 \in 0..MaxCalls
  BY ScriptAssumption DEF ScriptAssumption
<1>2. (CHOOSE s \in Steps : TRUE) \in Steps
  BY ScriptAssumption DEF ScriptAssumption
<1> QED
  BY <1>1, <1>2 DEF Blank, Run, NoCall, Answered, NoCancel, RunStates, Terminal

\* A fault is counted up to its bound.
LEMMA FaultType ==
    ASSUME faults \in 0..MaxFaults, NEW kind, Fault(kind)
    PROVE  faults' \in 0..MaxFaults
  BY ScriptAssumption DEF Fault, ScriptAssumption

\* The best-effort writes keep the types of what they write.
LEMMA WriteTypes ==
    ASSUME TypeOK
    PROVE  /\ \A s \in RunStates : WriteState(s) =>
                /\ row' \in [state : RunStates \cup {"none"}, gen : Nat]
                /\ faults' \in 0..MaxFaults
           /\ \A g \in Nat : WriteGeneration(g) =>
                /\ row' \in [state : RunStates \cup {"none"}, gen : Nat]
                /\ degraded' \in BOOLEAN
                /\ faults' \in 0..MaxFaults
  BY FaultType DEF TypeOK, WriteState, WriteGeneration

\* The sweep only takes terminals away.
LEMMA SweepType == Sweep => terminals' \subseteq terminals
  BY DEF Sweep

\* The record of a call stays a record.
LEMMA RecordType ==
    ASSUME TypeOK, NEW k \in Calls, NEW st, NEW t, Record(k, st, t),
           call[k].rec # 0 => /\ st \in {"none", "running", "completed", "failed"}
                              /\ t \in 0..MaxCalls
    PROVE  run' \in [Drives -> Run]
<1>1. CASE call[k].rec = 0
  BY <1>1 DEF TypeOK, Record
<1>2. CASE call[k].rec # 0
  <2> DEFINE r == call[k].rec
             s == call[k].step
             new == [run[r].steps EXCEPT ![s] = [st |-> st, term |-> t]]
  <2>1. r \in Drives /\ s \in Steps
    BY <1>2, ScriptAssumption DEF TypeOK, Drives, ScriptAssumption
  <2>2. run' = [run EXCEPT ![r] = [run[r] EXCEPT !.steps = new]]
    BY <1>2, <2>1 DEF Record, TypeOK, Run
  <2>3. new \in [Steps -> [st : {"none", "running", "completed", "failed"},
                            term : 0..MaxCalls]]
    BY <1>2, <2>1 DEF TypeOK, Run
  <2> HIDE DEF new
  <2>4. run \in [Drives -> Run] /\ run[r] \in Run
    BY <2>1 DEF TypeOK
  <2> HIDE DEF r
  <2>5. [run[r] EXCEPT !.steps = new] \in Run
    BY <2>3, <2>4 DEF Run
  <2> QED
    BY <2>1, <2>2, <2>4, <2>5
<1> QED
  BY <1>1, <1>2

\* The step of a call with a record.
LEMMA StepType ==
    ASSUME TypeOK, NEW k \in Calls, call[k].rec # 0
    PROVE  /\ Step(k).st \in {"none", "running", "completed", "failed"}
           /\ Step(k).term \in 0..MaxCalls
<1>1. call[k].rec \in Drives /\ call[k].step \in Steps
  BY ScriptAssumption DEF TypeOK, Drives, ScriptAssumption
<1>2. run[call[k].rec] \in Run
  BY <1>1 DEF TypeOK
<1> QED
  BY <1>1, <1>2 DEF Step, Run

\* What drives and cancels make of a record is a record.
LEMMA MovedTypes ==
    ASSUME NEW r \in Run, NEW g \in Nat, NEW s \in RunStates,
           NEW p \in {"none", "running"} \cup Exits
    PROVE  /\ [r EXCEPT !.pc = "bump", !.gen = g] \in Run
           /\ [r EXCEPT !.pc = "final", !.state = s] \in Run
           /\ [r EXCEPT !.pc = "tgen", !.process = p, !.gen = g, !.arg = g] \in Run
           /\ [r EXCEPT !.cancelled = TRUE, !.gen = g] \in Run
           /\ [r EXCEPT !.state = s, !.process = p] \in Run
           /\ [r EXCEPT !.process = p] \in Run
           /\ [r EXCEPT !.pc = "done"] \in Run
  BY DEF Run

\* The record a drive or a cancel has moved on stays a record.
LEMMA UpdateType ==
    ASSUME TypeOK, NEW d \in Drives, NEW r \in Run, run' = [run EXCEPT ![d] = r]
    PROVE  run' \in [Drives -> Run]
  BY DEF TypeOK

-----------------------------------------------------------------------------

\* Every step keeps the types.
LEMMA TypeStep ==
    ASSUME TypeOK, [Next]_vars
    PROVE  TypeOK'
<1> USE DEF TypeOK
<1>Ranges. /\ 0 \in 0..MaxDrives /\ 0 \in 0..MaxCalls
           /\ Drives \subseteq 0..MaxDrives /\ Calls \subseteq 0..MaxCalls
           /\ \A d \in Drives : run[d] \in Run
           /\ Terminal \subseteq RunStates /\ "RUNNING" \in RunStates
           /\ {"FAILED", "CANCELLED", "COMPLETED"} \subseteq RunStates
           /\ Exits \subseteq {"none", "running"} \cup Exits
  BY ScriptAssumption DEF Drives, Calls, RunStates, Terminal
<1>Fields. \A d \in Drives : /\ Bumped(run[d].gen) \in Nat
                             /\ run[d].process \in {"none", "running"} \cup Exits
                             /\ Killed(run[d].process) \subseteq {"none", "running"} \cup Exits
                             /\ Outcome(d) \in RunStates
  BY <1>Ranges DEF Run, Bumped, Killed, Outcome
<1>Start. ASSUME NEW d \in Drives, Start(d) PROVE TypeOK'
  <2>1. [run[d] EXCEPT !.pc = "insert", !.gen = 1] \in Run
    BY ZenonT(60), <1>Ranges DEF Run
  <2>2. run' \in [Drives -> Run]
    BY <1>Start, <2>1 DEF Start
  <2> QED
    BY <1>Start, <1>Ranges, <2>2 DEF Start
<1>Insert. ASSUME NEW d \in Drives, Insert(d) PROVE TypeOK'
  <2>1. [run[d] EXCEPT !.pc = "spawn", !.env = 1] \in Run
    BY ZenonT(60), <1>Ranges DEF Run
  <2>2. run' \in [Drives -> Run]
    BY <1>Insert, <2>1 DEF Insert
  <2>3. row' \in [state : RunStates \cup {"none"}, gen : Nat]
    BY <1>Insert, <1>Ranges DEF Insert
  <2> QED
    BY <1>Insert, <1>Ranges, <2>2, <2>3, FaultType, SweepType DEF Insert
<1>Resume. ASSUME NEW d \in Drives, Resume(d) PROVE TypeOK'
  <2>1. [run[d] EXCEPT !.pc = "bump", !.gen = Bumped(row.gen)] \in Run
    <3>1. Bumped(row.gen) \in Nat
      BY DEF Bumped
    <3> QED
      BY <1>Ranges, <3>1, MovedTypes DEF Exits
  <2>2. run' \in [Drives -> Run]
    BY <1>Resume, <2>1 DEF Resume
  <2> QED
    BY <1>Resume, <2>2 DEF Resume
<1>Bump. ASSUME NEW d \in Drives, Bump(d) PROVE TypeOK'
  <2>1. [run[d] EXCEPT !.pc = "reopen"] \in Run
    BY ZenonT(60), <1>Ranges DEF Run
  <2>2. run' \in [Drives -> Run]
    BY <1>Bump, <2>1 DEF Bump
  <2>3. row' \in [state : RunStates \cup {"none"}, gen : Nat]
    BY <1>Bump, <1>Ranges DEF Bump, Run
  <2> QED
    BY <1>Bump, <1>Ranges, <2>2, <2>3 DEF Bump
<1>BumpRaises. ASSUME NEW d \in Drives, BumpRaises(d) PROVE TypeOK'
  <2>1. [run[d] EXCEPT !.pc = "done"] \in Run
    BY ZenonT(60), <1>Ranges DEF Run
  <2>2. run' \in [Drives -> Run]
    BY <1>BumpRaises, <2>1 DEF BumpRaises
  <2> QED
    BY <1>BumpRaises, <1>Ranges, <2>2, FaultType, SweepType DEF BumpRaises
<1>Reopen. ASSUME NEW d \in Drives, Reopen(d) PROVE TypeOK'
  <2>1. [run[d] EXCEPT !.pc = "spawn", !.env = run[d].gen] \in Run
    BY ZenonT(60), <1>Ranges DEF Run
  <2>2. run' \in [Drives -> Run]
    BY <1>Reopen, <2>1 DEF Reopen
  <2>3. row' \in [state : RunStates \cup {"none"}, gen : Nat] /\ faults' \in 0..MaxFaults
        /\ degraded' \in BOOLEAN
    BY <1>Reopen, <1>Ranges, WriteTypes DEF Reopen
  <2> QED
    BY <1>Reopen, <2>2, <2>3 DEF Reopen
<1>Spawn. ASSUME NEW d \in Drives, Spawn(d) PROVE TypeOK'
  <2>1. [run[d] EXCEPT !.pc = "run", !.process = "running"] \in Run
    BY ZenonT(60), <1>Ranges DEF Run
  <2>2. run' \in [Drives -> Run]
    BY <1>Spawn, <2>1 DEF Spawn
  <2> QED
    BY <1>Spawn, <2>2 DEF Spawn
<1>SpawnRaises. ASSUME NEW d \in Drives, SpawnRaises(d) PROVE TypeOK'
  <2>1. [run[d] EXCEPT !.pc = "final", !.state = "FAILED"] \in Run
    BY ZenonT(60), <1>Ranges DEF Run
  <2>2. run' \in [Drives -> Run]
    BY <1>SpawnRaises, <2>1 DEF SpawnRaises
  <2> QED
    BY <1>SpawnRaises, <2>2, FaultType, SweepType DEF SpawnRaises
<1>Reap. ASSUME NEW d \in Drives, Reap(d) PROVE TypeOK'
  <2>1. [run[d] EXCEPT !.pc = "final", !.state = Outcome(d)] \in Run
    BY <1>Ranges, <1>Fields, MovedTypes
  <2>2. run' \in [Drives -> Run]
    BY <1>Reap, <2>1 DEF Reap
  <2> QED
    BY <1>Reap, <2>2, SweepType DEF Reap
<1>Timeout. ASSUME NEW d \in Drives, Timeout(d) PROVE TypeOK'
  <2>1. [run[d] EXCEPT !.pc = "term"] \in Run
    BY ZenonT(60), <1>Ranges DEF Run
  <2>2. run' \in [Drives -> Run]
    BY <1>Timeout, <2>1 DEF Timeout
  <2> QED
    BY <1>Timeout, <2>2 DEF Timeout
<1>PersistGeneration. ASSUME NEW d \in Drives, PersistGeneration(d) PROVE TypeOK'
  <2>1. [run[d] EXCEPT !.pc = "final", !.arg = 0, !.state = "FAILED"] \in Run
    BY ZenonT(60), <1>Ranges DEF Run
  <2>2. run' \in [Drives -> Run]
    BY <1>PersistGeneration, <2>1 DEF PersistGeneration
  <2>3. row' \in [state : RunStates \cup {"none"}, gen : Nat] /\ faults' \in 0..MaxFaults
        /\ degraded' \in BOOLEAN
    BY <1>PersistGeneration, WriteTypes DEF PersistGeneration, Run
  <2> QED
    BY <1>PersistGeneration, <2>2, <2>3 DEF PersistGeneration
<1>Finalize. ASSUME NEW d \in Drives, Finalize(d) PROVE TypeOK'
  <2>1. [run[d] EXCEPT !.pc = "done"] \in Run
    BY ZenonT(60), <1>Ranges DEF Run
  <2>2. run' \in [Drives -> Run]
    BY <1>Finalize, <2>1 DEF Finalize
  <2>3. row' \in [state : RunStates \cup {"none"}, gen : Nat] /\ faults' \in 0..MaxFaults
        /\ degraded' \in BOOLEAN
    BY <1>Finalize, WriteTypes DEF Finalize, Run
  <2> QED
    BY <1>Finalize, <1>Ranges, <2>2, <2>3, FaultType, SweepType DEF Finalize
<1>Terminated. ASSUME NEW d \in Drives, Terminated(d) PROVE TypeOK'
  <2>1. PICK p \in Killed(run[d].process) :
           run' = [run EXCEPT ![d] = [run[d] EXCEPT !.pc = "tgen", !.process = p,
                       !.gen = Bumped(run[d].gen), !.arg = Bumped(run[d].gen)]]
    BY <1>Terminated DEF Terminated
  <2>2. run' \in [Drives -> Run]
    BY <1>Ranges, <1>Fields, <2>1, MovedTypes, UpdateType
  <2> QED
    BY <1>Terminated, <2>2, SweepType DEF Terminated
<1>Exit. ASSUME NEW d \in Drives, Exit(d) PROVE TypeOK'
  <2>1. \A p \in Exits : [run[d] EXCEPT !.process = p] \in Run
    BY <1>Ranges, MovedTypes DEF Exits
  <2>2. run' \in [Drives -> Run]
    BY <1>Exit, <2>1 DEF Exit
  <2> QED
    BY <1>Exit, <2>2 DEF Exit, ScriptOnly
<1>Cancel. ASSUME NEW c \in Cancels, Cancel(c) PROVE TypeOK'
  <2>1. PICK d \in Drives :
          /\ run' = [run EXCEPT ![d] = [run[d] EXCEPT !.cancelled = TRUE,
                                                      !.gen = Bumped(run[d].gen)]]
          /\ cancel' = [cancel EXCEPT ![c] =
                           [pc |-> "gen", rec |-> d, arg |-> Bumped(run[d].gen)]]
    BY <1>Cancel DEF Cancel
  <2>2. run' \in [Drives -> Run]
    BY <1>Ranges, <1>Fields, <2>1, MovedTypes, UpdateType
  <2>4. cancel' \in [Cancels -> [pc : {"idle", "gen", "term", "write"},
                                  rec : 0..MaxDrives, arg : Nat]]
    BY <1>Ranges, <1>Fields, <2>1
  <2> QED
    BY <1>Cancel, <2>2, <2>4 DEF Cancel
<1>CancelUnsignalled. ASSUME NEW c \in Cancels, CancelUnsignalled(c) PROVE TypeOK'
  <2>1. cancel[c].rec \in Drives =>
          \A p \in {run[cancel[c].rec].process} :
            [run[cancel[c].rec] EXCEPT !.state = "CANCELLED", !.process = p] \in Run
    BY <1>Ranges, <1>Fields, MovedTypes
  <2>2. run' \in [Drives -> Run]
    BY <1>CancelUnsignalled, <2>1 DEF CancelUnsignalled, CancelSettles
  <2>3. row' \in [state : RunStates \cup {"none"}, gen : Nat] /\ faults' \in 0..MaxFaults
        /\ degraded' \in BOOLEAN
    BY <1>CancelUnsignalled, WriteTypes DEF CancelUnsignalled
  <2> QED
    BY <1>CancelUnsignalled, <2>2, <2>3, SweepType DEF CancelUnsignalled, CancelSettles
<1>CancelTerminated. ASSUME NEW c \in Cancels, CancelTerminated(c) PROVE TypeOK'
  <2>1. cancel[c].rec \in Drives =>
          \A p \in Killed(run[cancel[c].rec].process) :
            [run[cancel[c].rec] EXCEPT !.state = "CANCELLED", !.process = p] \in Run
    BY <1>Ranges, <1>Fields, MovedTypes
  <2>2. run' \in [Drives -> Run]
    <3>1. PICK p \in Killed(run[cancel[c].rec].process) :
             run' = [run EXCEPT ![cancel[c].rec] =
                        [run[cancel[c].rec] EXCEPT !.state = "CANCELLED", !.process = p]]
      BY <1>CancelTerminated DEF CancelTerminated, CancelSettles
    <3>2. CASE cancel[c].rec \in Drives
      BY <2>1, <3>1, <3>2
    <3>3. CASE cancel[c].rec \notin Drives
      BY <3>1, <3>3
    <3> QED
      BY <3>2, <3>3
  <2>3. row' \in [state : RunStates \cup {"none"}, gen : Nat] /\ faults' \in 0..MaxFaults
        /\ degraded' \in BOOLEAN
    BY <1>CancelTerminated DEF CancelTerminated
  <2> QED
    BY <1>CancelTerminated, <2>2, SweepType DEF CancelTerminated, CancelSettles
<1>CancelSignal. ASSUME NEW c \in Cancels, CancelSignal(c) PROVE TypeOK'
  <2>1. row' \in [state : RunStates \cup {"none"}, gen : Nat] /\ faults' \in 0..MaxFaults
        /\ degraded' \in BOOLEAN
    BY <1>CancelSignal, WriteTypes DEF CancelSignal
  <2> QED
    BY <1>CancelSignal, <2>1 DEF CancelSignal
<1>CancelAnswers. ASSUME NEW c \in Cancels, CancelAnswers(c) PROVE TypeOK'
  <2>1. row' \in [state : RunStates \cup {"none"}, gen : Nat] /\ faults' \in 0..MaxFaults
        /\ degraded' \in BOOLEAN
    BY <1>CancelAnswers, <1>Ranges, WriteTypes DEF CancelAnswers
  <2> QED
    BY <1>CancelAnswers, <2>1, InitialTypes DEF CancelAnswers
<1>CancelJournaled. ASSUME CancelJournaled PROVE TypeOK'
  BY <1>CancelJournaled, <1>Ranges DEF CancelJournaled
<1>Send. ASSUME NEW d \in Drives, NEW k \in Calls, NEW s \in Steps, Send(k, d, s)
        PROVE TypeOK'
  BY <1>Send, <1>Ranges, InitialTypes DEF Send, ScriptOnly
<1>Serve. ASSUME NEW k \in Calls, Serve(k) PROVE TypeOK'
  BY <1>Serve, <1>Ranges, InitialTypes DEF Serve, ScriptOnly
<1>CreateTerminal. ASSUME NEW k \in Calls, CreateTerminal(k) PROVE TypeOK'
  BY <1>CreateTerminal, <1>Ranges, RecordType, StepType DEF CreateTerminal, ScriptOnly
<1>StepReturns. ASSUME NEW k \in Calls, StepReturns(k) PROVE TypeOK'
  BY <1>StepReturns, <1>Ranges, RecordType, InitialTypes DEF StepReturns, ScriptOnly
<1>StepFails. ASSUME NEW k \in Calls, StepFails(k) PROVE TypeOK'
  BY <1>StepFails, RecordType, StepType, InitialTypes DEF StepFails, ScriptOnly
<1>Crash. ASSUME Crash PROVE TypeOK'
  <2>1. \A d \in Drives : [run[d] EXCEPT !.pc = "done"] \in Run
    BY <1>Ranges, MovedTypes DEF Exits
  <2>2. run' \in [Drives -> Run]
    BY <1>Crash, <2>1 DEF Crash
  <2> QED
    BY <1>Crash, <1>Ranges, <2>2, InitialTypes, FaultType DEF Crash
<1>Stutter. ASSUME UNCHANGED vars PROVE TypeOK'
  BY <1>Stutter DEF vars
<1> QED
  BY <1>Start, <1>Insert, <1>Resume, <1>Bump, <1>BumpRaises, <1>Reopen, <1>Spawn,
     <1>SpawnRaises, <1>Reap, <1>Timeout, <1>PersistGeneration, <1>Finalize,
     <1>Terminated, <1>Exit, <1>Cancel, <1>CancelSignal, <1>CancelUnsignalled,
     <1>CancelTerminated, <1>CancelAnswers, <1>CancelJournaled, <1>Send, <1>Serve,
     <1>CreateTerminal, <1>StepReturns, <1>StepFails, <1>Crash, <1>Stutter DEF Next

-----------------------------------------------------------------------------
(* The invariant.                                                               *)

\* A record is registered, given its generation, spawned and settled in this
\* order, and COMPLETED is an exit 0 that nobody cancelled.
SoundRuns ==
    \A d \in Drives :
      /\ run[d].pc = "unused" => /\ run[d].state = "RUNNING" /\ ~run[d].cancelled
                                 /\ run[d].env = 0
      /\ run[d].pc \in {"insert", "bump", "reopen"} => run[d].env = 0
      /\ run[d].pc \in {"unused", "insert", "bump", "reopen", "spawn"} =>
            run[d].process = "none"
      /\ run[d].process # "none" => run[d].env > 0
      /\ run[d].pc \notin {"final", "done"} => run[d].state # "COMPLETED"
      /\ run[d].state = "COMPLETED" => ~run[d].cancelled /\ run[d].process = "exit0"
      /\ run[d].env <= run[d].gen
      /\ run[d].pc \in {"insert", "bump", "reopen", "spawn"} => run[d].gen > 0
      /\ run[d].pc = "spawn" => run[d].env > 0
      /\ run[d].pc = "tgen" => run[d].arg > 0

\* Who drives: one start or resume, whose run_id is claimed (but for a start that
\* has not inserted its row) and whose record is registered (but for a resume that
\* has not journaled its generation).
Claims ==
    /\ OneDrive
    /\ active => \E d \in Drives : Driving(d) /\ run[d].pc # "insert"
    /\ \A d \in Drives :
         /\ Driving(d) /\ run[d].pc # "insert" => active
         /\ run[d].pc = "insert" => ~active /\ row.state = "none"
         /\ run[d].pc \in {"bump", "reopen"} => row.state # "none"
         /\ run[d].pc \in {"unused", "bump"} => registry # d
         /\ Driving(d) /\ run[d].pc # "bump" => registry = d
         /\ registry = d /\ run[d].pc \in {"final", "done"} => run[d].state \in Terminal

\* A cancel is of a record that was registered, which it has flagged.
Pending(c) == cancel[c].pc # "idle"
SoundCancels ==
    \A c \in Cancels : Pending(c) => /\ cancel[c].rec \in Drives
                                     /\ run[cancel[c].rec].pc \notin {"unused", "bump"}
                                     /\ run[cancel[c].rec].cancelled
                                     /\ cancel[c].pc = "gen" => cancel[c].arg > 0

\* COMPLETED is journaled from a record, and no record loses it.
Earned == row.state = "COMPLETED" => \E d \in Drives : run[d].state = "COMPLETED"

\* While a resume waits for the answers of the cancels, they are of the registered
\* record, one at a time, and over before a resume.
OneCancel ==
    /\ \A c \in Cancels : Pending(c) =>
         /\ cancel[c].rec = registry /\ registry # 0
         /\ \A d \in Drives : run[d].pc # "bump"
    /\ \A b, c \in Cancels : Pending(b) /\ Pending(c) => b = c

\* The cancels of a record whose generation is not journaled yet.
Unwritten(d) == {c \in Cancels : cancel[c].pc = "gen" /\ cancel[c].rec = d}

\* No generation is handed out before the row is there.
FirstGeneration ==
    /\ row.state = "none" => \A d \in Drives : run[d].env = 0
    /\ row.state # "none" => row.gen > 0

\* The drive that runs has a newer generation than any other was handed.
NewestDrives == \A d, e \in Drives : d # e /\ Driving(d) => run[e].env < run[d].gen

\* What was handed out is journaled, but for the registered record.
Journaled == \A e \in Drives : e # registry => run[e].env <= row.gen

\* Only one process can have the journaled generation: that of the registered
\* record or, after a crash, any one.
OneCurrent ==
    row.state # "none" =>
       \A d, e \in Drives : d # e /\ e # registry =>
          run[e].env < row.gen \/ (registry = 0 /\ run[d].env < row.gen)

\* What the registered record was handed is journaled or its cancel is about to;
\* what is about to be journaled is above what any other process has.
AboutToJournal ==
    \A d \in Drives : registry = d =>
       /\ run[d].env <= row.gen \/ \E c \in Unwritten(d) : cancel[c].arg = run[d].env
       /\ run[d].pc = "reopen" => row.gen = run[d].gen \/ Unwritten(d) # {}
       /\ \A c \in Unwritten(d) :
            /\ run[d].env <= cancel[c].arg /\ cancel[c].arg <= run[d].gen
            /\ \A e \in Drives : e # d => run[e].env < cancel[c].arg
            /\ run[d].pc \in {"insert", "reopen"} => cancel[c].arg = run[d].gen
       /\ run[d].pc = "tgen" => /\ run[d].env <= run[d].arg
                                /\ \A e \in Drives : e # d => run[e].env < run[d].arg

Fence == FirstGeneration /\ NewestDrives /\ Journaled /\ OneCurrent /\ AboutToJournal
FenceInv == ~degraded => Fence

\* Over a COMPLETED row nobody drives and no cancel is on its way.
Settled ==
    row.state = "COMPLETED" =>
       (\A d \in Drives : ~Driving(d)) /\ \A c \in Cancels : ~Pending(c)

\* A call that waits is of a drive.
SentCalls == \A k \in Calls : call[k].pc = "sent" => call[k].by \in Drives

\* Holds of every behaviour, and of those in which a resume waits for the cancels.
RunInvariant == TypeOK /\ SoundRuns /\ Claims /\ SoundCancels /\ Earned /\ SentCalls
PatientInvariant == RunInvariant /\ OneCancel /\ FenceInv /\ Settled

-----------------------------------------------------------------------------
(* What the steps do to the fields the invariant speaks of.                     *)

Same(d) == /\ run'[d].pc = run[d].pc /\ run'[d].arg = run[d].arg
           /\ run'[d].state = run[d].state /\ run'[d].cancelled = run[d].cancelled
           /\ run'[d].gen = run[d].gen /\ run'[d].process = run[d].process
           /\ run'[d].env = run[d].env
Frame == UNCHANGED <<row, registry, active, cancel, degraded>> /\ \A d \in Drives : Same(d)

\* Recording a step leaves the rest of the record alone.
LEMMA RecordFrame ==
    ASSUME TypeOK, NEW k \in Calls, NEW st, NEW t, Record(k, st, t)
    PROVE  \A d \in Drives : Same(d)
<1>1. CASE call[k].rec = 0
  BY <1>1 DEF Record, Same
<1>2. CASE call[k].rec # 0
  <2> DEFINE r == call[k].rec
             s == call[k].step
             new == [run[r].steps EXCEPT ![s] = [st |-> st, term |-> t]]
  <2>1. r \in Drives
    BY <1>2, ScriptAssumption DEF TypeOK, Drives, ScriptAssumption
  <2>2. run' = [run EXCEPT ![r] = [run[r] EXCEPT !.steps = new]]
    BY <1>2 DEF Record
  <2>3. run \in [Drives -> Run]
    BY DEF TypeOK
  <2> HIDE DEF new, r
  <2> QED
    BY <2>1, <2>2, <2>3 DEF Same, Run
<1> QED
  BY <1>1, <1>2

\* The calls of the script and the stuttering step leave it all alone.
LEMMA CallFrame ==
    ASSUME TypeOK,
           \/ \E d \in Drives, k \in Calls, s \in Steps : Send(k, d, s)
           \/ \E k \in Calls : Serve(k) \/ CreateTerminal(k) \/ StepReturns(k) \/ StepFails(k)
           \/ UNCHANGED vars
    PROVE  Frame
<1>1. ASSUME NEW d \in Drives, NEW k \in Calls, NEW s \in Steps, Send(k, d, s) PROVE Frame
  BY <1>1 DEF Send, ScriptOnly, Frame, Same
<1>2. ASSUME NEW k \in Calls, Serve(k) PROVE Frame
  BY <1>2 DEF Serve, ScriptOnly, Frame, Same
<1>3. ASSUME NEW k \in Calls, CreateTerminal(k) PROVE Frame
  BY <1>3, RecordFrame DEF CreateTerminal, ScriptOnly, Frame
<1>4. ASSUME NEW k \in Calls, StepReturns(k) PROVE Frame
  BY <1>4, RecordFrame DEF StepReturns, ScriptOnly, Frame
<1>5. ASSUME NEW k \in Calls, StepFails(k) PROVE Frame
  <2>1. CASE UNCHANGED run
    BY <1>5, <2>1 DEF StepFails, ScriptOnly, Frame, Same
  <2>2. CASE Record(k, "failed", Step(k).term)
    BY <1>5, <2>2, RecordFrame DEF StepFails, ScriptOnly, Frame
  <2> QED
    BY <1>5, <2>1, <2>2 DEF StepFails
<1>6. ASSUME UNCHANGED vars PROVE Frame
  BY <1>6 DEF vars, Frame, Same
<1> QED
  BY <1>1, <1>2, <1>3, <1>4, <1>5, <1>6

\* Every step keeps records sound.
LEMMA SoundStep ==
    ASSUME TypeOK, SoundRuns, SoundCancels, Claims, [Next]_vars
    PROVE  SoundRuns'
<1>Frame. ASSUME Frame PROVE SoundRuns'
  BY <1>Frame DEF Frame, Same, SoundRuns
<1> USE DEF TypeOK, Run
<1>Start. ASSUME NEW d \in Drives, Start(d) PROVE SoundRuns'
  BY <1>Start DEF Start, Fresh, SoundRuns
<1>Insert. ASSUME NEW d \in Drives, Insert(d) PROVE SoundRuns'
  BY <1>Insert DEF Insert, SoundRuns
<1>Resume. ASSUME NEW d \in Drives, Resume(d) PROVE SoundRuns'
  BY <1>Resume DEF Resume, Fresh, SoundRuns, Bumped
<1>Bump. ASSUME NEW d \in Drives, Bump(d) PROVE SoundRuns'
  BY <1>Bump DEF Bump, SoundRuns
<1>BumpRaises. ASSUME NEW d \in Drives, BumpRaises(d) PROVE SoundRuns'
  BY <1>BumpRaises DEF BumpRaises, SoundRuns
<1>Reopen. ASSUME NEW d \in Drives, Reopen(d) PROVE SoundRuns'
  BY <1>Reopen DEF Reopen, SoundRuns
<1>Spawn. ASSUME NEW d \in Drives, Spawn(d) PROVE SoundRuns'
  BY <1>Spawn DEF Spawn, SoundRuns
<1>SpawnRaises. ASSUME NEW d \in Drives, SpawnRaises(d) PROVE SoundRuns'
  BY <1>SpawnRaises DEF SpawnRaises, SoundRuns
<1>Reap. ASSUME NEW d \in Drives, Reap(d) PROVE SoundRuns'
  BY <1>Reap DEF Reap, SoundRuns, Outcome
<1>Timeout. ASSUME NEW d \in Drives, Timeout(d) PROVE SoundRuns'
  BY <1>Timeout DEF Timeout, SoundRuns
<1>Terminated. ASSUME NEW d \in Drives, Terminated(d) PROVE SoundRuns'
  BY <1>Terminated DEF Terminated, Killed, SoundRuns, Killed, Bumped
<1>PersistGeneration. ASSUME NEW d \in Drives, PersistGeneration(d) PROVE SoundRuns'
  BY <1>PersistGeneration DEF PersistGeneration, SoundRuns
<1>Finalize. ASSUME NEW d \in Drives, Finalize(d) PROVE SoundRuns'
  BY <1>Finalize DEF Finalize, SoundRuns
<1>Exit. ASSUME NEW d \in Drives, Exit(d) PROVE SoundRuns'
  BY <1>Exit DEF Exit, SoundRuns
<1>Cancel. ASSUME NEW c \in Cancels, Cancel(c) PROVE SoundRuns'
  <2>1. PICK d \in Drives :
          /\ registry = d /\ run[d].state \notin Terminal /\ ~run[d].cancelled
          /\ run' = [run EXCEPT ![d] = [run[d] EXCEPT !.cancelled = TRUE,
                                                      !.gen = Bumped(run[d].gen)]]
          /\ cancel' = [cancel EXCEPT ![c] =
                           [pc |-> "gen", rec |-> d, arg |-> Bumped(run[d].gen)]]
    BY <1>Cancel DEF Cancel
  <2> QED
    BY <2>1 DEF SoundRuns, Claims, Bumped
<1>CancelSignal. ASSUME NEW c \in Cancels, CancelSignal(c) PROVE SoundRuns'
  BY <1>CancelSignal DEF CancelSignal, SoundRuns
<1>CancelUnsignalled. ASSUME NEW c \in Cancels, CancelUnsignalled(c) PROVE SoundRuns'
  <2>1. PICK p \in {run[cancel[c].rec].process} :
          run' = [run EXCEPT ![cancel[c].rec] =
                     [run[cancel[c].rec] EXCEPT !.state = "CANCELLED", !.process = p]]
    BY <1>CancelUnsignalled DEF CancelUnsignalled, CancelSettles
  <2>2. cancel[c].rec \in Drives /\ run[cancel[c].rec].pc \notin {"unused", "bump"}
        /\ run[cancel[c].rec].cancelled
    BY <1>CancelUnsignalled DEF CancelUnsignalled, SoundCancels, Pending
  <2> QED
    BY <2>1, <2>2 DEF SoundRuns
<1>CancelTerminated. ASSUME NEW c \in Cancels, CancelTerminated(c) PROVE SoundRuns'
  <2>1. PICK p \in Killed(run[cancel[c].rec].process) :
          run' = [run EXCEPT ![cancel[c].rec] =
                     [run[cancel[c].rec] EXCEPT !.state = "CANCELLED", !.process = p]]
    BY <1>CancelTerminated DEF CancelTerminated, CancelSettles
  <2>2. cancel[c].rec \in Drives /\ run[cancel[c].rec].pc \notin {"unused", "bump"}
        /\ run[cancel[c].rec].cancelled
    BY <1>CancelTerminated DEF CancelTerminated, SoundCancels, Pending
  <2> QED
    BY <2>1, <2>2 DEF SoundRuns, Killed
<1>CancelAnswers. ASSUME NEW c \in Cancels, CancelAnswers(c) PROVE SoundRuns'
  BY <1>CancelAnswers DEF CancelAnswers, SoundRuns
<1>CancelJournaled. ASSUME CancelJournaled PROVE SoundRuns'
  BY <1>CancelJournaled DEF CancelJournaled, SoundRuns
<1>Crash. ASSUME Crash PROVE SoundRuns'
  BY <1>Crash DEF Crash, SoundRuns
<1> QED
  BY <1>Frame, CallFrame, <1>Start, <1>Insert, <1>Resume, <1>Bump, <1>BumpRaises,
     <1>Reopen, <1>Spawn, <1>SpawnRaises, <1>Reap, <1>Timeout, <1>Terminated,
     <1>PersistGeneration, <1>Finalize, <1>Exit, <1>Cancel, <1>CancelSignal,
     <1>CancelUnsignalled, <1>CancelTerminated, <1>CancelAnswers, <1>CancelJournaled,
     <1>Crash DEF Next

\* Every step keeps the claims.
LEMMA ClaimsStep ==
    ASSUME TypeOK, Claims, [Next]_vars
    PROVE  Claims'
<1>Frame. ASSUME Frame PROVE Claims'
  BY <1>Frame DEF Frame, Same, Claims, OneDrive, Driving
<1> USE DEF TypeOK, Run
<1>Start. ASSUME NEW d \in Drives, Start(d) PROVE Claims'
  <2>1. \A e \in Drives : ~Driving(e)
    BY <1>Start DEF Start, Claims, Drives
  <2>2. /\ run'[d].pc = "insert" /\ registry' = d /\ active' = FALSE /\ row'.state = "none"
        /\ \A e \in Drives : e # d => run'[e] = run[e]
    BY <1>Start DEF Start
  <2> QED
    BY <2>1, <2>2 DEF Claims, OneDrive, Driving
<1>Insert. ASSUME NEW d \in Drives, Insert(d) PROVE Claims'
  BY <1>Insert DEF Insert, Claims, OneDrive, Driving
<1>Resume. ASSUME NEW d \in Drives, Resume(d) PROVE Claims'
  BY <1>Resume DEF Resume, Fresh, Patient, NotDriven, Resumable, Claims, OneDrive, Driving
<1>Bump. ASSUME NEW d \in Drives, Bump(d) PROVE Claims'
  BY <1>Bump DEF Bump, Claims, OneDrive, Driving
<1>BumpRaises. ASSUME NEW d \in Drives, BumpRaises(d) PROVE Claims'
  BY <1>BumpRaises DEF BumpRaises, Claims, OneDrive, Driving
<1>Reopen. ASSUME NEW d \in Drives, Reopen(d) PROVE Claims'
  BY <1>Reopen DEF Reopen, WriteState, Claims, OneDrive, Driving
<1>Spawn. ASSUME NEW d \in Drives, Spawn(d) PROVE Claims'
  BY <1>Spawn DEF Spawn, Claims, OneDrive, Driving
<1>SpawnRaises. ASSUME NEW d \in Drives, SpawnRaises(d) PROVE Claims'
  BY <1>SpawnRaises DEF SpawnRaises, Claims, OneDrive, Driving, Terminal
<1>Reap. ASSUME NEW d \in Drives, Reap(d) PROVE Claims'
  BY <1>Reap DEF Reap, Claims, OneDrive, Driving, Terminal, Outcome
<1>Timeout. ASSUME NEW d \in Drives, Timeout(d) PROVE Claims'
  BY <1>Timeout DEF Timeout, Claims, OneDrive, Driving
<1>Terminated. ASSUME NEW d \in Drives, Terminated(d) PROVE Claims'
  BY <1>Terminated DEF Terminated, Killed, Claims, OneDrive, Driving
<1>PersistGeneration. ASSUME NEW d \in Drives, PersistGeneration(d) PROVE Claims'
  <2>1. /\ row'.state = row.state /\ UNCHANGED <<registry, active>>
        /\ run[d].pc = "tgen" /\ run'[d].pc = "final" /\ run'[d].state = "FAILED"
        /\ \A e \in Drives : e # d => run'[e] = run[e]
    BY <1>PersistGeneration DEF PersistGeneration, WriteGeneration
  <2> QED
    BY ZenonT(60), <2>1 DEF Claims, OneDrive, Driving, Terminal
<1>Finalize. ASSUME NEW d \in Drives, Finalize(d) PROVE Claims'
  BY <1>Finalize DEF Finalize, Claims, OneDrive, Driving
<1>Exit. ASSUME NEW d \in Drives, Exit(d) PROVE Claims'
  BY <1>Exit DEF Exit, ScriptOnly, Claims, OneDrive, Driving
<1>Cancel. ASSUME NEW c \in Cancels, Cancel(c) PROVE Claims'
  BY <1>Cancel DEF Cancel, Claims, OneDrive, Driving
<1>CancelSignal. ASSUME NEW c \in Cancels, CancelSignal(c) PROVE Claims'
  BY <1>CancelSignal DEF CancelSignal, WriteGeneration, Claims, OneDrive, Driving
<1>CancelUnsignalled. ASSUME NEW c \in Cancels, CancelUnsignalled(c) PROVE Claims'
  <2>1. /\ row'.state = row.state /\ UNCHANGED <<registry, active>>
        /\ \A d \in Drives : /\ run'[d].pc = run[d].pc
                             /\ run'[d].state \in {run[d].state, "CANCELLED"}
    BY <1>CancelUnsignalled DEF CancelUnsignalled, CancelSettles, WriteGeneration
  <2> QED
    BY <2>1 DEF Claims, OneDrive, Driving, Terminal
<1>CancelTerminated. ASSUME NEW c \in Cancels, CancelTerminated(c) PROVE Claims'
  <2>1. /\ row'.state = row.state /\ UNCHANGED <<registry, active>>
        /\ \A d \in Drives : /\ run'[d].pc = run[d].pc
                             /\ run'[d].state \in {run[d].state, "CANCELLED"}
    BY <1>CancelTerminated DEF CancelTerminated, CancelSettles
  <2> QED
    BY <2>1 DEF Claims, OneDrive, Driving, Terminal
<1>CancelAnswers. ASSUME NEW c \in Cancels, CancelAnswers(c) PROVE Claims'
  BY <1>CancelAnswers DEF CancelAnswers, WriteState, Claims, OneDrive, Driving
<1>CancelJournaled. ASSUME CancelJournaled PROVE Claims'
  BY <1>CancelJournaled DEF CancelJournaled, Claims, OneDrive, Driving
<1>Crash. ASSUME Crash PROVE Claims'
  BY <1>Crash DEF Crash, Claims, OneDrive, Driving, Drives
<1> QED
  BY <1>Frame, CallFrame, <1>Start, <1>Insert, <1>Resume, <1>Bump, <1>BumpRaises,
     <1>Reopen, <1>Spawn, <1>SpawnRaises, <1>Reap, <1>Timeout, <1>Terminated,
     <1>PersistGeneration, <1>Finalize, <1>Exit, <1>Cancel, <1>CancelSignal,
     <1>CancelUnsignalled, <1>CancelTerminated, <1>CancelAnswers, <1>CancelJournaled,
     <1>Crash DEF Next

\* Every step keeps cancels sound.
LEMMA SoundCancelsStep ==
    ASSUME TypeOK, SoundCancels, Claims, [Next]_vars
    PROVE  SoundCancels'
<1>Frame. ASSUME Frame PROVE SoundCancels'
  BY <1>Frame DEF Frame, Same, SoundCancels, Pending
<1> USE DEF TypeOK, Run
<1>Start. ASSUME NEW d \in Drives, Start(d) PROVE SoundCancels'
  BY <1>Start DEF Start, SoundCancels, Pending
<1>Insert. ASSUME NEW d \in Drives, Insert(d) PROVE SoundCancels'
  BY <1>Insert DEF Insert, SoundCancels, Pending
<1>Resume. ASSUME NEW d \in Drives, Resume(d) PROVE SoundCancels'
  BY <1>Resume DEF Resume, Fresh, SoundCancels, Pending
<1>Bump. ASSUME NEW d \in Drives, Bump(d) PROVE SoundCancels'
  BY <1>Bump DEF Bump, SoundCancels, Pending
<1>BumpRaises. ASSUME NEW d \in Drives, BumpRaises(d) PROVE SoundCancels'
  BY <1>BumpRaises DEF BumpRaises, SoundCancels, Pending
<1>Reopen. ASSUME NEW d \in Drives, Reopen(d) PROVE SoundCancels'
  BY <1>Reopen DEF Reopen, SoundCancels, Pending
<1>Spawn. ASSUME NEW d \in Drives, Spawn(d) PROVE SoundCancels'
  BY <1>Spawn DEF Spawn, SoundCancels, Pending
<1>SpawnRaises. ASSUME NEW d \in Drives, SpawnRaises(d) PROVE SoundCancels'
  BY <1>SpawnRaises DEF SpawnRaises, SoundCancels, Pending
<1>Reap. ASSUME NEW d \in Drives, Reap(d) PROVE SoundCancels'
  BY <1>Reap DEF Reap, SoundCancels, Pending
<1>Timeout. ASSUME NEW d \in Drives, Timeout(d) PROVE SoundCancels'
  BY <1>Timeout DEF Timeout, SoundCancels, Pending
<1>Terminated. ASSUME NEW d \in Drives, Terminated(d) PROVE SoundCancels'
  BY <1>Terminated DEF Terminated, SoundCancels, Pending
<1>PersistGeneration. ASSUME NEW d \in Drives, PersistGeneration(d) PROVE SoundCancels'
  BY <1>PersistGeneration DEF PersistGeneration, SoundCancels, Pending
<1>Finalize. ASSUME NEW d \in Drives, Finalize(d) PROVE SoundCancels'
  BY <1>Finalize DEF Finalize, SoundCancels, Pending
<1>Exit. ASSUME NEW d \in Drives, Exit(d) PROVE SoundCancels'
  BY <1>Exit DEF Exit, ScriptOnly, SoundCancels, Pending
<1>Cancel. ASSUME NEW c \in Cancels, Cancel(c) PROVE SoundCancels'
  BY <1>Cancel DEF Cancel, SoundCancels, Pending, Claims, Bumped
<1>CancelSignal. ASSUME NEW c \in Cancels, CancelSignal(c) PROVE SoundCancels'
  BY <1>CancelSignal DEF CancelSignal, SoundCancels, Pending
<1>CancelUnsignalled. ASSUME NEW c \in Cancels, CancelUnsignalled(c) PROVE SoundCancels'
  BY <1>CancelUnsignalled DEF CancelUnsignalled, CancelSettles, SoundCancels, Pending
<1>CancelTerminated. ASSUME NEW c \in Cancels, CancelTerminated(c) PROVE SoundCancels'
  BY <1>CancelTerminated DEF CancelTerminated, CancelSettles, SoundCancels, Pending
<1>CancelAnswers. ASSUME NEW c \in Cancels, CancelAnswers(c) PROVE SoundCancels'
  BY <1>CancelAnswers DEF CancelAnswers, NoCancel, SoundCancels, Pending, NoCancel
<1>CancelJournaled. ASSUME CancelJournaled PROVE SoundCancels'
  BY <1>CancelJournaled DEF CancelJournaled, SoundCancels, Pending
<1>Crash. ASSUME Crash PROVE SoundCancels'
  BY <1>Crash DEF Crash, SoundCancels, Pending, NoCancel
<1> QED
  BY <1>Frame, CallFrame, <1>Start, <1>Insert, <1>Resume, <1>Bump, <1>BumpRaises,
     <1>Reopen, <1>Spawn, <1>SpawnRaises, <1>Reap, <1>Timeout, <1>Terminated,
     <1>PersistGeneration, <1>Finalize, <1>Exit, <1>Cancel, <1>CancelSignal,
     <1>CancelUnsignalled, <1>CancelTerminated, <1>CancelAnswers, <1>CancelJournaled,
     <1>Crash DEF Next

\* Every step keeps COMPLETED earned.
LEMMA EarnedStep ==
    ASSUME TypeOK, SoundRuns, SoundCancels, Earned, [Next]_vars
    PROVE  Earned'
<1>Frame. ASSUME Frame PROVE Earned'
  BY <1>Frame DEF Frame, Same, Earned
<1> USE DEF TypeOK, Run
<1>Start. ASSUME NEW d \in Drives, Start(d) PROVE Earned'
  <2>1. /\ \A e \in Drives : run[e].state = "COMPLETED" => run'[e].state = "COMPLETED"
        /\ row'.state = "COMPLETED" => row.state = "COMPLETED"
    BY <1>Start DEF Start, SoundRuns
  <2> QED
    BY <2>1 DEF Earned
<1>Insert. ASSUME NEW d \in Drives, Insert(d) PROVE Earned'
  BY <1>Insert DEF Insert, Earned, SoundRuns
<1>Resume. ASSUME NEW d \in Drives, Resume(d) PROVE Earned'
  <2>1. /\ \A e \in Drives : run[e].state = "COMPLETED" => run'[e].state = "COMPLETED"
        /\ row'.state = "COMPLETED" => row.state = "COMPLETED"
    BY <1>Resume DEF Resume, SoundRuns
  <2> QED
    BY <2>1 DEF Earned
<1>Bump. ASSUME NEW d \in Drives, Bump(d) PROVE Earned'
  <2>1. /\ \A e \in Drives : run[e].state = "COMPLETED" => run'[e].state = "COMPLETED"
        /\ row'.state = "COMPLETED" => row.state = "COMPLETED"
    BY <1>Bump DEF Bump, SoundRuns
  <2> QED
    BY <2>1 DEF Earned
<1>BumpRaises. ASSUME NEW d \in Drives, BumpRaises(d) PROVE Earned'
  BY <1>BumpRaises DEF BumpRaises, Earned, SoundRuns
<1>Reopen. ASSUME NEW d \in Drives, Reopen(d) PROVE Earned'
  BY <1>Reopen DEF Reopen, WriteState, Earned
<1>Spawn. ASSUME NEW d \in Drives, Spawn(d) PROVE Earned'
  BY <1>Spawn DEF Spawn, Earned, SoundRuns
<1>SpawnRaises. ASSUME NEW d \in Drives, SpawnRaises(d) PROVE Earned'
  <2>1. /\ \A e \in Drives : run[e].state = "COMPLETED" => run'[e].state = "COMPLETED"
        /\ row'.state = "COMPLETED" => row.state = "COMPLETED"
    BY <1>SpawnRaises DEF SpawnRaises, SoundRuns
  <2> QED
    BY <2>1 DEF Earned
<1>Reap. ASSUME NEW d \in Drives, Reap(d) PROVE Earned'
  <2>1. /\ \A e \in Drives : run[e].state = "COMPLETED" => run'[e].state = "COMPLETED"
        /\ row'.state = "COMPLETED" => row.state = "COMPLETED"
    BY <1>Reap DEF Reap, SoundRuns
  <2> QED
    BY <2>1 DEF Earned
<1>Timeout. ASSUME NEW d \in Drives, Timeout(d) PROVE Earned'
  BY <1>Timeout DEF Timeout, Earned, SoundRuns
<1>Terminated. ASSUME NEW d \in Drives, Terminated(d) PROVE Earned'
  <2>1. /\ \A e \in Drives : run[e].state = "COMPLETED" => run'[e].state = "COMPLETED"
        /\ row'.state = "COMPLETED" => row.state = "COMPLETED"
    BY <1>Terminated DEF Terminated, SoundRuns
  <2> QED
    BY <2>1 DEF Earned
<1>PersistGeneration. ASSUME NEW d \in Drives, PersistGeneration(d) PROVE Earned'
  <2>1. /\ \A e \in Drives : run[e].state = "COMPLETED" => run'[e].state = "COMPLETED"
        /\ row'.state = "COMPLETED" => row.state = "COMPLETED"
    BY <1>PersistGeneration DEF PersistGeneration, SoundRuns, WriteGeneration
  <2> QED
    BY <2>1 DEF Earned
<1>Finalize. ASSUME NEW d \in Drives, Finalize(d) PROVE Earned'
  BY <1>Finalize DEF Finalize, WriteState, Earned
<1>Exit. ASSUME NEW d \in Drives, Exit(d) PROVE Earned'
  <2>1. /\ \A e \in Drives : run[e].state = "COMPLETED" => run'[e].state = "COMPLETED"
        /\ row'.state = "COMPLETED" => row.state = "COMPLETED"
    BY <1>Exit DEF Exit, SoundRuns, ScriptOnly
  <2> QED
    BY <2>1 DEF Earned
<1>Cancel. ASSUME NEW c \in Cancels, Cancel(c) PROVE Earned'
  <2>1. /\ \A e \in Drives : run[e].state = "COMPLETED" => run'[e].state = "COMPLETED"
        /\ row'.state = "COMPLETED" => row.state = "COMPLETED"
    BY <1>Cancel DEF Cancel, SoundRuns
  <2> QED
    BY <2>1 DEF Earned
<1>CancelSignal. ASSUME NEW c \in Cancels, CancelSignal(c) PROVE Earned'
  BY <1>CancelSignal DEF CancelSignal, WriteGeneration, Earned
<1>CancelUnsignalled. ASSUME NEW c \in Cancels, CancelUnsignalled(c) PROVE Earned'
  <2>1. /\ \A e \in Drives : run[e].state = "COMPLETED" => run'[e].state = "COMPLETED"
        /\ row'.state = row.state
    <3>1. run[cancel[c].rec].state # "COMPLETED"
      BY <1>CancelUnsignalled DEF CancelUnsignalled, SoundRuns, SoundCancels, Pending
    <3> QED
      BY <3>1, <1>CancelUnsignalled DEF CancelUnsignalled, CancelSettles, WriteGeneration
  <2> QED
    BY <2>1 DEF Earned
<1>CancelTerminated. ASSUME NEW c \in Cancels, CancelTerminated(c) PROVE Earned'
  <2>1. /\ \A e \in Drives : run[e].state = "COMPLETED" => run'[e].state = "COMPLETED"
        /\ row'.state = row.state
    <3>1. run[cancel[c].rec].state # "COMPLETED"
      BY <1>CancelTerminated DEF CancelTerminated, SoundRuns, SoundCancels, Pending
    <3> QED
      BY <3>1, <1>CancelTerminated DEF CancelTerminated, CancelSettles
  <2> QED
    BY <2>1 DEF Earned
<1>CancelAnswers. ASSUME NEW c \in Cancels, CancelAnswers(c) PROVE Earned'
  BY <1>CancelAnswers DEF CancelAnswers, WriteState, Earned
<1>CancelJournaled. ASSUME CancelJournaled PROVE Earned'
  BY <1>CancelJournaled DEF CancelJournaled, Earned, SoundRuns
<1>Crash. ASSUME Crash PROVE Earned'
  BY <1>Crash DEF Crash, Earned, SoundRuns
<1> QED
  BY <1>Frame, CallFrame, <1>Start, <1>Insert, <1>Resume, <1>Bump, <1>BumpRaises,
     <1>Reopen, <1>Spawn, <1>SpawnRaises, <1>Reap, <1>Timeout, <1>Terminated,
     <1>PersistGeneration, <1>Finalize, <1>Exit, <1>Cancel, <1>CancelSignal,
     <1>CancelUnsignalled, <1>CancelTerminated, <1>CancelAnswers, <1>CancelJournaled,
     <1>Crash DEF Next

\* Every step keeps the cancels one at a time, when resumes wait for them.
LEMMA OneCancelStep ==
    ASSUME TypeOK, SoundRuns, SoundCancels, Claims, OneCancel, ~Overtakes, [Next]_vars
    PROVE  OneCancel'
<1>Frame. ASSUME Frame PROVE OneCancel'
  BY <1>Frame DEF Frame, Same, OneCancel, Pending
<1> USE DEF TypeOK, Run
<1>Start. ASSUME NEW d \in Drives, Start(d) PROVE OneCancel'
  BY <1>Start DEF Start, OneCancel, Pending
<1>Insert. ASSUME NEW d \in Drives, Insert(d) PROVE OneCancel'
  BY <1>Insert DEF Insert, OneCancel, Pending
<1>Resume. ASSUME NEW d \in Drives, Resume(d) PROVE OneCancel'
  BY <1>Resume DEF Resume, Patient, OneCancel, Pending
<1>Bump. ASSUME NEW d \in Drives, Bump(d) PROVE OneCancel'
  BY <1>Bump DEF Bump, OneCancel, Pending
<1>BumpRaises. ASSUME NEW d \in Drives, BumpRaises(d) PROVE OneCancel'
  BY <1>BumpRaises DEF BumpRaises, OneCancel, Pending
<1>Reopen. ASSUME NEW d \in Drives, Reopen(d) PROVE OneCancel'
  BY <1>Reopen DEF Reopen, OneCancel, Pending
<1>Spawn. ASSUME NEW d \in Drives, Spawn(d) PROVE OneCancel'
  BY <1>Spawn DEF Spawn, OneCancel, Pending
<1>SpawnRaises. ASSUME NEW d \in Drives, SpawnRaises(d) PROVE OneCancel'
  BY <1>SpawnRaises DEF SpawnRaises, OneCancel, Pending
<1>Reap. ASSUME NEW d \in Drives, Reap(d) PROVE OneCancel'
  BY <1>Reap DEF Reap, OneCancel, Pending
<1>Timeout. ASSUME NEW d \in Drives, Timeout(d) PROVE OneCancel'
  BY <1>Timeout DEF Timeout, OneCancel, Pending
<1>Terminated. ASSUME NEW d \in Drives, Terminated(d) PROVE OneCancel'
  BY <1>Terminated DEF Terminated, OneCancel, Pending
<1>PersistGeneration. ASSUME NEW d \in Drives, PersistGeneration(d) PROVE OneCancel'
  BY <1>PersistGeneration DEF PersistGeneration, OneCancel, Pending
<1>Finalize. ASSUME NEW d \in Drives, Finalize(d) PROVE OneCancel'
  BY <1>Finalize DEF Finalize, OneCancel, Pending
<1>Exit. ASSUME NEW d \in Drives, Exit(d) PROVE OneCancel'
  BY <1>Exit DEF Exit, ScriptOnly, OneCancel, Pending
<1>Cancel. ASSUME NEW c \in Cancels, Cancel(c) PROVE OneCancel'
  <2>1. PICK d \in Drives :
          /\ registry = d /\ run[d].state \notin Terminal /\ ~run[d].cancelled
          /\ run' = [run EXCEPT ![d] = [run[d] EXCEPT !.cancelled = TRUE,
                                                      !.gen = Bumped(run[d].gen)]]
          /\ cancel' = [cancel EXCEPT ![c] =
                           [pc |-> "gen", rec |-> d, arg |-> Bumped(run[d].gen)]]
    BY <1>Cancel DEF Cancel
  <2>2. /\ Driving(d) /\ \A e \in Drives : run[e].pc # "bump"
        /\ d # 0
    <3>1. run[d].pc \notin {"unused", "bump", "final", "done"}
      BY <2>1 DEF Claims
    <3>2. Driving(d)
      BY <3>1 DEF Driving
    <3>3. \A e \in Drives : run[e].pc = "bump" => e = d
      BY <3>2 DEF Claims, OneDrive, Driving
    <3>4. d # 0
      BY DEF Drives
    <3> QED
      BY <3>1, <3>2, <3>3, <3>4
  <2>3. \A b \in Cancels : ~Pending(b)
    BY <2>1 DEF OneCancel, SoundCancels
  <2>4. /\ registry' = d /\ \A e \in Drives : run'[e].pc = run[e].pc
        /\ \A b \in Cancels : b # c => cancel'[b] = cancel[b]
        /\ cancel'[c].rec = d
    BY <2>1, <1>Cancel DEF Cancel
  <2> QED
    <3>1. \A b \in Cancels : Pending(b)' => b = c
      BY <2>3, <2>4 DEF Pending
    <3>2. registry' # 0 /\ \A e \in Drives : run'[e].pc # "bump"
      BY <2>2, <2>4
    <3> QED
      BY <3>1, <3>2, <2>4 DEF OneCancel
<1>CancelSignal. ASSUME NEW c \in Cancels, CancelSignal(c) PROVE OneCancel'
  BY <1>CancelSignal DEF CancelSignal, OneCancel, Pending
<1>CancelUnsignalled. ASSUME NEW c \in Cancels, CancelUnsignalled(c) PROVE OneCancel'
  BY <1>CancelUnsignalled DEF CancelUnsignalled, CancelSettles, OneCancel, Pending
<1>CancelTerminated. ASSUME NEW c \in Cancels, CancelTerminated(c) PROVE OneCancel'
  BY <1>CancelTerminated DEF CancelTerminated, CancelSettles, OneCancel, Pending
<1>CancelAnswers. ASSUME NEW c \in Cancels, CancelAnswers(c) PROVE OneCancel'
  BY <1>CancelAnswers DEF CancelAnswers, NoCancel, OneCancel, Pending, NoCancel
<1>CancelJournaled. ASSUME CancelJournaled PROVE OneCancel'
  BY <1>CancelJournaled DEF CancelJournaled, OneCancel, Pending
<1>Crash. ASSUME Crash PROVE OneCancel'
  BY <1>Crash DEF Crash, OneCancel, Pending, NoCancel
<1> QED
  BY <1>Frame, CallFrame, <1>Start, <1>Insert, <1>Resume, <1>Bump, <1>BumpRaises,
     <1>Reopen, <1>Spawn, <1>SpawnRaises, <1>Reap, <1>Timeout, <1>Terminated,
     <1>PersistGeneration, <1>Finalize, <1>Exit, <1>Cancel, <1>CancelSignal,
     <1>CancelUnsignalled, <1>CancelTerminated, <1>CancelAnswers, <1>CancelJournaled,
     <1>Crash DEF Next

\* Every step keeps the fence.
LEMMA FenceStep ==
    ASSUME TypeOK, SoundRuns, SoundCancels, Claims, OneCancel, FenceInv, ~Overtakes, [Next]_vars
    PROVE  FenceInv'
<1>Frame. ASSUME Frame PROVE FenceInv'
  BY <1>Frame DEF Frame, Same, FenceInv, Fence, FirstGeneration, NewestDrives, Journaled,
     OneCurrent, AboutToJournal, Unwritten, Driving
<1> USE DEF TypeOK, Run
<1>Start. ASSUME NEW d \in Drives, Start(d) PROVE FenceInv'
  BY <1>Start DEF Start, FenceInv, Fence, FirstGeneration, NewestDrives, Journaled,
     OneCurrent, AboutToJournal, Unwritten, OneCancel, Pending, Driving
<1>Insert. ASSUME NEW d \in Drives, Insert(d) PROVE FenceInv'
  BY <1>Insert DEF Insert, FenceInv, Fence, FirstGeneration, NewestDrives, Journaled,
     OneCurrent, AboutToJournal, Unwritten, SoundRuns, Claims, Driving
<1>Resume. ASSUME NEW d \in Drives, Resume(d) PROVE FenceInv'
  BY <1>Resume DEF Resume, Patient, Resumable, FenceInv, Fence, FirstGeneration,
     NewestDrives, Journaled, OneCurrent, AboutToJournal, Unwritten, OneCancel, SoundRuns,
     SoundCancels, Claims, OneDrive, Driving, Bumped
<1>Bump. ASSUME NEW d \in Drives, Bump(d) PROVE FenceInv'
  BY <1>Bump DEF Bump, FenceInv, Fence, FirstGeneration, NewestDrives, Journaled,
     OneCurrent, AboutToJournal, Unwritten, OneCancel, Pending, SoundRuns, SoundCancels,
     Claims, Driving
<1>BumpRaises. ASSUME NEW d \in Drives, BumpRaises(d) PROVE FenceInv'
  BY <1>BumpRaises DEF BumpRaises, FenceInv, Fence, FirstGeneration, NewestDrives,
     Journaled, OneCurrent, AboutToJournal, Unwritten, Driving
<1>Reopen. ASSUME NEW d \in Drives, Reopen(d) PROVE FenceInv'
  <2>1. /\ row'.gen = row.gen /\ (row'.state = "none" <=> row.state = "none")
        /\ UNCHANGED <<registry, degraded>>
    BY <1>Reopen DEF Reopen, WriteState
  <2>2. /\ run[d].pc = "reopen" /\ UNCHANGED cancel
        /\ run' = [run EXCEPT ![d] = [run[d] EXCEPT !.pc = "spawn", !.env = run[d].gen]]
    BY <1>Reopen DEF Reopen
  <2> SUFFICES ASSUME ~degraded', Fence PROVE Fence'
    BY <2>1 DEF FenceInv
  <2>3. /\ registry = d /\ row.state # "none"
        /\ \A e \in Drives : Driving(e)' <=> Driving(e)
        /\ \A e \in Drives : e # d => run'[e] = run[e]
        /\ run'[d].pc = "spawn" /\ run'[d].env = run[d].gen /\ run'[d].gen = run[d].gen
        /\ Unwritten(d)' = Unwritten(d)
        /\ \A e \in Drives : Driving(e) => e = d
        /\ d # 0
    BY <2>2 DEF Drives, Claims, OneDrive, Driving, Unwritten
  <2>4. FirstGeneration'
    BY <2>1, <2>2, <2>3 DEF Fence, FirstGeneration
  <2>5. NewestDrives'
    BY <2>1, <2>2, <2>3 DEF Fence, NewestDrives
  <2>6. Journaled'
    BY <2>1, <2>2, <2>3 DEF Fence, Journaled
  <2>7. OneCurrent'
    BY <2>1, <2>2, <2>3 DEF Fence, OneCurrent
  <2>8. AboutToJournal'
    BY <2>1, <2>2, <2>3 DEF Fence, AboutToJournal
  <2> QED
    BY <2>4, <2>5, <2>6, <2>7, <2>8 DEF Fence
<1>Spawn. ASSUME NEW d \in Drives, Spawn(d) PROVE FenceInv'
  BY <1>Spawn DEF Spawn, FenceInv, Fence, FirstGeneration, NewestDrives, Journaled,
     OneCurrent, AboutToJournal, Unwritten, Driving
<1>SpawnRaises. ASSUME NEW d \in Drives, SpawnRaises(d) PROVE FenceInv'
  BY <1>SpawnRaises DEF SpawnRaises, FenceInv, Fence, FirstGeneration, NewestDrives,
     Journaled, OneCurrent, AboutToJournal, Unwritten, Driving
<1>Reap. ASSUME NEW d \in Drives, Reap(d) PROVE FenceInv'
  BY <1>Reap DEF Reap, FenceInv, Fence, FirstGeneration, NewestDrives, Journaled,
     OneCurrent, AboutToJournal, Unwritten, Driving
<1>Timeout. ASSUME NEW d \in Drives, Timeout(d) PROVE FenceInv'
  BY <1>Timeout DEF Timeout, FenceInv, Fence, FirstGeneration, NewestDrives, Journaled,
     OneCurrent, AboutToJournal, Unwritten, Driving
<1>Terminated. ASSUME NEW d \in Drives, Terminated(d) PROVE FenceInv'
  BY <1>Terminated DEF Terminated, FenceInv, Fence, FirstGeneration, NewestDrives,
     Journaled, OneCurrent, AboutToJournal, Unwritten, SoundRuns, Driving, Bumped
<1>PersistGeneration. ASSUME NEW d \in Drives, PersistGeneration(d) PROVE FenceInv'
  <2> SUFFICES ASSUME ~degraded' PROVE Fence'
    BY DEF FenceInv
  <2>1. /\ UNCHANGED <<registry, cancel>> /\ Fence
        /\ row' = IF row.state = "none" THEN row ELSE [row EXCEPT !.gen = run[d].arg]
    BY <1>PersistGeneration DEF PersistGeneration, WriteGeneration, FenceInv
  <2>2. /\ run[d].pc = "tgen" /\ run[d].arg > 0
        /\ run' = [run EXCEPT ![d] = [run[d] EXCEPT !.pc = "final", !.arg = 0, !.state = "FAILED"]]
    BY <1>PersistGeneration DEF PersistGeneration, SoundRuns
  <2>3. /\ registry = d
        /\ \A e \in Drives : Driving(e)' <=> Driving(e)
        /\ \A e \in Drives : e # d => run'[e] = run[e]
        /\ run'[d].pc = "final" /\ run'[d].env = run[d].env /\ run'[d].gen = run[d].gen
        /\ \A e \in Drives : Unwritten(e)' = Unwritten(e)
    BY <2>1, <2>2 DEF Claims, Driving, Unwritten
  <2>4. FirstGeneration'
    BY <2>1, <2>2, <2>3 DEF Fence, FirstGeneration
  <2>5. NewestDrives'
    BY <2>1, <2>2, <2>3 DEF Fence, NewestDrives
  <2>6. Journaled'
    BY <2>1, <2>2, <2>3 DEF Fence, Journaled, AboutToJournal
  <2>7. OneCurrent'
    BY <2>1, <2>2, <2>3 DEF Fence, OneCurrent, AboutToJournal
  <2>8. AboutToJournal'
    BY <2>1, <2>2, <2>3 DEF Fence, AboutToJournal
  <2> QED
    BY <2>4, <2>5, <2>6, <2>7, <2>8 DEF Fence
<1>Finalize. ASSUME NEW d \in Drives, Finalize(d) PROVE FenceInv'
  <2>1. /\ row'.gen = row.gen /\ (row'.state = "none" <=> row.state = "none")
        /\ UNCHANGED <<registry, degraded>>
    BY <1>Finalize DEF Finalize, WriteState, RunStates, Terminal
  <2>2. UNCHANGED cancel /\ run' = [run EXCEPT ![d] = [run[d] EXCEPT !.pc = "done"]]
    BY <1>Finalize DEF Finalize
  <2> QED
    BY <2>1, <2>2 DEF FenceInv, Fence, FirstGeneration, NewestDrives, Journaled,
       OneCurrent, AboutToJournal, Unwritten, Driving
<1>Exit. ASSUME NEW d \in Drives, Exit(d) PROVE FenceInv'
  BY <1>Exit DEF Exit, ScriptOnly, FenceInv, Fence, FirstGeneration, NewestDrives,
     Journaled, OneCurrent, AboutToJournal, Unwritten, Driving
<1>Cancel. ASSUME NEW c \in Cancels, Cancel(c) PROVE FenceInv'
  BY <1>Cancel DEF Cancel, FenceInv, Fence, FirstGeneration, NewestDrives, Journaled,
     OneCurrent, AboutToJournal, Unwritten, Pending, SoundRuns, SoundCancels, Claims,
     Driving, Bumped
<1>CancelSignal. ASSUME NEW c \in Cancels, CancelSignal(c) PROVE FenceInv'
  BY <1>CancelSignal DEF CancelSignal, WriteGeneration, FenceInv, Fence, FirstGeneration,
     NewestDrives, Journaled, OneCurrent, AboutToJournal, Unwritten, OneCancel, Pending,
     SoundRuns, SoundCancels, Driving
<1>CancelUnsignalled. ASSUME NEW c \in Cancels, CancelUnsignalled(c) PROVE FenceInv'
  <2> SUFFICES ASSUME ~degraded' PROVE Fence'
    BY DEF FenceInv
  <2> DEFINE r == cancel[c].rec
  <2>1. /\ UNCHANGED registry /\ Fence
        /\ row' = IF row.state = "none" THEN row ELSE [row EXCEPT !.gen = cancel[c].arg]
    BY <1>CancelUnsignalled DEF CancelUnsignalled, WriteGeneration, FenceInv
  <2>2. /\ r = registry /\ r \in Drives /\ c \in Unwritten(r) /\ cancel[c].arg > 0
        /\ run[r].pc = "reopen" => row.state # "none"
        /\ \A b \in Cancels : b # c => ~Pending(b)
    BY <1>CancelUnsignalled DEF CancelUnsignalled, OneCancel, SoundCancels, Pending,
       Unwritten, Claims
  <2>3. /\ \A e \in Drives : /\ run'[e].pc = run[e].pc /\ run'[e].env = run[e].env
                             /\ run'[e].gen = run[e].gen /\ run'[e].arg = run[e].arg
        /\ \A e \in Drives : Driving(e)' <=> Driving(e)
        /\ \A e \in Drives : Unwritten(e)' = {}
    <3>1. /\ run' = [run EXCEPT ![r] = [run[r] EXCEPT !.state = "CANCELLED",
                                                      !.process = run[r].process]]
          /\ cancel' = [cancel EXCEPT ![c].pc = "write"]
      BY <1>CancelUnsignalled DEF CancelUnsignalled, CancelSettles
    <3>2. \A e \in Drives : /\ run'[e].pc = run[e].pc /\ run'[e].env = run[e].env
                            /\ run'[e].gen = run[e].gen /\ run'[e].arg = run[e].arg
      BY <3>1, <2>2
    <3>3. \A b \in Cancels : cancel'[b].pc # "gen"
      BY <3>1, <2>2 DEF Pending
    <3> QED
      BY <3>2, <3>3 DEF Driving, Unwritten
  <2>4. FirstGeneration'
    BY <2>1, <2>2, <2>3 DEF Fence, FirstGeneration
  <2>5. NewestDrives'
    BY <2>1, <2>2, <2>3 DEF Fence, NewestDrives
  <2>6. Journaled'
    BY <2>1, <2>2, <2>3 DEF Fence, Journaled, AboutToJournal
  <2>7. OneCurrent'
    BY <2>1, <2>2, <2>3 DEF Fence, OneCurrent, AboutToJournal
  <2>8. AboutToJournal'
    BY <2>1, <2>2, <2>3 DEF Fence, AboutToJournal, FirstGeneration
  <2> QED
    BY <2>4, <2>5, <2>6, <2>7, <2>8 DEF Fence
<1>CancelTerminated. ASSUME NEW c \in Cancels, CancelTerminated(c) PROVE FenceInv'
  <2> DEFINE r == cancel[c].rec
  <2>1. UNCHANGED <<row, registry, degraded>> /\ r \in Drives
    BY <1>CancelTerminated DEF CancelTerminated, SoundCancels, Pending
  <2>2. PICK p \in Killed(run[r].process) :
          /\ run' = [run EXCEPT ![r] = [run[r] EXCEPT !.state = "CANCELLED", !.process = p]]
          /\ cancel' = [cancel EXCEPT ![c].pc = "write"] /\ cancel[c].pc = "term"
    BY <1>CancelTerminated DEF CancelTerminated, CancelSettles
  <2>3. /\ \A e \in Drives : /\ run'[e].pc = run[e].pc /\ run'[e].env = run[e].env
                             /\ run'[e].gen = run[e].gen /\ run'[e].arg = run[e].arg
        /\ \A e \in Drives : Driving(e)' <=> Driving(e)
    BY <2>1, <2>2 DEF Driving
  <2>4. \A e \in Drives : Unwritten(e) = {} /\ Unwritten(e)' = {}
    <3>1. \A b \in Cancels : b # c => cancel[b].pc = "idle"
      BY <2>2 DEF OneCancel, Pending
    <3>2. \A b \in Cancels : cancel[b].pc # "gen" /\ cancel'[b].pc # "gen"
      BY <2>2, <3>1
    <3> QED
      BY <3>2 DEF Unwritten
  <2> QED
    BY <2>1, <2>3, <2>4 DEF FenceInv, Fence, FirstGeneration, NewestDrives, Journaled,
       OneCurrent, AboutToJournal
<1>CancelAnswers. ASSUME NEW c \in Cancels, CancelAnswers(c) PROVE FenceInv'
  <2>1. /\ row'.gen = row.gen /\ (row'.state = "none" <=> row.state = "none")
        /\ UNCHANGED <<registry, degraded>>
    BY <1>CancelAnswers DEF CancelAnswers, WriteState
  <2>2. UNCHANGED run /\ cancel' = [cancel EXCEPT ![c] = NoCancel] /\ cancel[c].pc = "write"
    BY <1>CancelAnswers DEF CancelAnswers
  <2>3. \A d \in Drives : Unwritten(d)' = Unwritten(d)
    BY <2>2 DEF Unwritten, NoCancel
  <2>4. \A d \in Drives : \A b \in Unwritten(d) : cancel'[b] = cancel[b]
    BY <2>2 DEF Unwritten
  <2> QED
    BY <2>1, <2>2, <2>3, <2>4 DEF FenceInv, Fence, FirstGeneration, NewestDrives,
       Journaled, OneCurrent, AboutToJournal, Driving
<1>CancelJournaled. ASSUME CancelJournaled PROVE FenceInv'
  BY <1>CancelJournaled DEF CancelJournaled, FenceInv, Fence, FirstGeneration,
     NewestDrives, Journaled, OneCurrent, AboutToJournal, Unwritten, Driving
<1>Crash. ASSUME Crash PROVE FenceInv'
  BY <1>Crash DEF Crash, FenceInv, Fence, FirstGeneration, NewestDrives, Journaled,
     OneCurrent, AboutToJournal, Unwritten, OneCancel, Pending, SoundCancels, NoCancel,
     Driving
<1> QED
  BY <1>Frame, CallFrame, <1>Start, <1>Insert, <1>Resume, <1>Bump, <1>BumpRaises,
     <1>Reopen, <1>Spawn, <1>SpawnRaises, <1>Reap, <1>Timeout, <1>Terminated,
     <1>PersistGeneration, <1>Finalize, <1>Exit, <1>Cancel, <1>CancelSignal,
     <1>CancelUnsignalled, <1>CancelTerminated, <1>CancelAnswers, <1>CancelJournaled,
     <1>Crash DEF Next

\* Every step keeps a COMPLETED row to itself, when resumes wait for the cancels.
LEMMA SettledStep ==
    ASSUME TypeOK, SoundRuns, SoundCancels, Claims, OneCancel, Settled, ~Overtakes, [Next]_vars
    PROVE  Settled'
<1>Frame. ASSUME Frame PROVE Settled'
  BY <1>Frame DEF Frame, Same, Settled, Pending, Driving
<1> USE DEF TypeOK, Run
<1>Start. ASSUME NEW d \in Drives, Start(d) PROVE Settled'
  BY <1>Start DEF Start, Settled
<1>Insert. ASSUME NEW d \in Drives, Insert(d) PROVE Settled'
  BY <1>Insert DEF Insert, Settled, Claims
<1>Resume. ASSUME NEW d \in Drives, Resume(d) PROVE Settled'
  BY <1>Resume DEF Resume, Resumable, Settled
<1>Bump. ASSUME NEW d \in Drives, Bump(d) PROVE Settled'
  BY <1>Bump DEF Bump, Settled, Driving
<1>BumpRaises. ASSUME NEW d \in Drives, BumpRaises(d) PROVE Settled'
  BY <1>BumpRaises DEF BumpRaises, Settled, Driving
<1>Reopen. ASSUME NEW d \in Drives, Reopen(d) PROVE Settled'
  BY <1>Reopen DEF Reopen, WriteState, Settled, Driving
<1>Spawn. ASSUME NEW d \in Drives, Spawn(d) PROVE Settled'
  BY <1>Spawn DEF Spawn, Settled, Driving
<1>SpawnRaises. ASSUME NEW d \in Drives, SpawnRaises(d) PROVE Settled'
  BY <1>SpawnRaises DEF SpawnRaises, Settled, Driving
<1>Reap. ASSUME NEW d \in Drives, Reap(d) PROVE Settled'
  BY <1>Reap DEF Reap, Settled, Pending, Driving
<1>Timeout. ASSUME NEW d \in Drives, Timeout(d) PROVE Settled'
  BY <1>Timeout DEF Timeout, Settled, Driving
<1>Terminated. ASSUME NEW d \in Drives, Terminated(d) PROVE Settled'
  BY <1>Terminated DEF Terminated, Settled, Pending, Driving
<1>PersistGeneration. ASSUME NEW d \in Drives, PersistGeneration(d) PROVE Settled'
  <2>1. row.state # "COMPLETED" /\ row'.state = row.state
    BY <1>PersistGeneration DEF PersistGeneration, Settled, Driving, WriteGeneration
  <2> QED
    BY <2>1 DEF Settled
<1>Finalize. ASSUME NEW d \in Drives, Finalize(d) PROVE Settled'
  <2>1. CASE row'.state = "COMPLETED"
    <3>1. run[d].pc = "final" /\ row.state # "COMPLETED"
      BY <1>Finalize DEF Finalize, Settled, Driving
    <3>2. run[d].state = "COMPLETED" /\ ~run[d].cancelled
      BY <2>1, <3>1, <1>Finalize DEF Finalize, WriteState, SoundRuns
    <3>3. registry = d /\ \A e \in Drives : Driving(e) => e = d
      BY <3>1 DEF Claims, OneDrive, Driving
    <3>4. \A c \in Cancels : ~Pending(c)
      BY <3>2, <3>3 DEF OneCancel, SoundCancels
    <3>5. /\ UNCHANGED cancel
          /\ run' = [run EXCEPT ![d] = [run[d] EXCEPT !.pc = "done"]]
      BY <1>Finalize DEF Finalize
    <3> QED
      BY <3>3, <3>4, <3>5 DEF Settled, Pending, Driving
  <2> QED
    BY <2>1 DEF Settled
<1>Exit. ASSUME NEW d \in Drives, Exit(d) PROVE Settled'
  BY <1>Exit DEF Exit, ScriptOnly, Settled, Pending, Driving
<1>Cancel. ASSUME NEW c \in Cancels, Cancel(c) PROVE Settled'
  BY <1>Cancel DEF Cancel, Settled, Claims, Driving
<1>CancelSignal. ASSUME NEW c \in Cancels, CancelSignal(c) PROVE Settled'
  <2>1. row.state # "COMPLETED" /\ row'.state = row.state
    BY <1>CancelSignal DEF CancelSignal, Settled, Pending, WriteGeneration
  <2> QED
    BY <2>1 DEF Settled
<1>CancelUnsignalled. ASSUME NEW c \in Cancels, CancelUnsignalled(c) PROVE Settled'
  <2>1. row.state # "COMPLETED" /\ row'.state = row.state
    BY <1>CancelUnsignalled DEF CancelUnsignalled, Settled, Pending, WriteGeneration
  <2> QED
    BY <2>1 DEF Settled
<1>CancelTerminated. ASSUME NEW c \in Cancels, CancelTerminated(c) PROVE Settled'
  <2>1. row.state # "COMPLETED" /\ row'.state = row.state
    BY <1>CancelTerminated DEF CancelTerminated, Settled, Pending
  <2> QED
    BY <2>1 DEF Settled
<1>CancelAnswers. ASSUME NEW c \in Cancels, CancelAnswers(c) PROVE Settled'
  BY <1>CancelAnswers DEF CancelAnswers, WriteState, Settled, Pending
<1>CancelJournaled. ASSUME CancelJournaled PROVE Settled'
  BY <1>CancelJournaled DEF CancelJournaled, Settled
<1>Crash. ASSUME Crash PROVE Settled'
  BY <1>Crash DEF Crash, Settled, Pending, NoCancel, Driving
<1> QED
  BY <1>Frame, CallFrame, <1>Start, <1>Insert, <1>Resume, <1>Bump, <1>BumpRaises,
     <1>Reopen, <1>Spawn, <1>SpawnRaises, <1>Reap, <1>Timeout, <1>Terminated,
     <1>PersistGeneration, <1>Finalize, <1>Exit, <1>Cancel, <1>CancelSignal,
     <1>CancelUnsignalled, <1>CancelTerminated, <1>CancelAnswers, <1>CancelJournaled,
     <1>Crash DEF Next

\* A call that waits was sent by a drive, and no other step makes one wait.
LEMMA SentCallsStep ==
    ASSUME TypeOK, SentCalls, [Next]_vars
    PROVE  SentCalls'
<1> USE DEF TypeOK, SentCalls
<1>1. CASE UNCHANGED call
  BY <1>1
<1>2. ASSUME NEW d \in Drives, NEW k \in Calls, NEW s \in Steps, Send(k, d, s)
      PROVE SentCalls'
  BY <1>2 DEF Send
<1>3. ASSUME NEW k \in Calls, Serve(k) PROVE SentCalls'
  BY <1>3 DEF Serve, Answered
<1>4. ASSUME NEW k \in Calls, CreateTerminal(k) PROVE SentCalls'
  BY <1>4 DEF CreateTerminal
<1>5. ASSUME NEW k \in Calls, StepReturns(k) PROVE SentCalls'
  BY <1>5 DEF StepReturns, Answered
<1>6. ASSUME NEW k \in Calls, StepFails(k) PROVE SentCalls'
  BY <1>6 DEF StepFails, Answered
<1>7. CASE Crash
  BY <1>7 DEF Crash, Answered
<1>8. ASSUME NEW d \in Drives,
             \/ Start(d) \/ Resume(d) \/ Exit(d) \/ Insert(d) \/ Bump(d) \/ BumpRaises(d)
             \/ Reopen(d) \/ Spawn(d) \/ SpawnRaises(d) \/ Reap(d) \/ Timeout(d)
             \/ Terminated(d) \/ PersistGeneration(d) \/ Finalize(d)
      PROVE UNCHANGED call
  BY <1>8 DEF Start, Resume, Exit, Insert, Bump, BumpRaises, Reopen, Spawn, SpawnRaises,
              Reap, Timeout, Terminated, PersistGeneration, Finalize
<1>9. ASSUME NEW c \in Cancels,
             \/ Cancel(c) \/ CancelSignal(c) \/ CancelUnsignalled(c) \/ CancelTerminated(c)
             \/ CancelAnswers(c)
      PROVE UNCHANGED call
  BY <1>9 DEF Cancel, CancelSignal, CancelUnsignalled, CancelTerminated, CancelAnswers
<1>10. CASE CancelJournaled
  BY <1>1, <1>10 DEF CancelJournaled
<1> QED
  BY <1>1, <1>2, <1>3, <1>4, <1>5, <1>6, <1>7, <1>8, <1>9, <1>10 DEF Next, vars

-----------------------------------------------------------------------------
(* Whose terminals a sweep takes.                                               *)

\* A terminal is recorded after it was created, in the record its call is bound to;
\* a record that no call can be bound to any more is never registered again.
Recorded ==
    /\ \A k \in terminals : call[k].pc \in {"work", "done"}
    /\ \A k \in Calls : call[k].rec # 0 => run[call[k].rec].pc \notin {"unused", "bump"}
    /\ \A d \in Drives, s \in Steps :
         LET k == run[d].steps[s].term
         IN  k # 0 => /\ call[k].pc \in {"work", "done"}
                      /\ run[d].pc \notin {"unused", "bump"}
                      /\ k \in terminals =>
                           call[k].rec = d \/ (registry # d /\ run[d].pc = "done")

\* The steps of the handlers: no call moves, no terminal is created, no record of a
\* drive that is over is registered.
Quiet ==
    /\ UNCHANGED call /\ terminals' \subseteq terminals
    /\ \A e \in Drives :
         /\ run'[e].steps = run[e].steps
         /\ run[e].pc = "done" => run'[e].pc = "done"
         /\ run'[e].pc \in {"unused", "bump"} => run[e].pc \in {"unused", "bump"}
         /\ registry' = e => registry = e \/ run[e].pc # "done"

\* A handler is quiet.
LEMMA HandlersQuiet ==
    ASSUME TypeOK, SoundCancels,
           \/ \E d \in Drives :
                \/ Start(d) \/ Resume(d) \/ Exit(d) \/ Insert(d) \/ Bump(d) \/ BumpRaises(d)
                \/ Reopen(d) \/ Spawn(d) \/ SpawnRaises(d) \/ Reap(d) \/ Timeout(d)
                \/ Terminated(d) \/ PersistGeneration(d) \/ Finalize(d)
           \/ \E c \in Cancels : \/ Cancel(c) \/ CancelSignal(c) \/ CancelUnsignalled(c)
                                 \/ CancelTerminated(c) \/ CancelAnswers(c)
           \/ CancelJournaled \/ UNCHANGED vars
    PROVE  Quiet
<1> USE DEF TypeOK, Run, Quiet
<1>Start. ASSUME NEW d \in Drives, Start(d) PROVE Quiet
  BY <1>Start DEF Start, Fresh
<1>Resume. ASSUME NEW d \in Drives, Resume(d) PROVE Quiet
  BY <1>Resume DEF Resume, Fresh
<1>Insert. ASSUME NEW d \in Drives, Insert(d) PROVE Quiet
  BY ZenonT(60), <1>Insert DEF Insert
<1>Bump. ASSUME NEW d \in Drives, Bump(d) PROVE Quiet
  BY <1>Bump DEF Bump
<1>BumpRaises. ASSUME NEW d \in Drives, BumpRaises(d) PROVE Quiet
  BY <1>BumpRaises DEF BumpRaises
<1>Reopen. ASSUME NEW d \in Drives, Reopen(d) PROVE Quiet
  BY ZenonT(60), <1>Reopen DEF Reopen
<1>Spawn. ASSUME NEW d \in Drives, Spawn(d) PROVE Quiet
  BY ZenonT(60), <1>Spawn DEF Spawn
<1>Timeout. ASSUME NEW d \in Drives, Timeout(d) PROVE Quiet
  BY <1>Timeout DEF Timeout
<1>PersistGeneration. ASSUME NEW d \in Drives, PersistGeneration(d) PROVE Quiet
  BY ZenonT(60), <1>PersistGeneration DEF PersistGeneration
<1>Finalize. ASSUME NEW d \in Drives, Finalize(d) PROVE Quiet
  BY <1>Finalize DEF Finalize
<1>SpawnRaises. ASSUME NEW d \in Drives, SpawnRaises(d) PROVE Quiet
  <2>1. terminals' \subseteq terminals
    BY <1>SpawnRaises, SweepType DEF SpawnRaises
  <2> QED
    BY ZenonT(60), <1>SpawnRaises, <2>1 DEF SpawnRaises
<1>Reap. ASSUME NEW d \in Drives, Reap(d) PROVE Quiet
  <2>1. terminals' \subseteq terminals
    BY <1>Reap, SweepType DEF Reap
  <2> QED
    BY ZenonT(60), <1>Reap, <2>1 DEF Reap
<1>Terminated. ASSUME NEW d \in Drives, Terminated(d) PROVE Quiet
  <2>1. terminals' \subseteq terminals /\ UNCHANGED <<registry, call>>
    BY <1>Terminated, SweepType DEF Terminated
  <2>2. PICK p :
          run' = [run EXCEPT ![d] = [run[d] EXCEPT !.pc = "tgen", !.process = p,
                       !.gen = Bumped(run[d].gen), !.arg = Bumped(run[d].gen)]]
    BY <1>Terminated DEF Terminated
  <2>3. run[d].pc = "term"
    BY <1>Terminated DEF Terminated
  <2> QED
    BY <2>1, <2>2, <2>3
<1>Exit. ASSUME NEW d \in Drives, Exit(d) PROVE Quiet
  BY <1>Exit DEF Exit, ScriptOnly
<1>Cancel. ASSUME NEW c \in Cancels, Cancel(c) PROVE Quiet
  <2>1. PICK d \in Drives :
          run' = [run EXCEPT ![d] = [run[d] EXCEPT !.cancelled = TRUE,
                                                   !.gen = Bumped(run[d].gen)]]
    BY <1>Cancel DEF Cancel
  <2>2. UNCHANGED <<registry, call, terminals>>
    BY <1>Cancel DEF Cancel
  <2> QED
    BY <2>1, <2>2
<1>7. ASSUME NEW c \in Cancels, CancelUnsignalled(c) \/ CancelTerminated(c) PROVE Quiet
  <2>1. PICK p : CancelSettles(c, p)
    BY <1>7 DEF CancelUnsignalled, CancelTerminated
  <2>2. cancel[c].rec \in Drives /\ UNCHANGED <<call, registry>>
    BY <1>7 DEF CancelUnsignalled, CancelTerminated, SoundCancels, Pending
  <2> QED
    BY <2>1, <2>2, SweepType DEF CancelSettles
<1>8. ASSUME NEW c \in Cancels, CancelSignal(c) \/ CancelAnswers(c) PROVE Quiet
  BY <1>8 DEF CancelSignal, CancelAnswers
<1>9. CASE CancelJournaled \/ UNCHANGED vars
  BY <1>9 DEF CancelJournaled, vars
<1> QED
  BY <1>Start, <1>Resume, <1>Insert, <1>Bump, <1>BumpRaises, <1>Reopen, <1>Spawn,
     <1>Timeout, <1>PersistGeneration, <1>Finalize, <1>SpawnRaises, <1>Reap, <1>Terminated,
     <1>Exit, <1>Cancel, <1>7, <1>8, <1>9

\* What a call writes into the record it is bound to.
LEMMA RecordSteps ==
    ASSUME TypeOK, NEW k \in Calls, NEW st, NEW t, Record(k, st, t)
    PROVE  \A d \in Drives, s \in Steps :
              run'[d].steps[s] = IF d = call[k].rec /\ s = call[k].step
                                 THEN [st |-> st, term |-> t] ELSE run[d].steps[s]
<1>1. CASE call[k].rec = 0
  <2>1. \A d \in Drives : d # 0
    BY DEF Drives
  <2> QED
    BY <1>1, <2>1 DEF Record
<1>2. CASE call[k].rec # 0
  <2> DEFINE r == call[k].rec
             z == call[k].step
             new == [run[r].steps EXCEPT ![z] = [st |-> st, term |-> t]]
  <2>1. r \in Drives /\ z \in Steps
    BY <1>2, ScriptAssumption DEF TypeOK, Drives, ScriptAssumption
  <2>2. run' = [run EXCEPT ![r] = [run[r] EXCEPT !.steps = new]]
    BY <1>2 DEF Record
  <2>3. /\ run \in [Drives -> Run]
        /\ \A s \in Steps : new[s] = IF s = z THEN [st |-> st, term |-> t] ELSE run[r].steps[s]
    BY <2>1 DEF TypeOK, Run
  <2>4. \A d \in Drives : run'[d].steps = IF d = r THEN new ELSE run[d].steps
    BY <2>1, <2>2, <2>3 DEF Run
  <2> QED
    BY <2>1, <2>3, <2>4
<1> QED
  BY <1>1, <1>2

\* Every step keeps the terminals recorded where they belong.
LEMMA RecordedStep ==
    ASSUME TypeOK, SoundCancels, Claims, Recorded, [Next]_vars
    PROVE  Recorded'
<1>0. /\ \A d \in Drives, s \in Steps : run[d].steps[s].term \in 0..MaxCalls
      /\ \A k \in Calls : k # 0 /\ k \in Nat
      /\ \A d \in Drives : d # 0
      /\ \A i \in 0..MaxCalls : i # 0 => i \in Calls
      /\ terminals \subseteq Calls
      /\ \A i \in 0..MaxDrives : i # 0 => i \in Drives
  BY ScriptAssumption DEF TypeOK, Run, Drives, Calls, ScriptAssumption
<1>Quiet. ASSUME Quiet PROVE Recorded'
  <2>1. \A k \in Calls : call[k].rec # 0 => call[k].rec \in Drives
    BY <1>0 DEF TypeOK
  <2> QED
    BY <1>Quiet, <2>1 DEF Quiet, Recorded
<1>Send. ASSUME NEW d \in Drives, NEW k \in Calls, NEW z \in Steps, Send(k, d, z) PROVE Recorded'
  <2>1. /\ call[k].pc = "unused" /\ UNCHANGED <<run, terminals, registry>>
        /\ call'[k].rec = 0 /\ \A j \in Calls \ {k} : call'[j] = call[j]
    BY <1>Send DEF Send, ScriptOnly, NoCall, TypeOK
  <2>2. k \notin terminals /\ \A e \in Drives, s \in Steps : run[e].steps[s].term # k
    BY <1>0, <2>1 DEF Recorded
  <2> QED
    BY <1>0, <2>1, <2>2 DEF Recorded
<1>Serve. ASSUME NEW k \in Calls, Serve(k) PROVE Recorded'
  <2>1. /\ call[k].pc = "sent" /\ UNCHANGED <<run, terminals, registry>>
        /\ call'[k].rec \in {0, registry} /\ \A j \in Calls \ {k} : call'[j] = call[j]
    BY <1>Serve DEF Serve, ScriptOnly, Answered, NoCall, TypeOK
  <2>2. k \notin terminals /\ \A e \in Drives, s \in Steps : run[e].steps[s].term # k
    BY <1>0, <2>1 DEF Recorded
  <2>3. registry # 0 => registry \in Drives /\ run[registry].pc \notin {"unused", "bump"}
    BY <1>0 DEF TypeOK, Claims
  <2> QED
    BY <1>0, <2>1, <2>2, <2>3 DEF Recorded
<1>Same. ASSUME NEW k \in Calls, CreateTerminal(k) \/ StepReturns(k) \/ StepFails(k)
         PROVE  /\ \A d \in Drives : run'[d].pc = run[d].pc
                /\ registry' = registry /\ \A j \in Calls \ {k} : call'[j] = call[j]
                /\ call'[k].rec \in {0, call[k].rec} /\ call'[k].pc \in {"work", "done"}
  <2>1. \A d \in Drives : Same(d)
    BY <1>Same, CallFrame DEF Frame
  <2>2. /\ registry' = registry /\ \A j \in Calls \ {k} : call'[j] = call[j]
        /\ call'[k].rec \in {0, call[k].rec} /\ call'[k].pc \in {"work", "done"}
    <3>1. ASSUME CreateTerminal(k)
          PROVE  /\ registry' = registry /\ \A j \in Calls \ {k} : call'[j] = call[j]
                 /\ call'[k].rec \in {0, call[k].rec} /\ call'[k].pc \in {"work", "done"}
      BY <3>1 DEF CreateTerminal, ScriptOnly, TypeOK
    <3>2. ASSUME StepReturns(k)
          PROVE  /\ registry' = registry /\ \A j \in Calls \ {k} : call'[j] = call[j]
                 /\ call'[k].rec \in {0, call[k].rec} /\ call'[k].pc \in {"work", "done"}
      BY <3>2 DEF StepReturns, ScriptOnly, Answered, NoCall, TypeOK
    <3>3. ASSUME StepFails(k)
          PROVE  /\ registry' = registry /\ \A j \in Calls \ {k} : call'[j] = call[j]
                 /\ call'[k].rec \in {0, call[k].rec} /\ call'[k].pc \in {"work", "done"}
      BY <3>3 DEF StepFails, ScriptOnly, Answered, NoCall, TypeOK
    <3> QED
      BY <1>Same, <3>1, <3>2, <3>3
  <2> QED
    BY <2>1, <2>2 DEF Same
<1>Rec. ASSUME NEW k \in Calls, CreateTerminal(k) \/ StepReturns(k) \/ StepFails(k)
        PROVE  \A j \in Calls : call'[j].rec # 0 => run'[call'[j].rec].pc \notin {"unused", "bump"}
  <2>1. \A j \in Calls : call[j].rec # 0 => call[j].rec \in Drives
    BY <1>0 DEF TypeOK
  <2> QED
    BY <1>Rec, <1>Same, <2>1 DEF Recorded
<1>CreateTerminal. ASSUME NEW k \in Calls, CreateTerminal(k) PROVE Recorded'
  <2>1. /\ call[k].pc = "create" /\ terminals' = terminals \cup {k}
        /\ call'[k].rec = call[k].rec /\ call'[k].pc = "work"
        /\ Record(k, IF Step(k).st = "none" THEN "running" ELSE Step(k).st, k)
    BY <1>CreateTerminal DEF CreateTerminal, TypeOK
  <2>2. k \notin terminals /\ \A e \in Drives, s \in Steps : run[e].steps[s].term # k
    BY <1>0, <2>1 DEF Recorded
  <2>3. \A e \in Drives, s \in Steps :
           \/ run'[e].steps[s].term = k /\ e = call[k].rec
           \/ run'[e].steps[s].term = run[e].steps[s].term
    <3>1. PICK st : Record(k, st, k)
      BY <2>1
    <3>2. \A e \in Drives, s \in Steps :
             run'[e].steps[s] = IF e = call[k].rec /\ s = call[k].step
                                THEN [st |-> st, term |-> k] ELSE run[e].steps[s]
      BY <3>1, RecordSteps
    <3> QED
      BY <3>2
  <2>4. \A e \in Drives, s \in Steps :
           LET j == run'[e].steps[s].term
           IN  j # 0 => /\ call'[j].pc \in {"work", "done"}
                        /\ run'[e].pc \notin {"unused", "bump"}
                        /\ j \in terminals' =>
                              call'[j].rec = e \/ (registry' # e /\ run'[e].pc = "done")
    <3> SUFFICES ASSUME NEW e \in Drives, NEW s \in Steps, NEW j, j = run'[e].steps[s].term, j # 0
                 PROVE  /\ call'[j].pc \in {"work", "done"}
                        /\ run'[e].pc \notin {"unused", "bump"}
                        /\ j \in terminals' =>
                              call'[j].rec = e \/ (registry' # e /\ run'[e].pc = "done")
      OBVIOUS
    <3>1. CASE j = k /\ e = call[k].rec
      BY <1>0, <1>CreateTerminal, <1>Same, <2>1, <3>1 DEF Recorded
    <3>2. CASE j = run[e].steps[s].term
      <4>1. j # k /\ j \in Calls
        BY <1>0, <2>2, <3>2
      <4> QED
        BY <1>CreateTerminal, <1>Same, <2>1, <3>2, <4>1 DEF Recorded
    <3> QED
      BY <2>3, <3>1, <3>2
  <2>5. \A j \in terminals' : call'[j].pc \in {"work", "done"}
    BY <1>0, <1>CreateTerminal, <1>Same, <2>1 DEF Recorded
  <2> QED
    BY <1>CreateTerminal, <1>Rec, <2>4, <2>5 DEF Recorded
<1>Settles. ASSUME NEW k \in Calls, StepReturns(k) \/ StepFails(k) PROVE Recorded'
  <2>1. /\ terminals' \subseteq terminals
        /\ k \in terminals' => call'[k].rec = call[k].rec
    BY <1>Settles DEF StepReturns, StepFails, TypeOK
  <2>2. \A e \in Drives, s \in Steps :
           \/ run'[e].steps[s].term = run[e].steps[s].term
           \/ run'[e].steps[s].term = k /\ k \notin terminals' /\ e = call[k].rec
    <3>1. CASE StepReturns(k)
      <4>1. \A e \in Drives, s \in Steps :
               run'[e].steps[s] = IF e = call[k].rec /\ s = call[k].step
                                  THEN [st |-> "completed", term |-> k] ELSE run[e].steps[s]
        BY <3>1, RecordSteps DEF StepReturns
      <4>2. k \notin terminals'
        BY <3>1 DEF StepReturns
      <4> QED
        BY <4>1, <4>2
    <3>2. CASE StepFails(k) /\ UNCHANGED run
      BY <3>2
    <3>3. CASE Record(k, "failed", Step(k).term)
      <4>1. \A e \in Drives, s \in Steps :
               run'[e].steps[s] = IF e = call[k].rec /\ s = call[k].step
                                  THEN [st |-> "failed", term |-> Step(k).term]
                                  ELSE run[e].steps[s]
        BY <3>3, RecordSteps
      <4> QED
        BY <4>1 DEF Step
    <3> QED
      BY <1>Settles, <3>1, <3>2, <3>3 DEF StepFails
  <2>3. ASSUME NEW e \in Drives, NEW s \in Steps, NEW j, j = run'[e].steps[s].term, j # 0
        PROVE  /\ call'[j].pc \in {"work", "done"}
               /\ run'[e].pc \notin {"unused", "bump"}
               /\ j \in terminals' =>
                     call'[j].rec = e \/ (registry' # e /\ run'[e].pc = "done")
    <3>1. CASE j = run[e].steps[s].term
      <4>1. j \in Calls
        BY <1>0, <2>3, <3>1
      <4> QED
        BY <1>Settles, <1>Same, <2>1, <2>3, <3>1, <4>1 DEF Recorded
    <3>2. CASE j = k /\ k \notin terminals' /\ e = call[k].rec
      BY <1>0, <1>Settles, <1>Same, <3>2 DEF Recorded
    <3> QED
      BY <2>2, <2>3, <3>1, <3>2
  <2>4. \A j \in terminals' : call'[j].pc \in {"work", "done"}
    BY <1>0, <1>Settles, <1>Same, <2>1 DEF Recorded
  <2> QED
    BY <1>Settles, <1>Rec, <2>3, <2>4 DEF Recorded
<1>Crash. ASSUME Crash PROVE Recorded'
  <2>1. /\ registry' = 0 /\ UNCHANGED terminals
        /\ \A d \in Drives : /\ run'[d].steps = run[d].steps
                             /\ run[d].pc = "unused" \/ run'[d].pc = "done"
                             /\ run[d].pc = "unused" => run'[d].pc = "unused"
        /\ \A k \in Calls : call[k].pc # "unused" => call'[k].pc = "done" /\ call'[k].rec = 0
        /\ \A k \in Calls : call[k].pc = "unused" => call'[k] = call[k]
    <3>1. registry' = 0 /\ UNCHANGED terminals
      BY <1>Crash DEF Crash
    <3>2. \A d \in Drives : /\ run'[d].steps = run[d].steps
                            /\ run[d].pc = "unused" \/ run'[d].pc = "done"
                            /\ run[d].pc = "unused" => run'[d].pc = "unused"
      BY <1>Crash DEF Crash, TypeOK, Run
    <3>3. Answered.pc = "done" /\ Answered.rec = 0
      BY DEF Answered, NoCall
    <3>4. \A k \in Calls : call'[k] = IF call[k].pc = "unused" THEN call[k] ELSE Answered
      BY <1>Crash DEF Crash
    <3> QED
      BY <3>1, <3>2, <3>3, <3>4
  <2>2. \A k \in Calls : call[k].rec # 0 => call[k].rec \in Drives
    BY <1>0 DEF TypeOK
  <2>3. \A k \in Calls : call'[k].rec # 0 => run'[call'[k].rec].pc \notin {"unused", "bump"}
    BY <2>1, <2>2 DEF Recorded
  <2>4. \A d \in Drives, s \in Steps :
         LET k == run'[d].steps[s].term
         IN  k # 0 => /\ call'[k].pc \in {"work", "done"}
                      /\ run'[d].pc \notin {"unused", "bump"}
                      /\ k \in terminals' =>
                           call'[k].rec = d \/ (registry' # d /\ run'[d].pc = "done")
    BY <1>0, <2>1 DEF Recorded
  <2>5. \A k \in terminals' : call'[k].pc \in {"work", "done"}
    BY <1>0, <2>1 DEF Recorded
  <2> QED
    BY <2>3, <2>4, <2>5 DEF Recorded
<1> QED
  BY <1>Quiet, HandlersQuiet, <1>Send, <1>Serve, <1>CreateTerminal, <1>Settles, <1>Crash
     DEF Next

\* A sweep takes the terminals of the registered record.
LEMMA SweepIsOwn ==
    ASSUME TypeOK, Recorded, Sweep, NEW k \in terminals \ terminals'
    PROVE  registry \in Drives /\ call[k].rec = registry
<1>1. registry # 0 /\ k \in InFlight(registry)
  BY DEF Sweep
<1>2. registry \in Drives /\ k # 0
  BY <1>1, ScriptAssumption DEF TypeOK, Drives, Calls, ScriptAssumption
<1> QED
  BY <1>1, <1>2 DEF InFlight, Recorded

-----------------------------------------------------------------------------
(* Theorems.                                                                    *)

\* The invariant holds, whatever fails, crashes or overtakes.
THEOREM RunInvariantHolds == Spec => []RunInvariant
<1>1. Init => RunInvariant
  <2> SUFFICES ASSUME Init PROVE RunInvariant
    OBVIOUS
  <2> USE DEF Init
  <2>1. TypeOK
    <3>1. 0 \in 0..MaxDrives /\ 0 \in 0..MaxFaults
      BY ScriptAssumption DEF ScriptAssumption
    <3>2. row \in [state : RunStates \cup {"none"}, gen : Nat]
      OBVIOUS
    <3> QED
      BY <3>1, <3>2, InitialTypes DEF TypeOK
  <2>2. SoundRuns
    BY DEF SoundRuns, Blank
  <2>3. Claims
    <3>1. \A d \in Drives : run[d].pc = "unused" /\ registry # d
      BY DEF Blank, Drives
    <3> QED
      BY <3>1 DEF Claims, OneDrive, Driving
  <2>4. SoundCancels /\ Earned /\ SentCalls
    BY DEF SoundCancels, Pending, NoCancel, Earned, SentCalls, NoCall
  <2> QED
    BY <2>1, <2>2, <2>3, <2>4 DEF RunInvariant
<1>2. RunInvariant /\ [Next]_vars => RunInvariant'
  BY TypeStep, SoundStep, ClaimsStep, SoundCancelsStep, EarnedStep, SentCallsStep
     DEF RunInvariant
<1> QED
  BY <1>1, <1>2, PTL DEF Spec

\* The state of the script tier keeps its types.
THEOREM TypeCorrect == Spec => []TypeOK
<1>1. RunInvariant => TypeOK
  BY DEF RunInvariant
<1> QED
  BY <1>1, RunInvariantHolds, PTL

\* A run_id has one driver: Gate 2 and the claim after it are one step of the
\* loop, and every exit of a drive gives the claim back (_active_drives).
THEOREM DrivenByOne == Spec => []OneDrive
<1>1. RunInvariant => OneDrive
  BY DEF RunInvariant, Claims
<1> QED
  BY <1>1, RunInvariantHolds, PTL

\* A claimed run_id has a driver, so that it can be resumed when that one is done.
THEOREM ClaimIsDriven == Spec => []NoStuckClaim
<1>1. RunInvariant => NoStuckClaim
  BY DEF RunInvariant, Claims, NoStuckClaim
<1> QED
  BY <1>1, RunInvariantHolds, PTL

\* COMPLETED is an exit 0 nobody cancelled, in the records and in the journal.
THEOREM CompletionEarned == Spec => []CompletedIsEarned
<1>1. RunInvariant => CompletedIsEarned
  BY DEF RunInvariant, SoundRuns, Earned, CompletedIsEarned
<1> QED
  BY <1>1, RunInvariantHolds, PTL

\* The invariant of the runs whose client waits for the answer of its cancels.
THEOREM PatientInvariantHolds ==
    ASSUME ~Overtakes
    PROVE  Spec => []PatientInvariant
<1>1. Init => OneCancel /\ FenceInv /\ Settled
  <2> SUFFICES ASSUME Init PROVE OneCancel /\ FenceInv /\ Settled
    OBVIOUS
  <2>1. /\ \A c \in Cancels : cancel[c].pc = "idle"
        /\ \A d \in Drives : run[d].pc = "unused" /\ run[d].env = 0 /\ registry # d
        /\ row.state = "none" /\ row.gen = 0
    BY DEF Init, NoCancel, Blank, Drives
  <2>2. FirstGeneration /\ NewestDrives /\ Journaled /\ OneCurrent /\ AboutToJournal
    BY <2>1 DEF FirstGeneration, NewestDrives, Journaled, OneCurrent, AboutToJournal,
       Driving
  <2> QED
    BY <2>1, <2>2 DEF OneCancel, Pending, FenceInv, Fence, Settled
<1>2. RunInvariant /\ OneCancel /\ FenceInv /\ Settled /\ [Next]_vars
        => OneCancel' /\ FenceInv' /\ Settled'
  BY OneCancelStep, FenceStep, SettledStep DEF RunInvariant
<1> QED
  BY <1>1, <1>2, RunInvariantHolds, PTL DEF Spec, PatientInvariant

\* The run-step route admits the process with the newest generation only
\* (check_generation), as long as no generation was lost.
THEOREM NewestAdmitted ==
    ASSUME ~Overtakes
    PROVE  Spec => FencedOut
<1> DEFINE Newest == \A k \in Calls : Admitted(k) /\ ~degraded =>
                        \A d \in Drives \ {call[k].by} : run[d].env < run[call[k].by].env
<1>1. PatientInvariant /\ [Next]_vars => [Newest]_vars
  <2> SUFFICES ASSUME PatientInvariant, [Next]_vars,
                      NEW k \in Calls, Admitted(k), ~degraded,
                      NEW d \in Drives \ {call[k].by}
               PROVE  run[d].env < run[call[k].by].env
    OBVIOUS
  <2> USE DEF PatientInvariant, RunInvariant, TypeOK
  <2>1. Current(k)
    <3>1. \A j \in Calls, e \in Drives, s \in Steps : ~Send(j, e, s)
      BY DEF Admitted, Send, NoCall
    <3>2. \A j \in Calls : ~CreateTerminal(j) /\ ~StepReturns(j) /\ ~StepFails(j)
      BY DEF Admitted, CreateTerminal, StepReturns, StepFails, Answered
    <3>3. ~Crash
      <4> SUFFICES ASSUME Crash PROVE FALSE
        OBVIOUS
      <4>1. call'[k] = Answered /\ Answered.pc = "done"
        BY DEF Admitted, Crash, Answered, NoCall
      <4> QED
        BY <4>1 DEF Admitted
    <3>4. ~UNCHANGED call
      BY DEF Admitted
    <3>5. \A j \in Calls : Serve(j) => Current(k)
      BY DEF Admitted, Serve, Answered
    <3>6. \A e \in Drives :
            ~ (\/ Start(e) \/ Resume(e) \/ Exit(e) \/ Insert(e) \/ Bump(e) \/ BumpRaises(e)
               \/ Reopen(e) \/ Spawn(e) \/ SpawnRaises(e) \/ Reap(e) \/ Timeout(e)
               \/ Terminated(e) \/ PersistGeneration(e) \/ Finalize(e))
      BY <3>4 DEF Start, Resume, Exit, Insert, Bump, BumpRaises, Reopen, Spawn, SpawnRaises,
                  Reap, Timeout, Terminated, PersistGeneration, Finalize
    <3>7. \A c \in Cancels :
            ~ (\/ Cancel(c) \/ CancelSignal(c) \/ CancelUnsignalled(c) \/ CancelTerminated(c)
               \/ CancelAnswers(c))
      BY <3>4 DEF Cancel, CancelSignal, CancelUnsignalled, CancelTerminated, CancelAnswers
    <3>8. ~CancelJournaled
      BY <3>4 DEF CancelJournaled
    <3> QED
      BY <3>1, <3>2, <3>3, <3>4, <3>5, <3>6, <3>7, <3>8 DEF Next, vars
  <2>2. OneCurrent
    BY DEF FenceInv, Fence
  <2>3. call[k].by \in Drives /\ d \in Drives /\ d # call[k].by
    BY DEF Admitted, SentCalls
  <2>4. row.state # "none" /\ run[call[k].by].env = row.gen
    BY <2>1 DEF Current
  <2>5. run[d].env \in Nat /\ row.gen \in Nat
    BY <2>3 DEF Run
  <2> QED
    BY <2>2, <2>3, <2>4, <2>5 DEF OneCurrent, Drives
<1> QED
  BY <1>1, PatientInvariantHolds, PTL DEF Spec, FencedOut

\* While a resume waits for the answers of the cancels, a terminal goes when its own
\* step returns or in the sweep of the record it was recorded in, cancelled or ended:
\* no late sweep takes the terminals of the resumed run (_reconcile_orphans).
THEOREM SweepsAreOwn ==
    ASSUME ~Overtakes
    PROVE  Spec => SweepSparesOthers
<1> DEFINE Spared == \A k \in terminals \ terminals' :
                        \/ call[k].pc = "work" /\ call'[k].pc = "done"
                        \/ /\ call[k].rec # 0
                           /\ LET r == run'[call[k].rec]
                              IN  r.cancelled \/ r.state \in Terminal \/ r.pc = "tgen"
<1>1. Init => Recorded
  BY DEF Init, Recorded, Blank, NoCall
<1>2. RunInvariant /\ Recorded /\ [Next]_vars => Recorded'
  BY RecordedStep DEF RunInvariant
<1>3. PatientInvariant /\ Recorded /\ [Next]_vars => [Spared]_vars
  <2> SUFFICES ASSUME PatientInvariant, Recorded, [Next]_vars, NEW k \in terminals \ terminals'
               PROVE  \/ call[k].pc = "work" /\ call'[k].pc = "done"
                      \/ /\ call[k].rec # 0
                         /\ LET r == run'[call[k].rec]
                            IN  r.cancelled \/ r.state \in Terminal \/ r.pc = "tgen"
    OBVIOUS
  <2>0. /\ TypeOK /\ Claims /\ SoundCancels /\ OneCancel
        /\ \A d \in Drives : d # 0
        /\ k \in Calls /\ \A d \in Drives : run[d] \in Run
    <3>1. TypeOK /\ Claims /\ SoundCancels /\ OneCancel
      BY DEF PatientInvariant, RunInvariant
    <3>2. k \in Calls /\ \A d \in Drives : run[d] \in Run
      BY <3>1 DEF TypeOK
    <3>3. \A d \in Drives : d # 0
      BY DEF Drives
    <3> QED
      BY <3>1, <3>2, <3>3
  <2>1. ASSUME Sweep, NEW d \in Drives, registry = d,
               run'[d].cancelled \/ run'[d].state \in Terminal \/ run'[d].pc = "tgen"
        PROVE  /\ call[k].rec # 0
               /\ LET r == run'[call[k].rec]
                  IN  r.cancelled \/ r.state \in Terminal \/ r.pc = "tgen"
    BY <2>0, <2>1, SweepIsOwn
  <2>2. ASSUME NEW d \in Drives, SpawnRaises(d) PROVE
           Sweep /\ registry = d /\ run'[d].state \in Terminal
    BY <2>0, <2>2 DEF SpawnRaises, Claims, Driving, TypeOK, Run, Terminal
  <2>3. ASSUME NEW d \in Drives, Reap(d) PROVE
           Sweep /\ registry = d /\ run'[d].state \in Terminal
    BY <2>0, <2>3 DEF Reap, Claims, Driving, TypeOK, Run, Terminal, Outcome
  <2>4. ASSUME NEW d \in Drives, Terminated(d) PROVE
           Sweep /\ registry = d /\ run'[d].pc = "tgen"
    BY <2>0, <2>4 DEF Terminated, Claims, Driving, TypeOK, Run
  <2>5. ASSUME NEW c \in Cancels, CancelUnsignalled(c) \/ CancelTerminated(c)
        PROVE  /\ Sweep /\ cancel[c].rec \in Drives /\ registry = cancel[c].rec
               /\ run'[cancel[c].rec].state \in Terminal
    <3>1. PICK p : CancelSettles(c, p)
      BY <2>5 DEF CancelUnsignalled, CancelTerminated
    <3>2. Pending(c)
      BY <2>5 DEF CancelUnsignalled, CancelTerminated, Pending
    <3>3. cancel[c].rec \in Drives /\ registry = cancel[c].rec
      BY <2>0, <3>2 DEF OneCancel, SoundCancels
    <3> QED
      BY <2>0, <3>1, <3>3 DEF CancelSettles, TypeOK, Run, Terminal
  <2>6. ASSUME NEW j \in Calls, StepReturns(j)
        PROVE  call[k].pc = "work" /\ call'[k].pc = "done"
    <3>1. k = j
      BY <2>6 DEF StepReturns
    <3> QED
      BY <2>0, <2>6, <3>1 DEF StepReturns, Answered, NoCall, TypeOK
  <2>7. ASSUME NEW d \in Drives,
               \/ Start(d) \/ Resume(d) \/ Exit(d) \/ Insert(d) \/ Bump(d) \/ BumpRaises(d)
               \/ Reopen(d) \/ Spawn(d) \/ Timeout(d) \/ PersistGeneration(d) \/ Finalize(d)
               \/ \E j \in Calls, s \in Steps : Send(j, d, s)
        PROVE  FALSE
    BY <2>7 DEF Start, Resume, Exit, Insert, Bump, BumpRaises, Reopen, Spawn, Timeout,
                PersistGeneration, Finalize, Send
  <2>8. ASSUME NEW c \in Cancels, Cancel(c) \/ CancelSignal(c) \/ CancelAnswers(c) PROVE FALSE
    BY <2>8 DEF Cancel, CancelSignal, CancelAnswers
  <2>9. ASSUME NEW j \in Calls, Serve(j) \/ CreateTerminal(j) \/ StepFails(j) PROVE FALSE
    BY <2>9 DEF Serve, CreateTerminal, StepFails
  <2>10. ~Crash /\ ~CancelJournaled /\ ~UNCHANGED vars
    BY DEF Crash, CancelJournaled, vars
  <2> QED
    BY <2>1, <2>2, <2>3, <2>4, <2>5, <2>6, <2>7, <2>8, <2>9, <2>10 DEF Next
<1> QED
  BY <1>1, <1>2, <1>3, RunInvariantHolds, PatientInvariantHolds, PTL DEF Spec, SweepSparesOthers

\* A COMPLETED row stays COMPLETED: no resume, cancel or drive that ends later
\* writes over it (_is_resumable_for_tier, the guards of cancel_script_run).
THEOREM CompletedStays ==
    ASSUME ~Overtakes
    PROVE  Spec => CompletedIsFinal
<1>1. PatientInvariant /\ [Next]_vars
        => [row.state = "COMPLETED" => row'.state = "COMPLETED"]_vars
  <2> SUFFICES ASSUME PatientInvariant, [Next]_vars, row.state = "COMPLETED"
               PROVE  row'.state = "COMPLETED"
    OBVIOUS
  <2>1. CASE UNCHANGED row
    BY <2>1
  <2>2. /\ \A d \in Drives : run[d].pc \in {"unused", "done"}
        /\ \A c \in Cancels : cancel[c].pc = "idle"
    BY DEF PatientInvariant, Settled, Driving, Pending
  <2>3. ASSUME NEW d \in Drives PROVE
           ~ (\/ Start(d) \/ Insert(d) \/ Bump(d) \/ BumpRaises(d) \/ Reopen(d) \/ Spawn(d)
              \/ SpawnRaises(d) \/ Reap(d) \/ Timeout(d) \/ Terminated(d)
              \/ PersistGeneration(d) \/ Finalize(d))
    BY <2>2 DEF Start, Insert, Bump, BumpRaises, Reopen, Spawn, SpawnRaises, Reap, Timeout,
                Terminated, PersistGeneration, Finalize
  <2>4. ASSUME NEW c \in Cancels PROVE
           ~ (CancelSignal(c) \/ CancelUnsignalled(c) \/ CancelTerminated(c) \/ CancelAnswers(c))
    BY <2>2 DEF CancelSignal, CancelUnsignalled, CancelTerminated, CancelAnswers
  <2>5. ~CancelJournaled
    BY DEF CancelJournaled
  <2>6. ASSUME NEW d \in Drives, Resume(d) \/ Exit(d) PROVE UNCHANGED row
    BY <2>6 DEF Resume, Exit, ScriptOnly
  <2>7. ASSUME NEW c \in Cancels, Cancel(c) PROVE UNCHANGED row
    BY <2>7 DEF Cancel
  <2>8. CASE Crash
    BY <2>8 DEF Crash
  <2>9. CASE Frame
    BY <2>9 DEF Frame
  <2> QED
    BY <2>1, <2>3, <2>4, <2>5, <2>6, <2>7, <2>8, <2>9, CallFrame
       DEF Next, PatientInvariant, RunInvariant
<1> QED
  BY <1>1, PatientInvariantHolds, PTL DEF Spec, CompletedIsFinal
=============================================================================
