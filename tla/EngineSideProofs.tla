-------------------------- MODULE EngineSideProofs ---------------------------
(* Theorems about the workflow run engine, for every number of steps, retries,   *)
(* records, lost writes and crashes; and, at the end, about the tooling           *)
(* operations, for every number of operations, readers and slots.                *)
EXTENDS EngineSide, Sequences, TLAPS, WellFoundedInduction

-----------------------------------------------------------------------------
(* The blocks of the drive keep a record a record.                              *)

\* The order First is taken in.
Before == {ss \in Nat \X Nat : ss[1] < ss[2]}

\* First takes the least of a set of numbers.
LEMMA FirstIsLeast ==
    ASSUME NEW S, S \subseteq Nat, S # {}
    PROVE  First(S) \in S /\ \A j \in S : First(S) <= j
<1>1. IsWellFoundedOn(Before, Nat)
  BY NatLessThanWellFounded DEF OpToRel, Before
<1>2. PICK x \in S : \A y \in S : ~(<<y, x>> \in Before)
  BY <1>1, WFMin
<1>3. \A y \in S : x <= y
  <2> SUFFICES ASSUME NEW y \in S PROVE x <= y
    OBVIOUS
  <2>1. x \in Nat /\ y \in Nat
    OBVIOUS
  <2>2. ~(y < x)
    BY <1>2, <2>1 DEF Before
  <2> QED
    BY <2>1, <2>2
<1> QED
  BY <1>3 DEF First

\* Steps are numbers, and 0 stands for none of them.
LEMMA Sizes == N \in Nat \ {0} /\ Idx = 1..N /\ 0 \in 0..N /\ Idx \subseteq 0..N
  BY WorkflowAssumption DEF WorkflowAssumption, Idx

\* The labels of a drive.
LEMMA LabelFacts ==
    /\ "idle" \in Labels /\ "insertRun" \in Labels
    /\ JournalsStep \subseteq Labels /\ JournalsCurrent \subseteq Labels
    /\ JournalsRun \subseteq Labels /\ Agent \subseteq Labels
    /\ "stepRunning" \in Labels /\ "stepSettled" \in Labels
    /\ "stepFailed" \in Labels /\ "skip" \in Labels
    /\ "curRunning" \in Labels /\ "reopenCur" \in Labels
    /\ "engineCur" \in Labels /\ "endCur" \in Labels
    /\ "reopenState" \in Labels /\ "engineRun" \in Labels /\ "endRun" \in Labels
    /\ "agent" \in Labels /\ "reprompt" \in Labels
  BY DEF Labels, JournalsStep, JournalsCurrent, JournalsRun, Agent

\* The states of a run and of a step.
LEMMA StateFacts ==
    /\ "RUNNING" \in RunStates /\ "COMPLETED" \in RunStates
    /\ "FAILED" \in RunStates /\ "CANCELLED" \in RunStates
    /\ "PENDING" \in StepStates /\ "RUNNING" \in StepStates
    /\ "FAILED" \in StepStates /\ "SKIPPED" \in StepStates
    /\ Done \subseteq StepStates /\ "COMPLETED" \in Done
    /\ "COMPLETED_UNVALIDATED" \in Done
  BY DEF RunStates, Terminal, StepStates, Done

\* A new record is a record.
LEMMA BlankType == Blank \in Record
  BY Sizes, LabelFacts, StateFacts DEF Blank, Record

\* Leaving the loop yields a record.
LEMMA SettleType ==
    ASSUME NEW d \in Record, NEW s \in RunStates
    PROVE  Settle(d, s) \in Record
  BY Sizes, LabelFacts DEF Settle, Record

\* Skipping the remaining steps yields a record.
LEMMA SkipType ==
    ASSUME NEW d \in Record, NEW i \in Nat \ {0}
    PROVE  SkipRemaining(d, i) \in Record
<1> DEFINE pending == {j \in i..N : d.steps[j] = "PENDING"}
<1>1. CASE pending = {}
  BY <1>1, SettleType, StateFacts DEF SkipRemaining
<1>2. CASE pending # {}
  <2> DEFINE k == First(pending)
  <2>1. k \in Idx
    BY <1>2, FirstIsLeast, Sizes
  <2>2. SkipRemaining(d, i)
          = [d EXCEPT !.steps[k] = "SKIPPED", !.at = k, !.pc = "skip"]
    BY <1>2 DEF SkipRemaining
  <2> HIDE DEF k
  <2>3. [d.steps EXCEPT ![k] = "SKIPPED"] \in [Idx -> StepStates]
    BY <2>1, StateFacts DEF Record
  <2>4. k \in 0..N /\ "skip" \in Labels
    BY <2>1, Sizes, LabelFacts
  <2> QED
    BY <2>2, <2>3, <2>4 DEF Record
<1> QED
  BY <1>1, <1>2

\* The code after the loop yields a record.
LEMMA FinalizeType ==
    ASSUME NEW d \in Record
    PROVE  Finalize(d) \in Record
  BY SettleType, SkipType, StateFacts DEF Finalize

\* The loop, from any index, yields a record.
LEMMA BoundaryType ==
    ASSUME NEW d \in Record, NEW i \in Nat \ {0}
    PROVE  Boundary(d, i) \in Record
<1> DEFINE rest == {j \in i..N : d.steps[j] \notin Done}
<1>1. CASE d.cancelled /\ i <= N
  BY <1>1, SkipType DEF Boundary
<1>2. CASE ~(d.cancelled /\ i <= N) /\ rest = {}
  BY <1>2, FinalizeType DEF Boundary
<1>3. CASE ~(d.cancelled /\ i <= N) /\ rest # {}
  <2> DEFINE k == First(rest)
  <2>1. k \in Idx
    BY <1>3, FirstIsLeast, Sizes
  <2>2. Boundary(d, i)
          = [d EXCEPT !.steps[k] = "RUNNING", !.cur = k, !.at = k, !.att = 0,
                      !.reprompted = FALSE, !.pc = "stepRunning"]
    BY <1>3 DEF Boundary
  <2> HIDE DEF k
  <2>3. [d.steps EXCEPT ![k] = "RUNNING"] \in [Idx -> StepStates]
    BY <2>1, StateFacts DEF Record
  <2>4. k \in 0..N /\ 0 \in Nat /\ "stepRunning" \in Labels
    BY <2>1, Sizes, LabelFacts
  <2> QED
    BY <2>2, <2>3, <2>4 DEF Record
<1> QED
  BY <1>1, <1>2, <1>3

\* The engine-error branch yields a record.
LEMMA EngineErrorType ==
    ASSUME NEW d \in Record
    PROVE  EngineError(d) \in Record
<1>1. [d.steps EXCEPT ![d.at] = "FAILED"] \in [Idx -> StepStates]
  BY StateFacts DEF Record
<1> QED
  BY <1>1, Sizes, LabelFacts, StateFacts DEF EngineError, Record

\* Settling a step yields a record.
LEMMA SettleStepType ==
    ASSUME NEW d \in Record, NEW s \in StepStates
    PROVE  SettleStep(d, s) \in Record
<1>1. [d.steps EXCEPT ![d.at] = s] \in [Idx -> StepStates]
  BY DEF Record
<1> QED
  BY <1>1, LabelFacts DEF SettleStep, Record

\* The step after the one the drive is at is a loop index.
LEMMA NextIndex ==
    ASSUME NEW d \in Record
    PROVE  d.at + 1 \in Nat \ {0}
  BY Sizes DEF Record

\* The top of the attempt loop yields records.
LEMMA AttemptType ==
    ASSUME NEW d \in Record
    PROVE  Attempt(d) \subseteq Record
<1>1. [d EXCEPT !.att = d.att + 1, !.pc = "agent"] \in Record
  <2>1. d.att + 1 \in Nat
    BY DEF Record
  <2> QED
    BY <2>1, LabelFacts DEF Record
<1>2. Boundary(d, d.at + 1) \in Record
  BY NextIndex, BoundaryType
<1> QED
  BY <1>1, <1>2, EngineErrorType DEF Attempt

\* Collecting the output of a step yields records.
LEMMA CollectType ==
    ASSUME NEW d \in Record
    PROVE  Collect(d) \subseteq Record
<1>1. [d EXCEPT !.reprompted = TRUE, !.pc = "reprompt"] \in Record
  BY LabelFacts DEF Record
<1>2. /\ SettleStep(d, "COMPLETED") \in Record
      /\ SettleStep(d, "COMPLETED_UNVALIDATED") \in Record
  BY SettleStepType, StateFacts
<1> QED
  BY <1>1, <1>2 DEF Collect

\* A failed attempt yields records.
LEMMA ConsumeAttemptType ==
    ASSUME NEW d \in Record
    PROVE  ConsumeAttempt(d) \subseteq Record
<1>1. [d EXCEPT !.steps[d.at] = "FAILED", !.pc = "stepFailed"] \in Record
  <2>1. [d.steps EXCEPT ![d.at] = "FAILED"] \in [Idx -> StepStates]
    BY StateFacts DEF Record
  <2> QED
    BY <2>1, LabelFacts DEF Record
<1> QED
  BY <1>1, AttemptType DEF ConsumeAttempt

\* What on_failure asks for yields a record.
LEMMA AfterFailureType ==
    ASSUME NEW d \in Record
    PROVE  AfterFailure(d) \in Record
<1>1. [d EXCEPT !.state = "FAILED"] \in Record
  BY StateFacts DEF Record
<1> QED
  BY <1>1, NextIndex, BoundaryType, SkipType DEF AfterFailure

\* A journal write is followed by a record.
LEMMA AfterWriteType ==
    ASSUME NEW d \in Record,
           d.pc \in JournalsStep \cup JournalsCurrent \cup {"reopenState"}
    PROVE  AfterWrite(d) \subseteq Record
<1>1. CASE d.pc \in {"reopenState", "stepRunning", "endCur", "engineCur"}
  <2>1. \A l \in Labels : [d EXCEPT !.pc = l] \in Record
    BY DEF Record
  <2> QED
    BY <1>1, <2>1, LabelFacts DEF AfterWrite
<1>2. CASE d.pc = "reopenCur"
  BY <1>2, BoundaryType DEF AfterWrite
<1>3. CASE d.pc = "curRunning"
  BY <1>3, AttemptType DEF AfterWrite
<1>4. CASE d.pc = "stepSettled"
  BY <1>4, BoundaryType, NextIndex DEF AfterWrite
<1>5. CASE d.pc = "stepFailed"
  BY <1>5, AfterFailureType DEF AfterWrite
<1>6. CASE d.pc = "skip"
  BY <1>6, SkipType, NextIndex DEF AfterWrite
<1> QED
  BY <1>1, <1>2, <1>3, <1>4, <1>5, <1>6 DEF JournalsStep, JournalsCurrent

-----------------------------------------------------------------------------
(* Type correctness.                                                            *)

\* Registering a record leaves records where records were.
LEMMA RegisterType ==
    ASSUME TypeOK, NEW r \in Recs, NEW d \in Record, Register(r, d)
    PROVE  run_registry' \in Recs \cup {NoRec} /\ run' \in [Recs -> Record]
  BY BlankType DEF TypeOK, Register

\* The bounds on lost writes and on crashes are numbers.
LEMMA Bounds == MaxDrops \in Nat /\ MaxCrashes \in Nat
  BY WorkflowAssumption DEF WorkflowAssumption

\* The journal stays a journal.
LEMMA JournalWriteType ==
    ASSUME TypeOK, NEW d \in Record, JournalWrite(d)
    PROVE  /\ jrun' \in RunStates \cup {"none"} /\ jcur' \in 0..N
           /\ jstep' \in [Idx -> StepStates \cup {"absent"}]
           /\ drops' \in 0..MaxDrops
<1>1. drops' \in 0..MaxDrops
  BY Bounds DEF JournalWrite, MayDrop, TypeOK
<1>2. jrun' \in RunStates \cup {"none"} /\ jcur' \in 0..N
  BY DEF JournalWrite, TypeOK, Record, journal
<1>3. jstep' \in [Idx -> StepStates \cup {"absent"}]
  <2>1. CASE jstep' = jstep
    BY <2>1 DEF TypeOK
  <2>2. CASE /\ jstep[d.at] # "absent"
             /\ jstep' = [jstep EXCEPT ![d.at] = d.steps[d.at]]
    <3>1. \A i \in Idx : d.steps[i] \in StepStates
      BY DEF Record
    <3> QED
      BY <2>2, <3>1 DEF TypeOK
  <2> QED
    BY <2>1, <2>2 DEF JournalWrite, journal
<1> QED
  BY <1>1, <1>2, <1>3

\* What a status read and a resume take from the journal is a record.
LEMMA RebuiltType ==
    ASSUME TypeOK, jrun # "none", NEW steps \in {Overlaid, Blank.steps}
    PROVE  /\ Rebuilt(steps) \in Record
           /\ [Blank EXCEPT !.steps = ResetUnfinished(steps),
                            !.pc = "reopenState"] \in Record
<1>1. Overlaid \in [Idx -> StepStates] /\ Blank.steps \in [Idx -> StepStates]
  BY StateFacts DEF TypeOK, Overlaid, Blank
<1>2. steps \in [Idx -> StepStates]
  BY <1>1
<1>3. ResetUnfinished(steps) \in [Idx -> StepStates]
  BY <1>2, StateFacts DEF ResetUnfinished
<1>4. jrun \in RunStates /\ jcur \in 0..N
  BY DEF TypeOK
<1> QED
  BY <1>2, <1>3, <1>4, BlankType, LabelFacts DEF Rebuilt, Record

\* Every step of the engine and of its clients preserves the types.
LEMMA TypeStep == TypeOK /\ [Next]_vars => TypeOK'
<1> SUFFICES ASSUME TypeOK, [Next]_vars PROVE TypeOK'
  OBVIOUS
<1>0. \A r \in Recs : run[r] \in Record
  BY DEF TypeOK
<1>1. ASSUME NEW r \in Recs, DriveInsert(r) PROVE TypeOK'
  <2>1. run' \in [Recs -> Record]
    BY <1>0, <1>1, BoundaryType DEF DriveInsert, TypeOK
  <2>2. drops' \in 0..MaxDrops
    BY <1>1, Bounds DEF DriveInsert, MayDrop, TypeOK
  <2>3. /\ jrun' \in RunStates \cup {"none"} /\ jcur' \in 0..N
        /\ jstep' \in [Idx -> StepStates \cup {"absent"}]
    BY <1>1, Sizes, StateFacts DEF DriveInsert, TypeOK, journal
  <2> QED
    BY <1>1, <2>1, <2>2, <2>3 DEF DriveInsert, TypeOK
<1>2. ASSUME NEW r \in Recs, DriveJournal(r) PROVE TypeOK'
  <2>1. AfterWrite(run[r]) \subseteq Record
    BY <1>0, <1>2, AfterWriteType DEF DriveJournal
  <2>2. run' \in [Recs -> Record]
    BY <1>2, <2>1 DEF DriveJournal, TypeOK
  <2> QED
    BY <1>0, <1>2, <2>2, JournalWriteType DEF DriveJournal, TypeOK
<1>3. ASSUME NEW r \in Recs, DriveAgent(r) PROVE TypeOK'
  <2>1. /\ Collect(run[r]) \subseteq Record
        /\ ConsumeAttempt(run[r]) \subseteq Record
        /\ SettleStep(run[r], "SKIPPED") \in Record
    BY <1>0, CollectType, ConsumeAttemptType, SettleStepType, StateFacts
  <2>2. run' \in [Recs -> Record]
    BY <1>3, <2>1 DEF DriveAgent, TypeOK
  <2> QED
    BY <1>3, <2>2 DEF DriveAgent, TypeOK, journal
<1>4. ASSUME NEW r \in Recs, DriveEnd(r) PROVE TypeOK'
  <2>1. [run[r] EXCEPT !.pc = "idle"] \in Record
    BY <1>0, LabelFacts DEF Record
  <2>2. run' \in [Recs -> Record]
    BY <1>4, <2>1 DEF DriveEnd, TypeOK
  <2> QED
    BY <1>0, <1>4, <2>2, JournalWriteType DEF DriveEnd, TypeOK
<1>5. ASSUME NEW r \in Recs, DriveStray(r) PROVE TypeOK'
  <2>1. [run[r] EXCEPT !.pc = "idle"] \in Record
    BY <1>0, LabelFacts DEF Record
  <2>2. run' \in [Recs -> Record]
    BY <1>5, <2>1 DEF DriveStray, TypeOK
  <2> QED
    BY <1>5, <2>2 DEF DriveStray, TypeOK, journal
<1>6. ASSUME NEW r \in Recs, Start(r) PROVE TypeOK'
  <2>1. [Blank EXCEPT !.pc = "insertRun"] \in Record
    BY BlankType, LabelFacts DEF Record
  <2>2. drops' \in 0..MaxDrops
    BY <1>6, Bounds DEF Start, RunIdAvailable, MayMisread, MayDrop, TypeOK
  <2> QED
    BY <1>6, <2>1, <2>2, RegisterType DEF Start, TypeOK, journal
<1>7. ASSUME NEW r \in Recs, StatusRead(r) PROVE TypeOK'
  <2>1. drops' \in 0..MaxDrops
    BY <1>7, Bounds DEF StatusRead, ReadSteps, MayMisread, MayDrop, TypeOK
  <2>2. run_registry' \in Recs \cup {NoRec} /\ run' \in [Recs -> Record]
    BY <1>7, RebuiltType, RegisterType DEF StatusRead
  <2> QED
    BY <1>7, <2>1, <2>2 DEF StatusRead, TypeOK, journal
<1>8. ASSUME NEW r \in Recs, Resume(r) PROVE TypeOK'
  <2>1. drops' \in 0..MaxDrops
    BY <1>8, Bounds DEF Resume, ReadSteps, MayMisread, MayDrop, TypeOK
  <2>2. run_registry' \in Recs \cup {NoRec} /\ run' \in [Recs -> Record]
    BY <1>8, RebuiltType, RegisterType DEF Resume, Resumable
  <2> QED
    BY <1>8, <2>1, <2>2 DEF Resume, TypeOK, journal
<1>9. CASE Cancel
  <2>1. \A r \in Recs : [run[r] EXCEPT !.cancelled = TRUE] \in Record
    BY <1>0 DEF Record
  <2>2. run' \in [Recs -> Record]
    BY <1>9, <2>1 DEF Cancel, TypeOK
  <2> QED
    BY <1>9, <2>2 DEF Cancel, TypeOK, journal
<1>10. CASE CancelJournaled
  BY <1>10, StateFacts DEF CancelJournaled, TypeOK
<1>11. CASE Crash
  <2>1. crashes' \in 0..MaxCrashes
    BY <1>11, Bounds DEF Crash, TypeOK
  <2> QED
    BY <1>11, <2>1, BlankType DEF Crash, TypeOK, journal
<1>12. CASE UNCHANGED vars
  BY <1>12 DEF vars, TypeOK
<1> QED
  BY <1>1, <1>2, <1>3, <1>4, <1>5, <1>6, <1>7, <1>8, <1>9, <1>10, <1>11, <1>12
     DEF Next

\* The engine starts with no record and an empty journal.
LEMMA InitType == Init => TypeOK
<1> SUFFICES ASSUME Init PROVE TypeOK
  OBVIOUS
<1>1. run \in [Recs -> Record]
  BY BlankType DEF Init
<1>2. drops \in 0..MaxDrops /\ crashes \in 0..MaxCrashes
  BY Bounds DEF Init
<1>3. jstep \in [Idx -> StepStates \cup {"absent"}] /\ jcur \in 0..N
  BY Sizes DEF Init
<1> QED
  BY <1>1, <1>2, <1>3 DEF Init, TypeOK

\* Type correctness of the engine: whatever is lost, misread or crashed, the
\* registry, the records and the journal stay what _drive and its clients assume.
THEOREM TypeCorrect == Spec => []TypeOK
  BY InitType, TypeStep, PTL DEF Spec

-----------------------------------------------------------------------------
(* The blocks of the drive keep a record sound.                                 *)

\* Clearing the current step and leaving the loop.
LEMMA SettleSound ==
    ASSUME NEW d \in Record, NEW s \in Terminal,
           d.cancelled => s # "COMPLETED",
           \A k \in Idx : d.steps[k] # "PENDING"
    PROVE  Sound(Settle(d, s))
<1> DEFINE e == Settle(d, s)
<1>1. /\ e.state = s /\ e.cancelled = d.cancelled
      /\ e.pc = "endCur" /\ e.steps = d.steps
  BY DEF Settle, Record
<1> QED
  BY <1>1 DEF Sound, Ending, EngineEnding, Stepping, Agent

\* Skipping: everything before i is dealt with, and so is what is skipped.
LEMMA SkipSound ==
    ASSUME NEW d \in Record, NEW i \in Nat \ {0},
           d.cancelled => d.state # "COMPLETED",
           \A k \in Idx : k < i => d.steps[k] # "PENDING"
    PROVE  Sound(SkipRemaining(d, i))
<1> DEFINE pending == {j \in i..N : d.steps[j] = "PENDING"}
<1>1. CASE pending = {}
  <2>1. \A k \in Idx : d.steps[k] # "PENDING"
    BY <1>1, Sizes
  <2>2. SkipRemaining(d, i)
          = Settle(d, IF d.state = "FAILED" THEN "FAILED" ELSE "CANCELLED")
    BY <1>1 DEF SkipRemaining
  <2> QED
    BY <2>1, <2>2, SettleSound DEF Terminal
<1>2. CASE pending # {}
  <2> DEFINE k == First(pending)
             e == SkipRemaining(d, i)
  <2>1. k \in Idx /\ k \in pending /\ \A j \in pending : k <= j
    BY <1>2, FirstIsLeast, Sizes
  <2>2. e = [d EXCEPT !.steps[k] = "SKIPPED", !.at = k, !.pc = "skip"]
    BY <1>2 DEF SkipRemaining
  <2> HIDE DEF k, e
  <2>3. /\ e.state = d.state /\ e.cancelled = d.cancelled /\ e.at = k
        /\ e.pc = "skip" /\ e.steps = [d.steps EXCEPT ![k] = "SKIPPED"]
    BY <2>2 DEF Record
  <2>4. \A j \in 1..k : e.steps[j] # "PENDING"
    <3> SUFFICES ASSUME NEW j \in 1..k PROVE e.steps[j] # "PENDING"
      OBVIOUS
    <3>1. j \in Idx
      BY <2>1, Sizes
    <3>2. j < i \/ j = k \/ ~(j \in pending)
      BY <2>1, <3>1, Sizes
    <3>3. j \notin pending => j < i \/ d.steps[j] # "PENDING"
      BY <3>1, Sizes
    <3> QED
      BY <2>1, <2>3, <3>1, <3>2, <3>3 DEF Record
  <2> QED
    BY <2>1, <2>3, <2>4 DEF Sound, Ending, EngineEnding, Stepping, Agent, e
<1> QED
  BY <1>1, <1>2

\* The code after the loop.
LEMMA FinalizeSound ==
    ASSUME NEW d \in Record, d.cancelled => d.state # "COMPLETED",
           \A k \in Idx : d.steps[k] # "PENDING"
    PROVE  Sound(Finalize(d))
<1>1. CASE d.cancelled
  BY <1>1, SkipSound DEF Finalize
<1>2. CASE ~d.cancelled
  BY <1>2, SettleSound DEF Finalize, Terminal
<1> QED
  BY <1>1, <1>2

\* The loop from index i, when no step before i is PENDING and, unless the run is
\* cancelled, each of them is settled.
LEMMA BoundarySound ==
    ASSUME NEW d \in Record, NEW i \in Nat \ {0},
           d.cancelled => d.state # "COMPLETED",
           \A k \in Idx : k < i => d.steps[k] # "PENDING",
           d.cancelled \/ \A k \in Idx : k < i => Settled(d, k)
    PROVE  Sound(Boundary(d, i))
<1> DEFINE rest == {j \in i..N : d.steps[j] \notin Done}
<1>1. CASE d.cancelled /\ i <= N
  BY <1>1, SkipSound DEF Boundary
<1>2. CASE ~(d.cancelled /\ i <= N) /\ rest = {}
  <2>1. \A k \in Idx : d.steps[k] # "PENDING"
    <3> SUFFICES ASSUME NEW k \in Idx PROVE d.steps[k] # "PENDING"
      OBVIOUS
    <3>1. k < i \/ d.steps[k] \in Done
      BY <1>2, Sizes
    <3> QED
      BY <3>1 DEF Done
  <2> QED
    BY <1>2, <2>1, FinalizeSound DEF Boundary
<1>3. CASE ~(d.cancelled /\ i <= N) /\ rest # {}
  <2> DEFINE k == First(rest)
             e == Boundary(d, i)
  <2>1. k \in Idx /\ k \in rest /\ \A j \in rest : k <= j
    <3>1. rest \subseteq Nat /\ rest \subseteq Idx
      BY Sizes
    <3> HIDE DEF rest
    <3> QED
      BY <1>3, <3>1, FirstIsLeast
  <2>2. e = [d EXCEPT !.steps[k] = "RUNNING", !.cur = k, !.at = k, !.att = 0,
                      !.reprompted = FALSE, !.pc = "stepRunning"]
    BY <1>3 DEF Boundary
  <2>3. ~d.cancelled
    BY <1>3, <2>1, Sizes
  <2> HIDE DEF k, e
  <2>4. /\ e.state = d.state /\ e.cancelled = d.cancelled /\ e.at = k
        /\ e.pc = "stepRunning" /\ e.steps = [d.steps EXCEPT ![k] = "RUNNING"]
    BY <2>2 DEF Record
  <2>5. e.steps[k] = "RUNNING" /\ \A j \in Idx \ {k} : e.steps[j] = d.steps[j]
    BY <2>1, <2>4 DEF Record
  <2>6. \A j \in 1..(k - 1) : Settled(e, j)
    <3> SUFFICES ASSUME NEW j \in 1..(k - 1) PROVE Settled(e, j)
      OBVIOUS
    <3>1. j \in Idx \ {k} /\ j < k
      BY <2>1, Sizes
    <3>2. j < i \/ d.steps[j] \in Done
      BY <2>1, <3>1, Sizes
    <3>3. Settled(d, j)
      BY <2>3, <3>1, <3>2 DEF Settled
    <3> QED
      BY <2>5, <3>1, <3>3 DEF Settled
  <2> QED
    BY <2>1, <2>3, <2>4, <2>5, <2>6 DEF Sound, Ending, EngineEnding, Stepping, Agent, e
<1> QED
  BY <1>1, <1>2, <1>3

\* What is known of the steps up to the one a drive is at.
LEMMA StepFacts ==
    ASSUME NEW d \in Record, Sound(d), d.pc \in Stepping
    PROVE  /\ d.at \in Idx /\ d.at + 1 \in Nat \ {0}
           /\ d.cancelled => d.state # "COMPLETED"
           /\ d.steps[d.at] # "PENDING"
           /\ \A k \in Idx : k < d.at => Settled(d, k)
           /\ \A k \in Idx : k < d.at + 1 => d.steps[k] # "PENDING"
<1>1. /\ d.at \in Idx
      /\ d.cancelled => d.state # "COMPLETED"
      /\ d.steps[d.at] # "PENDING"
      /\ \A k \in 1..(d.at - 1) : Settled(d, k)
  BY DEF Sound
<1>2. \A k \in Idx : k < d.at => Settled(d, k)
  BY <1>1, Sizes
<1>3. \A k \in Idx : k < d.at + 1 => d.steps[k] # "PENDING"
  <2> SUFFICES ASSUME NEW k \in Idx, k < d.at + 1 PROVE d.steps[k] # "PENDING"
    OBVIOUS
  <2>1. k < d.at \/ k = d.at
    BY <1>1, Sizes
  <2> QED
    BY <1>1, <1>2, <2>1 DEF Settled, Done
<1> QED
  BY <1>1, <1>2, <1>3, Sizes

\* What the record becomes while its agent has not settled the step.
LEMMA AgentSound ==
    ASSUME NEW d \in Record, Sound(d), d.pc \in {"curRunning"} \cup Agent,
           NEW n \in Nat, NEW b \in BOOLEAN
    PROVE  /\ Sound([d EXCEPT !.att = n, !.pc = "agent"])
           /\ Sound([d EXCEPT !.reprompted = b, !.pc = "reprompt"])
<1>1. d.pc \in Stepping
  BY DEF Stepping
<1> DEFINE e == [d EXCEPT !.att = n, !.pc = "agent"]
           f == [d EXCEPT !.reprompted = b, !.pc = "reprompt"]
<1>2. /\ e.state = d.state /\ e.cancelled = d.cancelled /\ e.at = d.at
      /\ e.pc = "agent" /\ e.steps = d.steps
  BY DEF Record
<1>3. /\ f.state = d.state /\ f.cancelled = d.cancelled /\ f.at = d.at
      /\ f.pc = "reprompt" /\ f.steps = d.steps
  BY DEF Record
<1> HIDE DEF e, f
<1>4. Sound(e)
  BY <1>1, <1>2 DEF Sound, Settled, Stepping, Agent, Ending, EngineEnding
<1>5. Sound(f)
  BY <1>1, <1>3 DEF Sound, Settled, Stepping, Agent, Ending, EngineEnding
<1> QED
  BY <1>4, <1>5 DEF e, f

\* Settling the step the drive is at, done or skipped by a cancel or failed.
LEMMA SettleStepSound ==
    ASSUME NEW d \in Record, Sound(d), d.pc \in Stepping,
           NEW s \in StepStates \ {"PENDING"}, NEW l \in {"stepSettled", "stepFailed"},
           l = "stepSettled" => d.cancelled \/ s \in Done,
           l = "stepFailed" => s = "FAILED"
    PROVE  Sound([d EXCEPT !.steps[d.at] = s, !.pc = l])
<1> DEFINE e == [d EXCEPT !.steps[d.at] = s, !.pc = l]
<1>1. d.at \in Idx /\ \A k \in Idx : k < d.at => Settled(d, k)
  BY StepFacts
<1>2. /\ e.state = d.state /\ e.cancelled = d.cancelled /\ e.at = d.at
      /\ e.pc = l /\ e.steps = [d.steps EXCEPT ![d.at] = s]
  BY DEF Record
<1> HIDE DEF e
<1>3. e.steps[d.at] = s /\ \A k \in Idx \ {d.at} : e.steps[k] = d.steps[k]
  BY <1>1, <1>2 DEF Record
<1>4. \A k \in 1..(e.at - 1) : Settled(e, k)
  <2> SUFFICES ASSUME NEW k \in 1..(e.at - 1) PROVE Settled(e, k)
    OBVIOUS
  <2>1. k \in Idx \ {d.at} /\ k < d.at
    BY <1>1, <1>2, Sizes
  <2> QED
    BY <1>1, <1>3, <2>1 DEF Settled
<1>5. e.cancelled => e.state # "COMPLETED"
  BY <1>2 DEF Sound
<1>6. Sound(e)
  BY <1>1, <1>2, <1>3, <1>4, <1>5 DEF Sound, Stepping, Agent, Ending, EngineEnding
<1> QED
  BY <1>6 DEF e

\* The engine's own error ends the run FAILED.
LEMMA EngineErrorSound ==
    ASSUME NEW d \in Record
    PROVE  Sound(EngineError(d))
<1> DEFINE e == EngineError(d)
<1>1. e.state = "FAILED" /\ e.pc = "engineCur"
  BY DEF EngineError, Record
<1> QED
  BY <1>1 DEF Sound, Stepping, Agent, Ending, EngineEnding, Terminal

\* The top of the attempt loop.
LEMMA AttemptSound ==
    ASSUME NEW d \in Record, Sound(d), d.pc \in {"curRunning"} \cup Agent,
           NEW e \in Attempt(d)
    PROVE  Sound(e)
<1>1. d.pc \in Stepping
  BY DEF Stepping
<1>2. CASE d.cancelled
  <2>1. Sound(Boundary(d, d.at + 1))
    BY <1>1, <1>2, StepFacts, BoundarySound
  <2> QED
    BY <1>2, <2>1 DEF Attempt
<1>3. CASE ~d.cancelled
  <2>1. d.att + 1 \in Nat
    BY DEF Record
  <2>2. Sound([d EXCEPT !.att = d.att + 1, !.pc = "agent"])
    BY <2>1, AgentSound
  <2> QED
    BY <1>3, <2>2, EngineErrorSound DEF Attempt
<1> QED
  BY <1>2, <1>3

\* run_agent_step returned.
LEMMA CollectSound ==
    ASSUME NEW d \in Record, Sound(d), d.pc \in Agent, NEW e \in Collect(d)
    PROVE  Sound(e)
<1>1. d.pc \in Stepping
  BY DEF Stepping
<1>2. \A s \in Done : Sound(SettleStep(d, s))
  <2>1. Done \subseteq StepStates \ {"PENDING"}
    BY DEF Done, StepStates
  <2> QED
    BY <1>1, <2>1, SettleStepSound DEF SettleStep
<1>3. Sound([d EXCEPT !.reprompted = TRUE, !.pc = "reprompt"])
  BY AgentSound
<1> QED
  BY <1>2, <1>3, StateFacts DEF Collect

\* A failed attempt.
LEMMA ConsumeAttemptSound ==
    ASSUME NEW d \in Record, Sound(d), d.pc \in Agent, NEW e \in ConsumeAttempt(d)
    PROVE  Sound(e)
<1>1. d.pc \in Stepping
  BY DEF Stepping
<1>2. Sound([d EXCEPT !.steps[d.at] = "FAILED", !.pc = "stepFailed"])
  BY <1>1, SettleStepSound, StateFacts
<1> QED
  BY <1>2, AttemptSound DEF ConsumeAttempt

\* A failed step, once journaled.
LEMMA AfterFailureSound ==
    ASSUME NEW d \in Record, Sound(d), d.pc = "stepFailed"
    PROVE  Sound(AfterFailure(d))
<1>1. d.pc \in Stepping /\ d.steps[d.at] = "FAILED"
  BY DEF Stepping, Sound
<1>2. CASE d.at \in ContinueOnFailure
  <2>1. \A k \in Idx : k < d.at + 1 => Settled(d, k)
    <3> SUFFICES ASSUME NEW k \in Idx, k < d.at + 1 PROVE Settled(d, k)
      OBVIOUS
    <3>1. k < d.at \/ k = d.at
      BY <1>1, StepFacts, Sizes
    <3> QED
      BY <1>1, <1>2, <3>1, StepFacts DEF Settled
  <2> QED
    BY <1>1, <1>2, <2>1, StepFacts, BoundarySound DEF AfterFailure
<1>3. CASE d.at \notin ContinueOnFailure
  <2> DEFINE e == [d EXCEPT !.state = "FAILED"]
  <2>1. e \in Record /\ e.state = "FAILED" /\ e.steps = d.steps
    BY StateFacts DEF Record
  <2> HIDE DEF e
  <2>2. Sound(SkipRemaining(e, d.at + 1))
    BY <1>1, <2>1, StepFacts, SkipSound
  <2> QED
    BY <1>3, <2>2 DEF AfterFailure, e
<1> QED
  BY <1>2, <1>3

\* The block after a journal write.
LEMMA AfterWriteSound ==
    ASSUME NEW d \in Record, Sound(d),
           d.pc \in JournalsStep \cup JournalsCurrent \cup {"reopenState"},
           NEW e \in AfterWrite(d)
    PROVE  Sound(e)
<1> USE DEF Stepping, Agent, Ending, EngineEnding
<1>0. \A l \in Labels :
         LET f == [d EXCEPT !.pc = l]
         IN  /\ f.state = d.state /\ f.cancelled = d.cancelled /\ f.at = d.at
             /\ f.pc = l /\ f.steps = d.steps
  BY DEF Record
<1>1. CASE d.pc = "reopenState"
  <2>1. Sound([d EXCEPT !.pc = "reopenCur"])
    BY <1>0, <1>1, LabelFacts DEF Sound
  <2> QED
    BY <1>1, <2>1 DEF AfterWrite
<1>2. CASE d.pc = "reopenCur"
  <2>1. d.cancelled => d.state # "COMPLETED"
    BY DEF Sound
  <2>2. Sound(Boundary(d, 1))
    BY <2>1, Sizes, BoundarySound
  <2> QED
    BY <1>2, <2>2 DEF AfterWrite
<1>3. CASE d.pc = "stepRunning"
  <2>1. Sound([d EXCEPT !.pc = "curRunning"])
    BY <1>0, <1>3, LabelFacts DEF Sound, Settled
  <2> QED
    BY <1>3, <2>1 DEF AfterWrite
<1>4. CASE d.pc = "curRunning"
  BY <1>4, AttemptSound DEF AfterWrite
<1>5. CASE d.pc = "stepSettled"
  <2>1. d.cancelled \/ \A k \in Idx : k < d.at + 1 => Settled(d, k)
    <3>1. \A k \in Idx : k < d.at + 1 => k < d.at \/ k = d.at
      BY <1>5, StepFacts, Sizes
    <3>2. d.cancelled \/ Settled(d, d.at)
      BY <1>5 DEF Sound, Settled
    <3> QED
      BY <1>5, <3>1, <3>2, StepFacts
  <2>2. Sound(Boundary(d, d.at + 1))
    BY <1>5, <2>1, StepFacts, BoundarySound
  <2> QED
    BY <1>5, <2>2 DEF AfterWrite
<1>6. CASE d.pc = "stepFailed"
  BY <1>6, AfterFailureSound DEF AfterWrite
<1>7. CASE d.pc = "skip"
  <2>1. d.at \in Idx /\ \A k \in 1..d.at : d.steps[k] # "PENDING"
    BY <1>7 DEF Sound
  <2>2. d.at + 1 \in Nat \ {0} /\ \A k \in Idx : k < d.at + 1 => d.steps[k] # "PENDING"
    BY <2>1, Sizes
  <2>3. d.cancelled => d.state # "COMPLETED"
    BY DEF Sound
  <2>4. Sound(SkipRemaining(d, d.at + 1))
    BY <2>2, <2>3, SkipSound
  <2> QED
    BY <1>7, <2>4 DEF AfterWrite
<1>8. CASE d.pc = "endCur"
  <2>1. Sound([d EXCEPT !.pc = "endRun"])
    BY <1>0, <1>8, LabelFacts DEF Sound
  <2> QED
    BY <1>8, <2>1 DEF AfterWrite
<1>9. CASE d.pc = "engineCur"
  <2>1. Sound([d EXCEPT !.pc = "engineRun"])
    BY <1>0, <1>9, LabelFacts DEF Sound
  <2> QED
    BY <1>9, <2>1 DEF AfterWrite
<1> QED
  BY <1>1, <1>2, <1>3, <1>4, <1>5, <1>6, <1>7, <1>8, <1>9
     DEF JournalsStep, JournalsCurrent

\* A record that no drive runs, or is about to, is sound.
LEMMA FreshSound ==
    ASSUME NEW steps
    PROVE  /\ Sound(Blank) /\ Sound(Rebuilt(steps))
           /\ Sound([Blank EXCEPT !.pc = "insertRun"])
           /\ Sound([Blank EXCEPT !.steps = steps, !.pc = "reopenState"])
  BY DEF Sound, Blank, Rebuilt, Stepping, Agent, Ending, EngineEnding

-----------------------------------------------------------------------------
(* The inductive invariant.                                                     *)

\* Sound records stay sound.
LEMMA SoundStep == TypeOK /\ SoundRecords /\ [Next]_vars => SoundRecords'
<1> SUFFICES ASSUME TypeOK, SoundRecords, [Next]_vars,
                    NEW q \in Recs
             PROVE  Sound(run'[q])
  BY DEF SoundRecords
<1>0. run[q] \in Record /\ Sound(run[q]) /\ Sound(Blank) /\ DOMAIN run = Recs
  BY FreshSound DEF TypeOK, SoundRecords
<1>1. ASSUME NEW r \in Recs, DriveInsert(r) PROVE Sound(run'[q])
  <2>1. run[r] \in Record /\ Sound(run[r])
    BY DEF TypeOK, SoundRecords
  <2>2. run[r].cancelled => run[r].state # "COMPLETED"
    BY <2>1 DEF Sound
  <2>3. Sound(Boundary(run[r], 1))
    BY <2>1, <2>2, Sizes, BoundarySound
  <2> QED
    BY <1>0, <1>1, <2>3 DEF DriveInsert
<1>2. ASSUME NEW r \in Recs, DriveJournal(r) PROVE Sound(run'[q])
  <2>1. run[r] \in Record /\ Sound(run[r])
    BY DEF TypeOK, SoundRecords
  <2>2. \A d \in AfterWrite(run[r]) : Sound(d)
    BY <1>2, <2>1, AfterWriteSound DEF DriveJournal
  <2> QED
    BY <1>0, <1>2, <2>2 DEF DriveJournal
<1>3. ASSUME NEW r \in Recs, DriveAgent(r) PROVE Sound(run'[q])
  <2>1. run[r] \in Record /\ Sound(run[r]) /\ run[r].pc \in Agent
    BY <1>3 DEF TypeOK, SoundRecords, DriveAgent
  <2>2. \A d \in Collect(run[r]) \cup ConsumeAttempt(run[r]) : Sound(d)
    BY <2>1, CollectSound, ConsumeAttemptSound
  <2>3. run[r].cancelled => Sound(SettleStep(run[r], "SKIPPED"))
    BY <2>1, SettleStepSound, StateFacts DEF SettleStep, Stepping
  <2> QED
    BY <1>0, <1>3, <2>2, <2>3 DEF DriveAgent
<1>4. ASSUME NEW r \in Recs, DriveEnd(r) \/ DriveStray(r) PROVE Sound(run'[q])
  <2> DEFINE d == [run[r] EXCEPT !.pc = "idle"]
  <2>1. d.cancelled = run[r].cancelled /\ d.state = run[r].state /\ d.pc = "idle"
    BY DEF TypeOK, Record
  <2> HIDE DEF d
  <2>2. Sound(d)
    BY <2>1 DEF Sound, SoundRecords, Stepping, Agent, Ending, EngineEnding
  <2> QED
    BY <1>0, <1>4, <2>2 DEF DriveEnd, DriveStray, d
<1>5. ASSUME NEW r \in Recs, Start(r) PROVE Sound(run'[q])
  <2>1. Sound([Blank EXCEPT !.pc = "insertRun"])
    BY FreshSound
  <2> QED
    BY <1>0, <1>5, <2>1 DEF Start, Register
<1>6. ASSUME NEW r \in Recs, StatusRead(r) PROVE Sound(run'[q])
  <2>1. PICK steps : Register(r, Rebuilt(steps))
    BY <1>6 DEF StatusRead
  <2>2. Sound(Rebuilt(steps))
    BY FreshSound
  <2> QED
    BY <1>0, <2>1, <2>2 DEF Register
<1>7. ASSUME NEW r \in Recs, Resume(r) PROVE Sound(run'[q])
  <2>1. PICK steps :
            Register(r, [Blank EXCEPT !.steps = ResetUnfinished(steps),
                                      !.pc = "reopenState"])
    BY <1>7 DEF Resume
  <2>2. Sound([Blank EXCEPT !.steps = ResetUnfinished(steps), !.pc = "reopenState"])
    BY FreshSound
  <2> QED
    BY <1>0, <2>1, <2>2 DEF Register
<1>8. CASE Cancel
  <2> DEFINE d == [run[q] EXCEPT !.cancelled = TRUE]
  <2>1. /\ d.state = run[q].state /\ d.at = run[q].at /\ d.pc = run[q].pc
        /\ d.steps = run[q].steps /\ d.cancelled
    BY <1>0 DEF Record
  <2> HIDE DEF d
  <2>2. run[q].state \notin Terminal => Sound(d)
    BY <1>0, <2>1 DEF Sound, Settled, Terminal
  <2> QED
    BY <1>0, <1>8, <2>2 DEF Cancel, d
<1>9. CASE Crash
  BY <1>0, <1>9 DEF Crash
<1>10. CASE CancelJournaled \/ UNCHANGED vars
  BY <1>0, <1>10 DEF CancelJournaled, vars
<1> QED
  BY <1>1, <1>2, <1>3, <1>4, <1>5, <1>6, <1>7, <1>8, <1>9, <1>10 DEF Next

\* Sets of labels that do not meet "idle".
LEMMA NotIdle ==
    "idle" \notin JournalsStep \cup JournalsCurrent \cup JournalsRun \cup Agent \cup {"insertRun"}
  BY DEF JournalsStep, JournalsCurrent, JournalsRun, Agent

\* A drive is marked live from the claim to its finally.
LEMMA LiveStep == TypeOK /\ LiveIsDriven /\ [Next]_vars => LiveIsDriven'
<1> SUFFICES ASSUME TypeOK, LiveIsDriven, [Next]_vars PROVE LiveIsDriven'
  OBVIOUS
<1>0. /\ \A r \in Recs : Driving(r) => active_drives /\ run_registry = r
      /\ active_drives => run_registry # NoRec
      /\ NoRec \notin Recs /\ DOMAIN run = Recs
      /\ active_drives \in BOOLEAN
  BY WorkflowAssumption DEF LiveIsDriven, WorkflowAssumption, TypeOK
<1>1. ASSUME NEW r \in Recs, DriveInsert(r) \/ DriveJournal(r) \/ DriveAgent(r)
      PROVE  LiveIsDriven'
  <2>1. Driving(r) /\ UNCHANGED <<run_registry, active_drives>>
        /\ \A q \in Recs \ {r} : run'[q] = run[q]
    BY <1>0, <1>1, NotIdle DEF DriveInsert, DriveJournal, DriveAgent, Driving
  <2> QED
    BY <1>0, <2>1 DEF LiveIsDriven, Driving
<1>2. ASSUME NEW r \in Recs, DriveEnd(r) \/ DriveStray(r) PROVE LiveIsDriven'
  <2>1. Driving(r)
    BY <1>2, NotIdle DEF DriveEnd, DriveStray, Driving, JournalsRun
  <2>2. \A q \in Recs : Driving(q) <=> q = r
    BY <1>0, <2>1
  <2>3. /\ \A q \in Recs \ {r} : run'[q] = run[q]
        /\ run'[r].pc = "idle" /\ active_drives' = FALSE
    BY <1>0, <1>2 DEF DriveEnd, DriveStray, TypeOK, Record
  <2>4. \A q \in Recs : ~Driving(q)'
    BY <2>2, <2>3 DEF Driving
  <2> QED
    BY <2>3, <2>4 DEF LiveIsDriven
<1>3. ASSUME NEW r \in Recs, NEW d, Register(r, d), ~active_drives,
             active_drives' \/ d.pc = "idle", active_drives' \in BOOLEAN
      PROVE  LiveIsDriven'
  <2>1. /\ run_registry' = r /\ run'[r] = d
        /\ \A q \in Recs \ {r} : run'[q] = Blank
    BY <1>0, <1>3 DEF Register
  <2>2. \A q \in Recs \ {r} : ~Driving(q)'
    BY <2>1 DEF Driving, Blank
  <2> QED
    BY <1>0, <1>3, <2>1, <2>2 DEF LiveIsDriven, Driving
<1>4. ASSUME NEW r \in Recs, Start(r) PROVE LiveIsDriven'
  BY <1>3, <1>4 DEF Start, RunIdAvailable
<1>5. ASSUME NEW r \in Recs, StatusRead(r) PROVE LiveIsDriven'
  <2>1. PICK steps : Register(r, Rebuilt(steps))
    BY <1>5 DEF StatusRead
  <2>2. Rebuilt(steps).pc = "idle" /\ ~active_drives /\ active_drives' = active_drives
    BY <1>0, <1>5 DEF StatusRead, Rebuilt, Blank
  <2> QED
    BY <1>0, <1>3, <2>1, <2>2
<1>6. ASSUME NEW r \in Recs, Resume(r) PROVE LiveIsDriven'
  BY <1>3, <1>6 DEF Resume, NotDriven
<1>7. CASE Cancel
  <2>1. \A q \in Recs : run'[q].pc = run[q].pc
    BY <1>0, <1>7 DEF Cancel, TypeOK, Record
  <2> QED
    BY <1>0, <1>7, <2>1 DEF Cancel, LiveIsDriven, Driving
<1>8. CASE CancelJournaled \/ UNCHANGED vars
  BY <1>0, <1>8 DEF CancelJournaled, vars, LiveIsDriven, Driving
<1>9. CASE Crash
  <2>1. \A q \in Recs : ~Driving(q)'
    BY <1>9 DEF Crash, Driving, Blank
  <2> QED
    BY <1>9, <2>1 DEF Crash, LiveIsDriven
<1> QED
  BY <1>1, <1>2, <1>4, <1>5, <1>6, <1>7, <1>8, <1>9 DEF Next

\* What a journal write does to the row.
LEMMA RowWrite ==
    ASSUME NEW d, JournalWrite(d)
    PROVE  \/ jrun' = jrun
           \/ jrun # "none" /\ d.pc \in JournalsRun /\ jrun' = d.state
  BY DEF JournalWrite, journal

\* Nobody reopens, and nobody starts over, what is finally settled.
LEMMA OpenStep ==
    TypeOK /\ DriveInvariant /\ [Next]_vars => LiveIsOpen'
<1> SUFFICES ASSUME TypeOK, DriveInvariant, [Next]_vars, ~FailingReads, active_drives'
             PROVE  jrun' \notin {"COMPLETED", "CANCELLED"}
  BY DEF LiveIsOpen
<1>0. /\ \A r \in Recs : Driving(r) => active_drives /\ run_registry = r
      /\ active_drives => jrun \notin {"COMPLETED", "CANCELLED"} /\ run_registry # NoRec
  BY DEF DriveInvariant, LiveIsDriven, LiveIsOpen
<1>1. ASSUME NEW r \in Recs, DriveInsert(r)
      PROVE  jrun' \notin {"COMPLETED", "CANCELLED"}
  BY <1>0, <1>1 DEF DriveInsert, journal
<1>2. ASSUME NEW r \in Recs, DriveJournal(r)
      PROVE  jrun' \notin {"COMPLETED", "CANCELLED"}
  <2>1. run[r].pc \in JournalsRun => run[r].state = "RUNNING"
    BY <1>2 DEF DriveJournal, JournalsRun, JournalsStep, JournalsCurrent,
                DriveInvariant, SoundRecords, Sound
  <2>2. active_drives
    BY <1>2 DEF DriveJournal
  <2> QED
    BY <1>0, <1>2, <2>1, <2>2, RowWrite DEF DriveJournal
<1>3. ASSUME NEW r \in Recs, DriveAgent(r) \/ Resume(r) \/ StatusRead(r) \/ Start(r)
      PROVE  jrun' \notin {"COMPLETED", "CANCELLED"}
  BY <1>0, <1>3 DEF DriveAgent, Resume, Resumable, StatusRead, Start,
                    RunIdAvailable, MayMisread, journal
<1>4. ASSUME NEW r \in Recs, DriveEnd(r) \/ DriveStray(r)
      PROVE  jrun' \notin {"COMPLETED", "CANCELLED"}
  BY <1>4 DEF DriveEnd, DriveStray
<1>5. CASE Cancel \/ CancelJournaled \/ Crash \/ UNCHANGED vars
  BY <1>0, <1>5 DEF Cancel, CancelJournaled, Crash, vars, journal
<1> QED
  BY <1>1, <1>2, <1>3, <1>4, <1>5 DEF Next

\* The drive invariant: the registry, the liveness mark, the records and the row
\* stay in step at every await (the claims of start_run and
\* resume_from_last_completed, the finally of _drive).
THEOREM DriveInvariantHolds == Spec => [](TypeOK /\ DriveInvariant)
<1>1. Init => TypeOK /\ DriveInvariant
  <2> SUFFICES ASSUME Init PROVE DriveInvariant
    BY InitType
  <2>1. SoundRecords
    BY FreshSound DEF Init, SoundRecords
  <2> QED
    BY <2>1 DEF Init, DriveInvariant, LiveIsDriven, LiveIsOpen, Driving, Blank
<1>2. TypeOK /\ DriveInvariant /\ [Next]_vars => (TypeOK /\ DriveInvariant)'
  BY TypeStep, SoundStep, LiveStep, OpenStep DEF DriveInvariant
<1> QED
  BY <1>1, <1>2, PTL DEF Spec

\* No run is ever driven twice at the same time, however starts, resumes, status
\* reads, cancels and crashes interleave (resume_from_last_completed, "Never
\* double-drive a live run").
THEOREM NeverDoubleDriven == Spec => []NoDoubleDrive
<1>1. DriveInvariant => NoDoubleDrive
  BY DEF DriveInvariant, LiveIsDriven, NoDoubleDrive
<1> QED
  BY <1>1, DriveInvariantHolds, PTL

\* A cancel that was accepted is never overtaken by success (_drive, "so the run
\* never settles COMPLETED after being cancelled").
THEOREM CancelWins == Spec => []CancelledNeverCompletes
<1>1. DriveInvariant => CancelledNeverCompletes
  BY DEF DriveInvariant, SoundRecords, Sound, CancelledNeverCompletes
<1> QED
  BY <1>1, DriveInvariantHolds, PTL

\* No agent runs over an unsettled predecessor, whatever failed, was cancelled,
\* crashed and was resumed before (the loop of _drive, _skip_remaining).
THEOREM PrefixSettled == Spec => []RunsOverSettledPrefix
<1>1. DriveInvariant => RunsOverSettledPrefix
  BY DEF DriveInvariant, SoundRecords, Sound, RunsOverSettledPrefix, Stepping
<1> QED
  BY <1>1, DriveInvariantHolds, PTL

\* No step is PENDING when a drive writes its end (_skip_remaining).
THEOREM NothingPendingAtEnd == Spec => []EndLeavesNothingPending
<1>1. DriveInvariant => EndLeavesNothingPending
  BY DEF DriveInvariant, SoundRecords, Sound, EndLeavesNothingPending, Ending
<1> QED
  BY <1>1, DriveInvariantHolds, PTL

-----------------------------------------------------------------------------
(* What a block of the drive does to its record.                                *)

\* Record e begins the next step of d that is not done.
Begins(d, e) ==
    \E k \in Idx : /\ d.steps[k] \notin Done
                   /\ e.pc = "stepRunning" /\ e.at = k /\ e.cur = k
                   /\ e.state = d.state /\ e.steps = [d.steps EXCEPT ![k] = "RUNNING"]

\* Record e skips a PENDING step of d.
Skips(d, e) ==
    \E k \in Idx : /\ d.steps[k] = "PENDING"
                   /\ e.pc = "skip" /\ e.at = k /\ e.cur = d.cur
                   /\ e.steps = [d.steps EXCEPT ![k] = "SKIPPED"]

\* Record e leaves the loop of d.
Leaves(d, e) == e.pc = "endCur" /\ e.cur = 0 /\ e.steps = d.steps

\* Record e is d at another await.
Alike(d, e) == e.at = d.at /\ e.cur = d.cur /\ e.state = d.state /\ e.steps = d.steps

\* Record e is d one write further on.
Moves(d, e) ==
    /\ <<d.pc, e.pc>> \in {<<"reopenState", "reopenCur">>, <<"stepRunning", "curRunning">>,
                            <<"endCur", "endRun">>, <<"engineCur", "engineRun">>}
    /\ Alike(d, e)

\* Record e is d with its agent at work.
Works(d, e) == d.pc \in Working \ {"stepRunning"} /\ e.pc \in Agent /\ Alike(d, e)

\* Record e is d with its step settled.
Settles(d, e) ==
    /\ d.pc \in Agent /\ e.pc \in {"stepSettled", "stepFailed"}
    /\ e.at = d.at /\ e.cur = d.cur /\ e.state = d.state
    /\ \E s \in StepStates : e.steps = [d.steps EXCEPT ![d.at] = s]

\* Record e is d with its step failed for a prompt that could not be substituted.
Errs(d, e) ==
    /\ d.pc \in Working \ {"stepRunning"} /\ e.pc = "engineCur"
    /\ d.at \in Templated /\ e.at = d.at
    /\ e.cur = 0 /\ e.steps = [d.steps EXCEPT ![d.at] = "FAILED"]

\* What a block of the drive makes of the record d.
Outcome(d, e) ==
    \/ d.pc \notin {"skip", "endCur", "endRun", "engineCur", "engineRun"} /\ Begins(d, e)
    \/ d.pc \notin {"reopenState", "stepRunning"} /\ Skips(d, e)
    \/ Leaves(d, e) \/ Moves(d, e)
    \/ Works(d, e) \/ Settles(d, e) \/ Errs(d, e)

\* _skip_remaining skips a step or leaves the loop.
LEMMA SkipOutcome ==
    ASSUME NEW d \in Record, NEW i \in Nat \ {0}
    PROVE  Skips(d, SkipRemaining(d, i)) \/ Leaves(d, SkipRemaining(d, i))
<1> DEFINE pending == {j \in i..N : d.steps[j] = "PENDING"}
<1>1. CASE pending = {}
  BY <1>1 DEF SkipRemaining, Settle, Leaves, Record
<1>2. CASE pending # {}
  <2> DEFINE k == First(pending)
  <2>1. k \in Idx /\ d.steps[k] = "PENDING"
    BY <1>2, FirstIsLeast, Sizes
  <2>2. SkipRemaining(d, i)
          = [d EXCEPT !.steps[k] = "SKIPPED", !.at = k, !.pc = "skip"]
    BY <1>2 DEF SkipRemaining
  <2> HIDE DEF k
  <2>3. Skips(d, SkipRemaining(d, i))
    BY <2>1, <2>2 DEF Skips, Record
  <2> QED
    BY <2>3
<1> QED
  BY <1>1, <1>2

\* The loop begins a step, skips one or leaves.
LEMMA BoundaryOutcome ==
    ASSUME NEW d \in Record, NEW i \in Nat \ {0}
    PROVE  \/ Begins(d, Boundary(d, i))
           \/ Skips(d, Boundary(d, i)) \/ Leaves(d, Boundary(d, i))
<1> DEFINE rest == {j \in i..N : d.steps[j] \notin Done}
<1>1. CASE d.cancelled /\ i <= N
  BY <1>1, SkipOutcome DEF Boundary
<1>2. CASE ~(d.cancelled /\ i <= N) /\ rest = {}
  <2>1. Boundary(d, i) = Finalize(d)
    BY <1>2 DEF Boundary
  <2>2. CASE d.cancelled
    BY <2>1, <2>2, SkipOutcome DEF Finalize
  <2>3. CASE ~d.cancelled
    BY <2>1, <2>3 DEF Finalize, Settle, Leaves, Record
  <2> QED
    BY <2>2, <2>3
<1>3. CASE ~(d.cancelled /\ i <= N) /\ rest # {}
  <2> DEFINE k == First(rest)
  <2>1. k \in Idx /\ d.steps[k] \notin Done
    <3>1. rest \subseteq Nat /\ \A j \in rest : j \in Idx /\ d.steps[j] \notin Done
      BY Sizes
    <3> HIDE DEF rest
    <3> QED
      BY <1>3, <3>1, FirstIsLeast
  <2>2. Boundary(d, i)
          = [d EXCEPT !.steps[k] = "RUNNING", !.cur = k, !.at = k, !.att = 0,
                      !.reprompted = FALSE, !.pc = "stepRunning"]
    BY <1>3 DEF Boundary
  <2> HIDE DEF k
  <2>3. Begins(d, Boundary(d, i))
    BY <2>1, <2>2 DEF Begins, Record
  <2> QED
    BY <2>3
<1> QED
  BY <1>1, <1>2, <1>3

\* The top of the attempt loop: on with the run, with the agent, or an error.
LEMMA AttemptOutcome ==
    ASSUME NEW d \in Record, d.pc \in Working \ {"stepRunning"}, NEW e \in Attempt(d)
    PROVE  Outcome(d, e)
<1>1. CASE e = Boundary(d, d.at + 1)
  BY <1>1, NextIndex, BoundaryOutcome DEF Outcome, Working, Agent
<1>2. CASE e = [d EXCEPT !.att = d.att + 1, !.pc = "agent"]
  <2>1. Works(d, e)
    BY <1>2 DEF Works, Alike, Agent, Record
  <2> QED
    BY <2>1 DEF Outcome
<1>3. CASE e = EngineError(d) /\ d.at \in Templated
  <2>1. Errs(d, e)
    BY <1>3 DEF Errs, EngineError, Record
  <2> QED
    BY <2>1 DEF Outcome
<1> QED
  BY <1>1, <1>2, <1>3 DEF Attempt

\* An agent that returned, failed or was interrupted.
LEMMA AgentOutcome ==
    ASSUME NEW d \in Record, d.pc \in Agent,
           NEW e \in Collect(d) \cup ConsumeAttempt(d) \cup {SettleStep(d, "SKIPPED")}
    PROVE  Outcome(d, e)
<1>1. ASSUME NEW s \in StepStates, NEW l \in {"stepSettled", "stepFailed"},
             e = [d EXCEPT !.steps[d.at] = s, !.pc = l]
      PROVE  Outcome(d, e)
  <2>1. Settles(d, e)
    BY <1>1 DEF Settles, Record
  <2> QED
    BY <2>1 DEF Outcome
<1>2. CASE e = [d EXCEPT !.reprompted = TRUE, !.pc = "reprompt"]
  <2>1. Works(d, e)
    BY <1>2 DEF Works, Alike, Agent, Working, Record
  <2> QED
    BY <2>1 DEF Outcome
<1>3. CASE e \in Attempt(d)
  BY <1>3, AttemptOutcome DEF Working, Agent
<1> QED
  BY <1>1, <1>2, <1>3, StateFacts DEF Collect, ConsumeAttempt, SettleStep

\* A drive whose journal write is over.
LEMMA AfterWriteOutcome ==
    ASSUME NEW d \in Record,
           d.pc \in JournalsStep \cup JournalsCurrent \cup {"reopenState"},
           NEW e \in AfterWrite(d)
    PROVE  Outcome(d, e)
<1>1. CASE d.pc \in {"reopenState", "stepRunning", "endCur", "engineCur"}
  <2>1. Moves(d, e)
    BY <1>1 DEF AfterWrite, Moves, Alike, Record
  <2> QED
    BY <2>1 DEF Outcome
<1>2. CASE d.pc = "reopenCur" \/ d.pc = "stepSettled"
  <2>1. e = Boundary(d, 1) \/ e = Boundary(d, d.at + 1)
    BY <1>2 DEF AfterWrite
  <2> QED
    BY <1>2, <2>1, NextIndex, BoundaryOutcome DEF Outcome
<1>3. CASE d.pc = "curRunning"
  BY <1>3, AttemptOutcome DEF AfterWrite, Working
<1>4. CASE d.pc = "stepFailed"
  <2>1. e = AfterFailure(d)
    BY <1>4 DEF AfterWrite
  <2>2. CASE d.at \in ContinueOnFailure
    BY <1>4, <2>1, <2>2, NextIndex, BoundaryOutcome DEF Outcome, AfterFailure
  <2>3. CASE d.at \notin ContinueOnFailure
    <3> DEFINE f == [d EXCEPT !.state = "FAILED"]
    <3>1. f \in Record /\ f.steps = d.steps /\ f.cur = d.cur
      BY StateFacts DEF Record
    <3>2. e = SkipRemaining(f, d.at + 1)
      BY <2>1, <2>3 DEF AfterFailure
    <3> HIDE DEF f
    <3>3. Skips(f, e) \/ Leaves(f, e)
      BY <3>1, <3>2, NextIndex, SkipOutcome
    <3> QED
      BY <1>4, <3>1, <3>3 DEF Skips, Leaves, Outcome
  <2> QED
    BY <2>2, <2>3
<1>5. CASE d.pc = "skip"
  <2>1. e = SkipRemaining(d, d.at + 1)
    BY <1>5 DEF AfterWrite
  <2> QED
    BY <1>5, <2>1, NextIndex, SkipOutcome DEF Outcome
<1> QED
  BY <1>1, <1>2, <1>3, <1>4, <1>5 DEF JournalsStep, JournalsCurrent

\* What is RUNNING in the record stays so until it is settled.
LEMMA OutcomeBegun ==
    ASSUME NEW d \in Record, NEW e \in Record, Begun(d), Outcome(d, e)
    PROVE  Begun(e)
<1>1. CASE Begins(d, e)
  BY <1>1 DEF Begins, Begun, Record
<1>2. CASE Skips(d, e) \/ Leaves(d, e) \/ Settles(d, e) \/ Errs(d, e)
  BY <1>2 DEF Skips, Leaves, Settles, Errs, Begun, Working, Agent
<1>3. CASE Moves(d, e) \/ Works(d, e)
  BY <1>3 DEF Moves, Works, Alike, Begun, Working, Agent
<1> QED
  BY <1>1, <1>2, <1>3 DEF Outcome

\* No block of a drive undoes a step the journal has as done.
LEMMA OutcomeKeeps ==
    ASSUME NEW d \in Record, NEW e \in Record, Begun(d), Outcome(d, e),
           NEW js, Keeps(d, js), d.pc # "idle"
    PROVE  Keeps(e, js)
<1> SUFFICES ASSUME NEW i \in Idx, js[i] \in Done PROVE e.steps[i] \in Done
  BY DEF Keeps
<1>1. d.steps[i] \in Done
  BY DEF Keeps
<1>2. \A k \in Idx : \A s : d.steps[k] \notin Done /\ e.steps = [d.steps EXCEPT ![k] = s]
                          => e.steps[i] = d.steps[i]
  BY <1>1 DEF Record
<1>3. CASE Begins(d, e)
  BY <1>1, <1>2, <1>3 DEF Begins
<1>4. CASE Skips(d, e)
  <2>1. PICK k \in Idx : d.steps[k] = "PENDING" /\ e.steps = [d.steps EXCEPT ![k] = "SKIPPED"]
    BY <1>4 DEF Skips
  <2> QED
    BY <1>1, <1>2, <2>1 DEF Done
<1>5. CASE Settles(d, e) \/ Errs(d, e)
  <2>1. d.at \in Idx /\ d.steps[d.at] = "RUNNING"
    BY <1>5 DEF Settles, Errs, Begun, Working
  <2>2. \E s : e.steps = [d.steps EXCEPT ![d.at] = s]
    BY <1>5 DEF Settles, Errs
  <2> QED
    BY <1>1, <1>2, <2>1, <2>2 DEF Done
<1>6. CASE Leaves(d, e) \/ Moves(d, e) \/ Works(d, e)
  BY <1>1, <1>6 DEF Leaves, Moves, Works, Alike
<1> QED
  BY <1>3, <1>4, <1>5, <1>6 DEF Outcome

-----------------------------------------------------------------------------
(* What the journal has as done is not begun again.                             *)

\* The steps of a drive that are not an end, as outcomes.
LEMMA DriveOutcome ==
    ASSUME TypeOK, NEW r \in Recs, DriveInsert(r) \/ DriveJournal(r) \/ DriveAgent(r)
    PROVE  /\ run[r] \in Record /\ run'[r] \in Record /\ run[r].pc # "idle"
           /\ Outcome(run[r], run'[r])
           /\ \A q \in Recs \ {r} : run'[q] = run[q]
<1>0. run[r] \in Record /\ DOMAIN run = Recs
  BY DEF TypeOK
<1>1. CASE DriveInsert(r)
  <2>1. run'[r] = Boundary(run[r], 1) /\ run[r].pc = "insertRun"
    BY <1>0, <1>1 DEF DriveInsert
  <2>2. run'[r] \in Record
    BY <1>0, <2>1, BoundaryType
  <2>3. Outcome(run[r], run'[r])
    BY <1>0, <2>1, BoundaryOutcome DEF Outcome
  <2> QED
    BY <1>0, <1>1, <2>1, <2>2, <2>3 DEF DriveInsert
<1>2. CASE DriveJournal(r)
  <2>1. run'[r] \in AfterWrite(run[r])
    BY <1>0, <1>2 DEF DriveJournal
  <2>2. run'[r] \in Record /\ Outcome(run[r], run'[r]) /\ run[r].pc # "idle"
    BY <1>0, <1>2, <2>1, AfterWriteType, AfterWriteOutcome, NotIdle
       DEF DriveJournal, JournalsRun
  <2> QED
    BY <1>0, <1>2, <2>2 DEF DriveJournal
<1>3. CASE DriveAgent(r)
  <2>1. /\ run[r].pc \in Agent
        /\ run'[r] \in Collect(run[r]) \cup ConsumeAttempt(run[r])
                         \cup {SettleStep(run[r], "SKIPPED")}
    BY <1>0, <1>3 DEF DriveAgent
  <2>2. run'[r] \in Record
    BY <1>0, <2>1, CollectType, ConsumeAttemptType, SettleStepType, StateFacts
  <2>3. Outcome(run[r], run'[r])
    BY <1>0, <2>1, AgentOutcome
  <2> QED
    BY <1>0, <1>3, <2>1, <2>2, <2>3, NotIdle DEF DriveAgent
<1> QED
  BY <1>1, <1>2, <1>3

\* What a registration makes of every record.
LEMMA RegisterFacts ==
    ASSUME NEW r \in Recs, NEW d, Register(r, d)
    PROVE  /\ run_registry' = r /\ run'[r] = d
           /\ \A q \in Recs \ {r} : run'[q] = Blank \/ run'[q] = run[q]
  BY DEF Register

\* Every claim and every rebuild registers a record at the start of a drive, or at
\* none.
LEMMA Registers ==
    ASSUME NEW r \in Recs, Start(r) \/ StatusRead(r) \/ Resume(r)
    PROVE  \E d : Register(r, d) /\ d.pc \in {"idle", "insertRun", "reopenState"}
<1>1. CASE Start(r)
  BY <1>1 DEF Start, Blank
<1>2. CASE StatusRead(r)
  <2>1. PICK steps : Register(r, Rebuilt(steps))
    BY <1>2 DEF StatusRead
  <2>2. Rebuilt(steps).pc = "idle"
    BY DEF Rebuilt, Blank
  <2> QED
    BY <2>1, <2>2
<1>3. CASE Resume(r)
  <2>1. PICK steps : Register(r, [Blank EXCEPT !.steps = ResetUnfinished(steps),
                                               !.pc = "reopenState"])
    BY <1>3 DEF Resume
  <2>2. [Blank EXCEPT !.steps = ResetUnfinished(steps), !.pc = "reopenState"].pc
          = "reopenState"
    BY DEF Blank
  <2> QED
    BY <2>1, <2>2
<1> QED
  BY <1>1, <1>2, <1>3

\* Begun steps stay RUNNING until they are settled.
LEMMA BegunStep == TypeOK /\ BegunRecords /\ [Next]_vars => BegunRecords'
<1> SUFFICES ASSUME TypeOK, BegunRecords, [Next]_vars, NEW q \in Recs
             PROVE  Begun(run'[q])
  BY DEF BegunRecords
<1>0. run[q] \in Record /\ Begun(run[q]) /\ Begun(Blank) /\ DOMAIN run = Recs
  BY DEF TypeOK, BegunRecords, Begun, Blank, Working, Agent
<1>1. ASSUME NEW r \in Recs, DriveInsert(r) \/ DriveJournal(r) \/ DriveAgent(r)
      PROVE  Begun(run'[q])
  <2>1. Begun(run[r])
    BY DEF BegunRecords
  <2>2. Begun(run'[r])
    BY <1>1, <2>1, DriveOutcome, OutcomeBegun
  <2> QED
    BY <1>0, <1>1, <2>2, DriveOutcome
<1>2. ASSUME NEW r \in Recs, DriveEnd(r) \/ DriveStray(r) PROVE Begun(run'[q])
  <2>1. run'[r].pc = "idle" /\ \A s \in Recs \ {r} : run'[s] = run[s]
    BY <1>2 DEF DriveEnd, DriveStray, TypeOK, Record
  <2> QED
    BY <1>0, <2>1 DEF Begun, Working, Agent
<1>3. ASSUME NEW r \in Recs, NEW d, Register(r, d),
             d.pc \in {"idle", "insertRun", "reopenState"}
      PROVE  Begun(run'[q])
  <2>1. Begun(d)
    BY <1>3 DEF Begun, Working, Agent
  <2> QED
    BY <1>0, <1>3, <2>1, RegisterFacts
<1>4. ASSUME NEW r \in Recs, Start(r) \/ StatusRead(r) \/ Resume(r)
      PROVE  Begun(run'[q])
  <2>1. \E d : Register(r, d) /\ d.pc \in {"idle", "insertRun", "reopenState"}
    BY <1>4, Registers
  <2> QED
    BY <1>3, <2>1
<1>5. CASE Cancel
  <2>1. /\ run'[q].pc = run[q].pc /\ run'[q].at = run[q].at
        /\ run'[q].steps = run[q].steps
    BY <1>0, <1>5 DEF Cancel, TypeOK, Record
  <2> QED
    BY <1>0, <2>1 DEF Begun
<1>6. CASE CancelJournaled \/ Crash \/ UNCHANGED vars
  BY <1>0, <1>6 DEF CancelJournaled, Crash, vars
<1> QED
  BY <1>1, <1>2, <1>4, <1>5, <1>6 DEF Next

\* The row of the run comes before the rows of its steps.
LEMMA RowFirstStep == TypeOK /\ RowFirst /\ [Next]_vars => RowFirst'
<1> SUFFICES ASSUME TypeOK, RowFirst, [Next]_vars, jrun' = "none"
             PROVE  jcur' = 0 /\ \A i \in Idx : jstep'[i] = "absent"
  BY DEF RowFirst
<1>1. ASSUME NEW d \in Record, JournalWrite(d)
      PROVE  jcur' = 0 /\ \A i \in Idx : jstep'[i] = "absent"
  <2>1. "none" \notin RunStates /\ d.state \in RunStates
    BY DEF RunStates, Terminal, Record
  <2>2. jrun = "none" /\ jcur = 0 /\ \A i \in Idx : jstep[i] = "absent"
    BY <1>1, <2>1, RowWrite DEF RowFirst
  <2>3. jcur' = jcur
    BY <1>1, <2>2 DEF JournalWrite, journal
  <2>4. jstep' = jstep
    <3>1. CASE jstep[d.at] # "absent"
      <4>1. d.at \notin Idx
        BY <2>2, <3>1
      <4> QED
        BY <1>1, <4>1 DEF JournalWrite, journal, TypeOK
    <3> QED
      BY <1>1, <3>1 DEF JournalWrite, journal
  <2> QED
    BY <2>2, <2>3, <2>4
<1>2. ASSUME NEW r \in Recs, DriveJournal(r) \/ DriveEnd(r)
      PROVE  jcur' = 0 /\ \A i \in Idx : jstep'[i] = "absent"
  BY <1>1, <1>2 DEF DriveJournal, DriveEnd, TypeOK
<1>3. ASSUME NEW r \in Recs, DriveInsert(r)
      PROVE  jcur' = 0 /\ \A i \in Idx : jstep'[i] = "absent"
  BY <1>3 DEF DriveInsert, RowFirst, journal
<1>4. ASSUME NEW r \in Recs,
             DriveAgent(r) \/ DriveStray(r) \/ Start(r) \/ StatusRead(r) \/ Resume(r)
      PROVE  jcur' = 0 /\ \A i \in Idx : jstep'[i] = "absent"
  BY <1>4 DEF DriveAgent, DriveStray, Start, StatusRead, Resume, RowFirst, journal
<1>5. CASE Cancel \/ CancelJournaled \/ Crash \/ UNCHANGED vars
  BY <1>5 DEF Cancel, CancelJournaled, Crash, vars, RowFirst, journal
<1> QED
  BY <1>2, <1>3, <1>4, <1>5 DEF Next

\* A journal write adds no done step but those of the record it writes.
LEMMA WriteKeeps ==
    ASSUME TypeOK, NEW d \in Record, JournalWrite(d), Keeps(d, jstep)
    PROVE  Keeps(d, jstep')
<1>1. \A i \in Idx : jstep'[i] = jstep[i] \/ jstep'[i] = d.steps[i]
  BY DEF JournalWrite, journal, TypeOK
<1> QED
  BY <1>1 DEF Keeps

\* A drive begins with what the journal has as done.
LEMMA FreshKeeps ==
    ASSUME TypeOK
    PROVE  /\ Keeps(Blank, jstep)
           /\ \A steps : Keeps(Rebuilt(steps), jstep)
           /\ jrun = "none" /\ RowFirst => Keeps([Blank EXCEPT !.pc = "insertRun"], jstep)
           /\ Keeps([Blank EXCEPT !.steps = ResetUnfinished(Overlaid),
                                  !.pc = "reopenState"], jstep)
<1>1. Keeps(Blank, jstep) /\ \A steps : Keeps(Rebuilt(steps), jstep)
  BY DEF Keeps, Blank, Rebuilt
<1>2. jrun = "none" /\ RowFirst => Keeps([Blank EXCEPT !.pc = "insertRun"], jstep)
  BY DEF Keeps, RowFirst, Done
<1>3. \A i \in Idx : jstep[i] \in Done => ResetUnfinished(Overlaid)[i] = jstep[i]
  BY DEF ResetUnfinished, Overlaid, Done
<1>4. [Blank EXCEPT !.steps = ResetUnfinished(Overlaid), !.pc = "reopenState"].steps
        = ResetUnfinished(Overlaid)
  BY DEF Blank
<1> QED
  BY <1>1, <1>2, <1>3, <1>4 DEF Keeps

\* As long as no journal read fails, the record of a drive has as done what the
\* journal has as done.
LEMMA KeepsStep ==
    ASSUME ~FailingReads, TypeOK, DriveInvariant, BegunRecords, RowFirst, KeepsDone,
           [Next]_vars
    PROVE  KeepsDone'
<1> SUFFICES ASSUME NEW q \in Recs PROVE Keeps(run'[q], jstep')
  BY DEF KeepsDone
<1>0. /\ run[q] \in Record /\ Keeps(run[q], jstep) /\ DOMAIN run = Recs
      /\ \A s \in Recs : Driving(s) => run_registry = s
  BY DEF TypeOK, KeepsDone, DriveInvariant, LiveIsDriven
<1>1. ASSUME NEW r \in Recs, DriveInsert(r) \/ DriveJournal(r) \/ DriveAgent(r)
      PROVE  Keeps(run'[q], jstep')
  <2>1. /\ run[r] \in Record /\ run'[r] \in Record /\ run[r].pc # "idle"
        /\ Outcome(run[r], run'[r]) /\ \A s \in Recs \ {r} : run'[s] = run[s]
    BY <1>1, DriveOutcome
  <2>2. Begun(run[r]) /\ Keeps(run[r], jstep)
    BY DEF BegunRecords, KeepsDone
  <2>3. Keeps(run[r], jstep')
    <3>1. CASE DriveInsert(r)
      <4>1. jstep' = jstep \/ jstep' = [i \in Idx |-> "PENDING"]
        BY <3>1 DEF DriveInsert, journal
      <4> QED
        BY <2>2, <4>1 DEF Keeps, Done
    <3>2. CASE DriveJournal(r)
      BY <2>1, <2>2, <3>2, WriteKeeps DEF DriveJournal
    <3>3. CASE DriveAgent(r)
      BY <2>2, <3>3 DEF DriveAgent, journal
    <3> QED
      BY <1>1, <3>1, <3>2, <3>3
  <2>4. Keeps(run'[r], jstep')
    BY <2>1, <2>2, <2>3, OutcomeKeeps
  <2>5. CASE q = r
    BY <2>4, <2>5
  <2>6. CASE q # r
    <3>1. run'[q] = run[q] /\ run[q].pc = "idle"
      BY <1>0, <2>1, <2>6 DEF Driving
    <3> QED
      BY <3>1 DEF Keeps
  <2> QED
    BY <2>5, <2>6
<1>2. ASSUME NEW r \in Recs, DriveEnd(r) \/ DriveStray(r)
      PROVE  Keeps(run'[q], jstep')
  <2>1. run'[r].pc = "idle" /\ \A s \in Recs \ {r} : run'[s] = run[s]
    BY <1>2 DEF DriveEnd, DriveStray, TypeOK, Record
  <2>2. Driving(r)
    BY <1>2, NotIdle DEF DriveEnd, DriveStray, Driving, JournalsRun
  <2>3. run'[q].pc = "idle"
    BY <1>0, <2>1, <2>2 DEF Driving
  <2> QED
    BY <2>3 DEF Keeps
<1>3. ASSUME NEW r \in Recs, NEW d, Register(r, d), Keeps(d, jstep), jstep' = jstep
      PROVE  Keeps(run'[q], jstep')
  BY <1>0, <1>3, RegisterFacts, FreshKeeps
<1>4. ASSUME NEW r \in Recs, Start(r) PROVE Keeps(run'[q], jstep')
  <2>1. jrun = "none" /\ jstep' = jstep
    BY <1>4 DEF Start, RunIdAvailable, MayMisread, journal
  <2> QED
    BY <1>3, <1>4, <2>1, FreshKeeps DEF Start
<1>5. ASSUME NEW r \in Recs, StatusRead(r) PROVE Keeps(run'[q], jstep')
  <2>1. PICK steps : Register(r, Rebuilt(steps))
    BY <1>5 DEF StatusRead
  <2> QED
    BY <1>3, <1>5, <2>1, FreshKeeps DEF StatusRead, journal
<1>6. ASSUME NEW r \in Recs, Resume(r) PROVE Keeps(run'[q], jstep')
  <2>1. Register(r, [Blank EXCEPT !.steps = ResetUnfinished(Overlaid),
                                  !.pc = "reopenState"])
    BY <1>6 DEF Resume, ReadSteps, MayMisread
  <2> QED
    BY <1>3, <1>6, <2>1, FreshKeeps DEF Resume, journal
<1>7. CASE Cancel
  <2>1. run'[q].pc = run[q].pc /\ run'[q].steps = run[q].steps /\ jstep' = jstep
    BY <1>0, <1>7 DEF Cancel, TypeOK, Record, journal
  <2> QED
    BY <1>0, <2>1 DEF Keeps
<1>8. CASE Crash
  BY <1>8, FreshKeeps DEF Crash, journal
<1>9. CASE CancelJournaled \/ UNCHANGED vars
  BY <1>0, <1>9 DEF CancelJournaled, vars
<1> QED
  BY <1>1, <1>2, <1>4, <1>5, <1>6, <1>7, <1>8, <1>9 DEF Next

\* The invariant behind what is begun: what is begun is RUNNING, and as long as no
\* journal read fails what the journal has as done is done in the record.
LEMMA KeepsHolds ==
    ASSUME ~FailingReads
    PROVE  Spec => [](TypeOK /\ DriveInvariant /\ BegunRecords /\ RowFirst /\ KeepsDone)
<1>1. Init => BegunRecords /\ RowFirst /\ KeepsDone
  BY DEF Init, BegunRecords, Begun, RowFirst, KeepsDone, Keeps, Blank, Working, Agent
<1>2. TypeOK /\ DriveInvariant /\ BegunRecords /\ RowFirst /\ KeepsDone /\ [Next]_vars
        => (BegunRecords /\ RowFirst /\ KeepsDone)'
  BY BegunStep, RowFirstStep, KeepsStep
<1> QED
  BY <1>1, <1>2, DriveInvariantHolds, PTL DEF Spec

\* A drive begins no step the journal has as done.
LEMMA BeginsUndone ==
    ASSUME TypeOK, KeepsDone, [Next]_vars,
           NEW q \in Recs, run'[q].pc = "stepRunning", run[q].pc # "stepRunning"
    PROVE  jstep[run'[q].at] \notin Done
<1>0. run[q] \in Record /\ DOMAIN run = Recs /\ Keeps(run[q], jstep)
  BY DEF TypeOK, KeepsDone
<1>1. ASSUME NEW r \in Recs, DriveInsert(r) \/ DriveJournal(r) \/ DriveAgent(r)
      PROVE  jstep[run'[q].at] \notin Done
  <2>1. q = r
    BY <1>1, DriveOutcome
  <2>2. Outcome(run[q], run'[q]) /\ run[q].pc # "idle"
    BY <1>1, <2>1, DriveOutcome
  <2>3. Begins(run[q], run'[q])
    BY <2>2 DEF Outcome, Skips, Leaves, Moves, Works, Settles, Errs, Agent
  <2> QED
    BY <1>0, <2>2, <2>3 DEF Begins, Keeps
<1>2. ASSUME NEW r \in Recs, DriveEnd(r) \/ DriveStray(r) PROVE FALSE
  <2>1. run'[r].pc = "idle" /\ \A s \in Recs \ {r} : run'[s] = run[s]
    BY <1>2 DEF DriveEnd, DriveStray, TypeOK, Record
  <2> QED
    BY <2>1
<1>3. ASSUME NEW r \in Recs, Start(r) \/ StatusRead(r) \/ Resume(r) PROVE FALSE
  <2>1. PICK d : Register(r, d) /\ d.pc \in {"idle", "insertRun", "reopenState"}
    BY <1>3, Registers
  <2> QED
    BY <2>1, RegisterFacts DEF Blank
<1>4. CASE Cancel
  BY <1>0, <1>4 DEF Cancel, TypeOK, Record
<1>5. CASE CancelJournaled \/ Crash \/ UNCHANGED vars
  BY <1>5 DEF CancelJournaled, Crash, vars, Blank
<1> QED
  BY <1>1, <1>2, <1>3, <1>4, <1>5 DEF Next

\* Done steps are never re-run, provided journal reads do not fail: however often a
\* run is cancelled, crashed and resumed, and whatever write was lost, no step is
\* begun that the journal already has as done (_drive, resume_from_last_completed).
THEOREM DoneIsNotRerun ==
    ASSUME ~FailingReads
    PROVE  Spec => NoRerunOfJournaledStep
<1>1. TypeOK /\ KeepsDone /\ [Next]_vars
        => [\A r \in Recs :
              run'[r].pc = "stepRunning" /\ run[r].pc # "stepRunning"
                => jstep[run'[r].at] \notin Done]_vars
  BY BeginsUndone
<1> QED
  BY <1>1, KeepsHolds, PTL DEF Spec, NoRerunOfJournaledStep

-----------------------------------------------------------------------------
(* The journal trails the record by one write.                                  *)

\* The write a drive at record d awaited is in the journal <<row, jc, js>>.
Written(d, row, jc, js) ==
    /\ row = "RUNNING"
    /\ d.pc \in Stepping \cup {"insertRun", "reopenState", "reopenCur"} => d.state = "RUNNING"
    /\ d.pc \in EngineEnding => d.at \in Templated /\ d.steps[d.at] = "FAILED"
    /\ d.pc \notin {"reopenState", "stepRunning"} => jc = d.cur
    /\ \A i \in Idx : /\ js[i] # "absent"
                      /\ \/ js[i] = d.steps[i]
                         \/ js[i] \notin Done /\ d.steps[i] = "FAILED" /\ i \in Templated
                         \/ js[i] \notin Done /\ d.steps[i] = "PENDING"

\* A block that changes one step, not yet written, leaves the journal one write
\* behind; the others are as they were.
LEMMA OneStepTrails ==
    ASSUME NEW d \in Record, NEW e \in Record, NEW row, NEW jc, NEW js,
           Written(d, row, jc, js), e.pc # "idle",
           NEW k \in Idx, NEW s, e.steps = [d.steps EXCEPT ![k] = s], e.at = k,
           js[k] \notin Done,
           e.pc \in StepPending \/ (s = "FAILED" /\ k \in Templated)
    PROVE  \A i \in Idx : js[i] # "absent" /\ StepTrails(e, js[i], i)
<1> SUFFICES ASSUME NEW i \in Idx PROVE js[i] # "absent" /\ StepTrails(e, js[i], i)
  OBVIOUS
<1>1. js[i] # "absent"
  BY DEF Written
<1>2. CASE i = k
  <2>1. e.steps[k] = s
    BY DEF Record
  <2> QED
    BY <1>1, <1>2, <2>1 DEF StepTrails
<1>3. CASE i # k
  <2>1. e.steps[i] = d.steps[i]
    BY <1>3 DEF Record
  <2> QED
    BY <2>1 DEF StepTrails, Written
<1> QED
  BY <1>1, <1>2, <1>3

\* A block that changes no step.
LEMMA NoStepTrails ==
    ASSUME NEW d, NEW e, NEW row, NEW jc, NEW js,
           Written(d, row, jc, js), e.pc # "idle", e.steps = d.steps
    PROVE  \A i \in Idx : js[i] # "absent" /\ StepTrails(e, js[i], i)
  BY DEF Written, StepTrails

\* Once a write is in the journal, the next block leaves it one write behind.
LEMMA OutcomeTrails ==
    ASSUME NEW d \in Record, NEW e \in Record, Begun(d), Outcome(d, e),
           NEW row, NEW jc, NEW js, Written(d, row, jc, js),
           Begins(d, e) => d.state = "RUNNING"
    PROVE  Trails(e, row, jc, js)
<1> USE DEF Stepping, Agent, Ending, EngineEnding, CurrentPending, JournalsCurrent
<1>1. CASE Begins(d, e)
  <2>1. PICK k \in Idx : /\ d.steps[k] \notin Done
                         /\ e.pc = "stepRunning" /\ e.at = k /\ e.cur = k
                         /\ e.state = d.state /\ e.steps = [d.steps EXCEPT ![k] = "RUNNING"]
    BY <1>1 DEF Begins
  <2>2. js[k] \notin Done
    BY <2>1 DEF Written
  <2>3. \A i \in Idx : js[i] # "absent" /\ StepTrails(e, js[i], i)
    BY <2>1, <2>2, OneStepTrails DEF StepPending, JournalsStep
  <2> QED
    BY <1>1, <2>1, <2>3 DEF Trails, Written
<1>2. CASE d.pc \notin {"reopenState", "stepRunning"} /\ Skips(d, e)
  <2>1. PICK k \in Idx : /\ d.steps[k] = "PENDING"
                         /\ e.pc = "skip" /\ e.at = k /\ e.cur = d.cur
                         /\ e.steps = [d.steps EXCEPT ![k] = "SKIPPED"]
    BY <1>2 DEF Skips
  <2>2. js[k] \notin Done
    BY <2>1 DEF Written, Done
  <2>3. \A i \in Idx : js[i] # "absent" /\ StepTrails(e, js[i], i)
    BY <2>1, <2>2, OneStepTrails DEF StepPending, JournalsStep
  <2> QED
    BY <1>2, <2>1, <2>3 DEF Trails, Written
<1>3. CASE Leaves(d, e)
  <2>1. \A i \in Idx : js[i] # "absent" /\ StepTrails(e, js[i], i)
    BY <1>3, NoStepTrails DEF Leaves
  <2> QED
    BY <1>3, <2>1 DEF Leaves, Trails, Written
<1>4. CASE Moves(d, e)
  <2>1. \A i \in Idx : js[i] # "absent" /\ StepTrails(e, js[i], i)
    BY <1>4, NoStepTrails DEF Moves, Alike
  <2> QED
    BY <1>4, <2>1 DEF Moves, Alike, Trails, Written
<1>5. CASE Works(d, e)
  <2>1. \A i \in Idx : js[i] # "absent" /\ StepTrails(e, js[i], i)
    BY <1>5, NoStepTrails DEF Works, Alike
  <2> QED
    BY <1>5, <2>1 DEF Works, Alike, Trails, Written, Working
<1>6. CASE Settles(d, e) \/ Errs(d, e)
  <2>1. d.at \in Idx /\ d.steps[d.at] = "RUNNING" /\ d.pc \in Working \ {"stepRunning"}
    BY <1>6 DEF Settles, Errs, Begun, Working
  <2>2. js[d.at] \notin Done
    BY <2>1 DEF Written, Done
  <2>3. PICK s : /\ e.steps = [d.steps EXCEPT ![d.at] = s] /\ e.at = d.at
                 /\ \/ e.pc \in {"stepSettled", "stepFailed"}
                    \/ s = "FAILED" /\ d.at \in Templated /\ e.pc = "engineCur"
    BY <1>6 DEF Settles, Errs
  <2>4. \A i \in Idx : js[i] # "absent" /\ StepTrails(e, js[i], i)
    BY <2>1, <2>2, <2>3, OneStepTrails DEF StepPending, JournalsStep
  <2>5. CASE Settles(d, e)
    BY <2>1, <2>4, <2>5 DEF Settles, Trails, Written, Working
  <2>6. CASE Errs(d, e)
    <3>1. e.steps[e.at] = "FAILED"
      BY <2>1, <2>6 DEF Errs, Record
    <3> QED
      BY <2>4, <2>6, <3>1 DEF Errs, Trails, Written
  <2> QED
    BY <1>6, <2>5, <2>6
<1> QED
  BY <1>1, <1>2, <1>3, <1>4, <1>5, <1>6 DEF Outcome

\* A write that is not lost brings the journal up to the record.
LEMMA TrailsWritten ==
    ASSUME TypeOK, NEW d \in Record, Sound(d), Trails(d, jrun, jcur, jstep),
           d.pc \in JournalsStep \cup JournalsCurrent \cup {"reopenState"},
           JournalWrite(d), drops' = 0
    PROVE  Written(d, jrun', jcur', jstep')
<1>1. /\ jrun # "none"
      /\ jrun' = IF d.pc = "reopenState" THEN d.state ELSE jrun
      /\ jcur' = IF d.pc \in JournalsCurrent THEN d.cur ELSE jcur
      /\ jstep' = IF d.pc \in JournalsStep /\ jstep[d.at] # "absent"
                  THEN [jstep EXCEPT ![d.at] = d.steps[d.at]] ELSE jstep
  <2>1. drops' # drops + 1
    BY DEF TypeOK
  <2> QED
    BY <2>1 DEF JournalWrite, Trails, JournalsStep, JournalsCurrent, JournalsRun
<1>2. /\ \A i \in Idx : jstep[i] # "absent" /\ StepTrails(d, jstep[i], i)
      /\ d.pc \in Stepping \cup {"reopenState", "reopenCur"} => d.state = "RUNNING"
      /\ d.pc \in Stepping \cup {"reopenCur", "skip"} \cup Ending \cup EngineEnding => jrun = "RUNNING"
      /\ d.pc \in EngineEnding => d.at \in Templated /\ d.steps[d.at] = "FAILED"
      /\ d.pc \notin CurrentPending => jcur = d.cur
  BY DEF Trails, JournalsStep, JournalsCurrent
<1>3. jrun' = "RUNNING"
  BY <1>1, <1>2 DEF JournalsStep, JournalsCurrent, Stepping, Ending, EngineEnding
<1>4. d.pc \notin {"reopenState", "stepRunning"} => jcur' = d.cur
  BY <1>1, <1>2 DEF CurrentPending
<1>5. ASSUME NEW i \in Idx
      PROVE  /\ jstep'[i] # "absent"
             /\ \/ jstep'[i] = d.steps[i]
                \/ jstep'[i] \notin Done /\ d.steps[i] = "FAILED" /\ i \in Templated
                \/ jstep'[i] \notin Done /\ d.steps[i] = "PENDING"
  <2>0. d.steps[i] # "absent" /\ jstep[i] # "absent" /\ StepTrails(d, jstep[i], i)
        /\ d.pc # "idle" /\ i \in DOMAIN jstep
    BY <1>2, NotIdle DEF Record, StepStates, Done, TypeOK, JournalsRun
  <2>1. CASE i = d.at /\ d.pc \in JournalsStep
    BY <1>1, <2>0, <2>1
  <2>2. CASE ~(i = d.at /\ d.pc \in JournalsStep)
    <3>1. jstep'[i] = jstep[i]
      BY <1>1, <2>0, <2>2
    <3> QED
      BY <2>0, <2>2, <3>1 DEF StepTrails, StepPending
  <2> QED
    BY <2>1, <2>2
<1>6. d.pc # "insertRun"
  BY DEF JournalsStep, JournalsCurrent
<1> QED
  BY <1>2, <1>3, <1>4, <1>5, <1>6 DEF Written

\* A drive whose agent is at work has nothing to write.
LEMMA AgentWritten ==
    ASSUME NEW d \in Record, Trails(d, jrun, jcur, jstep), d.pc \in Agent
    PROVE  Written(d, jrun, jcur, jstep)
<1>1. \A i \in Idx : jstep[i] # "absent" /\ StepTrails(d, jstep[i], i)
  BY DEF Trails, Agent
<1> QED
  BY <1>1 DEF Trails, Written, StepTrails, StepPending, JournalsStep, Stepping, Agent,
              EngineEnding, CurrentPending, JournalsCurrent

\* What a claim or a rebuild registers trails the journal it was read from.
LEMMA FreshTrails ==
    ASSUME TypeOK, RowFirst, jrun # "none" => \A i \in Idx : jstep[i] # "absent"
    PROVE  /\ jrun = "none" => Trails([Blank EXCEPT !.pc = "insertRun"], jrun, jcur, jstep)
           /\ jrun # "none" => Trails(Rebuilt(Overlaid), jrun, jcur, jstep)
           /\ jrun # "none" => Trails([Blank EXCEPT !.steps = ResetUnfinished(Overlaid),
                                                    !.pc = "reopenState"], jrun, jcur, jstep)
<1> USE DEF Stepping, Agent, Ending, EngineEnding, CurrentPending, JournalsCurrent
<1>1. ASSUME jrun = "none"
      PROVE  Trails([Blank EXCEPT !.pc = "insertRun"], jrun, jcur, jstep)
  BY <1>1 DEF Trails, Blank, RowFirst
<1>2. ASSUME jrun # "none" PROVE Trails(Rebuilt(Overlaid), jrun, jcur, jstep)
  <2> DEFINE d == Rebuilt(Overlaid)
  <2>1. d.pc = "idle" /\ d.state = jrun /\ d.cur = jcur /\ d.steps = Overlaid
    BY DEF Rebuilt, Blank
  <2> HIDE DEF d
  <2>2. \A i \in Idx : jstep[i] # "absent" /\ d.steps[i] = jstep[i]
    BY <1>2, <2>1 DEF Overlaid
  <2>3. Trails(d, jrun, jcur, jstep)
    BY <1>2, <2>1, <2>2 DEF Trails, StepTrails
  <2> QED
    BY <2>3 DEF d
<1>3. ASSUME jrun # "none"
      PROVE  Trails([Blank EXCEPT !.steps = ResetUnfinished(Overlaid),
                                  !.pc = "reopenState"], jrun, jcur, jstep)
  <2> DEFINE d == [Blank EXCEPT !.steps = ResetUnfinished(Overlaid), !.pc = "reopenState"]
  <2>1. d.pc = "reopenState" /\ d.state = "RUNNING" /\ d.steps = ResetUnfinished(Overlaid)
    BY DEF Blank
  <2> HIDE DEF d
  <2>2. \A i \in Idx : /\ jstep[i] # "absent"
                       /\ d.steps[i] = IF jstep[i] \in Done THEN jstep[i] ELSE "PENDING"
    BY <1>3, <2>1 DEF Overlaid, ResetUnfinished
  <2>3. Trails(d, jrun, jcur, jstep)
    BY <1>3, <2>1, <2>2 DEF Trails, StepTrails
  <2> QED
    BY <2>3 DEF d
<1> QED
  BY <1>1, <1>2, <1>3

\* With no write lost and no read failed, the rows of the steps come with the row of
\* the run.
LEMMA RowsStep ==
    ASSUME TypeOK, [Next]_vars, drops' = 0,
           drops = 0 => (jrun # "none" => \A i \in Idx : jstep[i] # "absent")
    PROVE  drops = 0 /\ (jrun' # "none" => \A i \in Idx : jstep'[i] # "absent")
<1>0. drops \in Nat
  BY Bounds DEF TypeOK
<1>1. ASSUME NEW r \in Recs, DriveJournal(r) \/ DriveEnd(r)
      PROVE  drops = 0 /\ (jrun' # "none" => \A i \in Idx : jstep'[i] # "absent")
  <2>1. JournalWrite(run[r]) /\ run[r] \in Record
    BY <1>1 DEF DriveJournal, DriveEnd, TypeOK
  <2>2. drops = 0
    BY <1>0, <2>1 DEF JournalWrite
  <2>3. jrun' # "none" => jrun # "none"
    BY <2>1 DEF JournalWrite, journal
  <2>4. \A i \in Idx : run[r].steps[i] # "absent"
    BY <2>1 DEF Record, StepStates, Done
  <2>5. \A i \in Idx : jstep'[i] = jstep[i] \/ jstep'[i] = run[r].steps[i]
    BY <2>1 DEF JournalWrite, journal, TypeOK
  <2> QED
    BY <2>2, <2>3, <2>4, <2>5
<1>2. ASSUME NEW r \in Recs, DriveInsert(r)
      PROVE  drops = 0 /\ (jrun' # "none" => \A i \in Idx : jstep'[i] # "absent")
  BY <1>0, <1>2 DEF DriveInsert, journal
<1>3. ASSUME NEW r \in Recs,
             DriveAgent(r) \/ DriveStray(r) \/ Start(r) \/ StatusRead(r) \/ Resume(r)
      PROVE  drops = 0 /\ (jrun' # "none" => \A i \in Idx : jstep'[i] # "absent")
  BY <1>0, <1>3 DEF DriveAgent, DriveStray, Start, RunIdAvailable, StatusRead, Resume,
                    ReadSteps, journal
<1>4. CASE Cancel \/ CancelJournaled \/ Crash \/ UNCHANGED vars
  BY <1>4 DEF Cancel, CancelJournaled, Crash, vars, journal
<1> QED
  BY <1>1, <1>2, <1>3, <1>4 DEF Next

\* The journal trails the registered record from one await to the next.
LEMMA TrailsStep ==
    ASSUME TypeOK, DriveInvariant, BegunRecords, RowFirst, JournalTrails, [Next]_vars
    PROVE  JournalTrails'
<1> SUFFICES ASSUME drops' = 0
             PROVE  /\ jrun' # "none" => \A i \in Idx : jstep'[i] # "absent"
                    /\ \A q \in Recs : run_registry' = q => Trails(run'[q], jrun', jcur', jstep')
  BY DEF JournalTrails
<1>0. /\ drops = 0
      /\ jrun # "none" => \A i \in Idx : jstep[i] # "absent"
      /\ jrun' # "none" => \A i \in Idx : jstep'[i] # "absent"
      /\ \A q \in Recs : run_registry = q => Trails(run[q], jrun, jcur, jstep)
      /\ \A s \in Recs : Driving(s) => run_registry = s
      /\ NoRec \notin Recs /\ DOMAIN run = Recs
  BY RowsStep, WorkflowAssumption
     DEF JournalTrails, DriveInvariant, LiveIsDriven, WorkflowAssumption, TypeOK
<1> SUFFICES ASSUME NEW q \in Recs, run_registry' = q
             PROVE  Trails(run'[q], jrun', jcur', jstep')
  BY <1>0
<1>1. ASSUME NEW r \in Recs, DriveInsert(r) \/ DriveJournal(r) \/ DriveAgent(r)
      PROVE  Trails(run'[q], jrun', jcur', jstep')
  <2> DEFINE d == run[r]
  <2>1. /\ d \in Record /\ run'[r] \in Record /\ d.pc # "idle" /\ Outcome(d, run'[r])
    BY <1>1, DriveOutcome
  <2>2. q = r /\ Trails(d, jrun, jcur, jstep) /\ Begun(d) /\ Sound(d)
    BY <1>0, <1>1, <2>1 DEF DriveInsert, DriveJournal, DriveAgent, Driving, BegunRecords,
                            DriveInvariant, SoundRecords
  <2>3. Written(d, jrun', jcur', jstep')
    <3>1. CASE DriveInsert(r)
      <4>1. d.pc = "insertRun" /\ jrun = "none"
        BY <2>2, <3>1 DEF DriveInsert, Trails
      <4>2. jrun' = "RUNNING" /\ jcur' = 0 /\ jstep' = [i \in Idx |-> "PENDING"]
        BY <1>0, <3>1, <4>1 DEF DriveInsert
      <4> QED
        BY <2>2, <4>1, <4>2 DEF Trails, Written, EngineEnding, CurrentPending, JournalsCurrent
    <3>2. CASE DriveJournal(r)
      BY <2>1, <2>2, <3>2, TrailsWritten DEF DriveJournal
    <3>3. CASE DriveAgent(r)
      BY <2>1, <2>2, <3>3, AgentWritten DEF DriveAgent, journal
    <3> QED
      BY <1>1, <3>1, <3>2, <3>3
  <2>4. Begins(d, run'[r]) => d.state = "RUNNING"
    <3>1. d.pc # "idle" /\ d.pc \in Labels
      BY <2>1 DEF Record
    <3>2. Begins(d, run'[r]) => d.pc \notin {"skip"} \cup Ending \cup EngineEnding
      BY <2>1 DEF Outcome, Begins, Skips, Leaves, Moves, Works, Settles, Errs, Agent, Ending,
                  EngineEnding
    <3> QED
      BY <2>3, <3>1, <3>2 DEF Written, Labels, Stepping, JournalsStep, JournalsCurrent,
                              JournalsRun, Ending, EngineEnding
  <2> HIDE DEF d
  <2>5. Trails(run'[r], jrun', jcur', jstep')
    BY <2>1, <2>2, <2>3, <2>4, OutcomeTrails
  <2> QED
    BY <2>2, <2>5
<1>2. ASSUME NEW r \in Recs, DriveEnd(r) PROVE Trails(run'[q], jrun', jcur', jstep')
  <2> DEFINE d == run[r]
             e == run'[r]
  <2>1. /\ d \in Record /\ d.pc \in {"endRun", "engineRun"} /\ e.pc = "idle"
        /\ e.state = d.state /\ e.cur = d.cur /\ e.steps = d.steps
    BY <1>2 DEF DriveEnd, TypeOK, Record
  <2>2. q = r /\ Trails(d, jrun, jcur, jstep) /\ Sound(d)
    BY <1>0, <1>2, <2>1 DEF DriveEnd, Driving, DriveInvariant, SoundRecords
  <2>3. jrun' = d.state /\ jcur' = jcur /\ jstep' = jstep
    <3>1. JournalWrite(d) /\ drops' # drops + 1 /\ jrun # "none"
      BY <1>0, <1>2, <2>1, <2>2 DEF DriveEnd, Trails
    <3> QED
      BY <2>1, <3>1 DEF JournalWrite, JournalsStep, JournalsCurrent, JournalsRun
  <2>4. /\ jcur = d.cur /\ d.state # "none"
        /\ \A i \in Idx : jstep[i] # "absent" /\ StepTrails(d, jstep[i], i)
    BY <2>1, <2>2 DEF Trails, CurrentPending, JournalsCurrent, Record, RunStates, Terminal
  <2>5. \A i \in Idx : StepTrails(e, jstep[i], i)
    <3> SUFFICES ASSUME NEW i \in Idx PROVE StepTrails(e, jstep[i], i)
      OBVIOUS
    <3>1. d.pc = "endRun" => d.steps[i] # "PENDING"
      BY <2>2 DEF Sound, Ending
    <3>2. d.pc = "engineRun" => \E k \in Templated : d.steps[k] = "FAILED"
      BY <2>2 DEF Trails, EngineEnding
    <3> QED
      BY <2>1, <2>4, <3>1, <3>2 DEF StepTrails, StepPending, JournalsStep, Unreached
  <2> HIDE DEF d, e
  <2>6. Trails(e, jrun', jcur', jstep')
    BY <2>1, <2>3, <2>4, <2>5 DEF Trails, Stepping, Agent, Ending, EngineEnding
  <2> QED
    BY <2>2, <2>6 DEF e
<1>3. ASSUME NEW r \in Recs, DriveStray(r) PROVE Trails(run'[q], jrun', jcur', jstep')
  <2> DEFINE d == run[r]
             e == run'[r]
  <2>1. /\ d \in Record /\ d.pc \in Agent /\ e.pc = "idle"
        /\ e.state = d.state /\ e.cur = d.cur /\ e.steps = d.steps
        /\ jrun' = jrun /\ jcur' = jcur /\ jstep' = jstep
    BY <1>3 DEF DriveStray, TypeOK, Record, journal
  <2>2. q = r /\ Trails(d, jrun, jcur, jstep)
    BY <1>0, <1>3, <2>1 DEF DriveStray, Driving, Agent
  <2> HIDE DEF d, e
  <2>3. /\ jrun = "RUNNING" /\ d.state = "RUNNING" /\ jcur = d.cur
        /\ \A i \in Idx : jstep[i] # "absent" /\ StepTrails(d, jstep[i], i)
    BY <2>1, <2>2 DEF Trails, Stepping, Agent, CurrentPending, JournalsCurrent
  <2>4. \A i \in Idx : StepTrails(e, jstep[i], i)
    BY <2>1, <2>3 DEF StepTrails, StepPending, JournalsStep, Agent
  <2>5. Trails(e, jrun', jcur', jstep')
    BY <2>1, <2>3, <2>4 DEF Trails, Stepping, Agent, Ending, EngineEnding
  <2> QED
    BY <2>2, <2>5 DEF e
<1>4. ASSUME NEW r \in Recs, Start(r) PROVE Trails(run'[q], jrun', jcur', jstep')
  <2>1. jrun = "none"
    BY <1>0, <1>4 DEF Start, RunIdAvailable
  <2> QED
    BY <1>0, <1>4, <2>1, FreshTrails, RegisterFacts DEF Start, journal
<1>5. ASSUME NEW r \in Recs, StatusRead(r) PROVE Trails(run'[q], jrun', jcur', jstep')
  <2>1. Register(r, Rebuilt(Overlaid))
    BY <1>0, <1>5 DEF StatusRead, ReadSteps
  <2> QED
    BY <1>0, <1>5, <2>1, FreshTrails, RegisterFacts DEF StatusRead, journal
<1>6. ASSUME NEW r \in Recs, Resume(r) PROVE Trails(run'[q], jrun', jcur', jstep')
  <2>1. Register(r, [Blank EXCEPT !.steps = ResetUnfinished(Overlaid),
                                  !.pc = "reopenState"])
    BY <1>0, <1>6 DEF Resume, ReadSteps
  <2> QED
    BY <1>0, <1>6, <2>1, FreshTrails, RegisterFacts DEF Resume, Resumable, journal
<1>7. CASE Cancel
  <2>1. /\ run'[q].pc = run[q].pc /\ run'[q].steps = run[q].steps
        /\ run'[q].state = run[q].state /\ run'[q].cur = run[q].cur /\ run'[q].at = run[q].at
        /\ jrun' = jrun /\ jcur' = jcur /\ jstep' = jstep /\ run_registry = q
    BY <1>0, <1>7 DEF Cancel, TypeOK, Record, journal
  <2> QED
    BY <1>0, <2>1 DEF Trails, StepTrails, Unreached
<1>8. CASE Crash \/ CancelJournaled
  BY <1>0, <1>8 DEF Crash, CancelJournaled
<1>9. CASE UNCHANGED vars
  BY <1>0, <1>9 DEF vars
<1> QED
  BY <1>1, <1>2, <1>3, <1>4, <1>5, <1>6, <1>7, <1>8, <1>9 DEF Next

\* Journal agreement: with no write lost and no read failed, the journal of a run
\* nobody drives is what its record says, after any interleaving of cancels, status
\* reads, crashes and resumes ("mutates the in-memory RunRecord FIRST, THEN writes
\* the journal").
THEOREM JournalIsTrue == Spec => []JournalAgrees
<1>1. Init => BegunRecords /\ RowFirst /\ JournalTrails
  <2>1. Init => BegunRecords /\ RowFirst
    BY DEF Init, BegunRecords, Begun, RowFirst, Blank, Working, Agent
  <2>2. Init => JournalTrails
    BY WorkflowAssumption DEF Init, JournalTrails, WorkflowAssumption
  <2> QED
    BY <2>1, <2>2
<1>2. TypeOK /\ DriveInvariant /\ BegunRecords /\ RowFirst /\ JournalTrails /\ [Next]_vars
        => (BegunRecords /\ RowFirst /\ JournalTrails)'
  BY BegunStep, RowFirstStep, TrailsStep
<1>3. DriveInvariant /\ JournalTrails => JournalAgrees
  <2> SUFFICES ASSUME DriveInvariant, JournalTrails,
                      NEW r \in Recs, run_registry = r, ~active_drives, drops = 0
               PROVE  /\ jrun = run[r].state /\ jcur = run[r].cur
                      /\ \A i \in Idx : \/ jstep[i] = run[r].steps[i]
                                        \/ (i \in Templated /\ run[r].steps[i] = "FAILED")
                                        \/ /\ jrun = "RUNNING" \/ Unreached(run[r], i)
                                           /\ {jstep[i], run[r].steps[i]} \cap Done = {}
    BY DEF JournalAgrees
  <2>1. run[r].pc = "idle" /\ Trails(run[r], jrun, jcur, jstep)
    BY DEF DriveInvariant, LiveIsDriven, JournalTrails, Driving
  <2>2. /\ jrun = run[r].state /\ jcur = run[r].cur
        /\ \A i \in Idx : StepTrails(run[r], jstep[i], i)
    BY <2>1 DEF Trails, CurrentPending, JournalsCurrent
  <2> QED
    BY <2>1, <2>2 DEF StepTrails, StepPending, JournalsStep, Done
<1> QED
  BY <1>1, <1>2, <1>3, DriveInvariantHolds, PTL DEF Spec

-----------------------------------------------------------------------------
(* The engine implements the lifecycle of a run.                                *)

\* Every step of the engine is a step of the lifecycle or leaves it alone.
LEMMA LifecycleStep ==
    ASSUME ~FailingReads, TypeOK, DriveInvariant, [Next]_vars
    PROVE  [Lifecycle!Next]_(Lifecycle!vars)
<1> USE DEF Lifecycle!Next, Lifecycle!vars, Lifecycle!Claim, Lifecycle!MarkRunning,
            Lifecycle!Settle, Lifecycle!Lose, Lifecycle!CancelRemnant,
            Lifecycle!Open, Lifecycle!Terminal
<1>0. /\ \A r \in Recs : Driving(r) => active_drives
      /\ active_drives => jrun \notin {"COMPLETED", "CANCELLED"} /\ run_registry # NoRec
      /\ jrun \in {"none", "RUNNING", "FAILED", "COMPLETED", "CANCELLED"}
      /\ active_drives \in BOOLEAN
  BY DEF DriveInvariant, LiveIsDriven, LiveIsOpen, TypeOK, RunStates, Terminal
<1>1. ASSUME NEW r \in Recs, DriveInsert(r) PROVE [Lifecycle!Next]_(Lifecycle!vars)
  <2>1. active_drives /\ active_drives' = active_drives
    BY <1>0, <1>1 DEF DriveInsert, Driving
  <2>2. jrun' = jrun \/ (jrun = "none" /\ jrun' = "RUNNING")
    BY <1>1 DEF DriveInsert, MayDrop, journal
  <2> QED
    BY <1>0, <2>1, <2>2
<1>2. ASSUME NEW r \in Recs, DriveJournal(r) PROVE [Lifecycle!Next]_(Lifecycle!vars)
  <2>1. active_drives /\ active_drives' = active_drives
    BY <1>0, <1>2, NotIdle DEF DriveJournal, Driving, JournalsRun
  <2>2. run[r].pc \in JournalsRun => run[r].state = "RUNNING"
    BY <1>2 DEF DriveJournal, JournalsRun, JournalsStep, JournalsCurrent,
                DriveInvariant, SoundRecords, Sound
  <2>3. jrun' = jrun \/ jrun' = "RUNNING"
    BY <1>2, <2>2, RowWrite DEF DriveJournal
  <2> QED
    BY <1>0, <2>1, <2>3
<1>3. ASSUME NEW r \in Recs, DriveEnd(r) PROVE [Lifecycle!Next]_(Lifecycle!vars)
  <2>1. active_drives /\ active_drives' = FALSE
    BY <1>0, <1>3 DEF DriveEnd, Driving
  <2>2. run[r].state \in Terminal
    BY <1>3 DEF DriveEnd, DriveInvariant, SoundRecords, Sound, Ending, EngineEnding
  <2>3. jrun' = jrun \/ (jrun # "none" /\ jrun' \in Terminal)
    <3>1. JournalWrite(run[r])
      BY <1>3 DEF DriveEnd
    <3> QED
      BY <2>2, <3>1, RowWrite
  <2> QED
    BY <1>0, <2>1, <2>3 DEF Terminal
<1>4. ASSUME NEW r \in Recs, DriveStray(r) PROVE [Lifecycle!Next]_(Lifecycle!vars)
  BY <1>0, <1>4, NotIdle DEF DriveStray, Driving, journal
<1>5. ASSUME NEW r \in Recs, Start(r) \/ Resume(r)
      PROVE  [Lifecycle!Next]_(Lifecycle!vars)
  BY <1>0, <1>5 DEF Start, Resume, RunIdAvailable, MayMisread, NotDriven, Resumable, journal
<1>6. ASSUME NEW r \in Recs, DriveAgent(r) \/ StatusRead(r)
      PROVE  [Lifecycle!Next]_(Lifecycle!vars)
  BY <1>6 DEF DriveAgent, StatusRead, journal
<1>7. CASE CancelJournaled
  BY <1>0, <1>7 DEF CancelJournaled, Terminal
<1>8. CASE Crash
  BY <1>0, <1>8 DEF Crash, journal
<1>9. CASE Cancel \/ UNCHANGED vars
  BY <1>9 DEF Cancel, vars, journal
<1> QED
  BY <1>1, <1>2, <1>3, <1>4, <1>5, <1>6, <1>7, <1>8, <1>9 DEF Next

\* The engine with its journal implements RunLifecycle, for every number of steps,
\* of lost writes and of crashes, provided journal reads do not fail: one drive
\* at a time, a row nobody drives changes only by the cancel of a remnant.
THEOREM ImplementsLifecycle ==
    ASSUME ~FailingReads
    PROVE  Spec => LifecycleSpec
<1>1. Init => Lifecycle!Init
  BY DEF Init, Lifecycle!Init
<1>2. TypeOK /\ DriveInvariant /\ [Next]_vars => [Lifecycle!Next]_(Lifecycle!vars)
  BY LifecycleStep
<1> QED
  BY <1>1, <1>2, DriveInvariantHolds, PTL DEF Spec, LifecycleSpec, Lifecycle!Spec

\* A settled row is final, provided journal reads do not fail: no late write, no
\* resume and no start reopens a COMPLETED or CANCELLED run (start_run, "a durable
\* row must never be clobbered by a reused id").
THEOREM SettledIsFinal ==
    ASSUME ~FailingReads
    PROVE  Spec => SettledRowIsFinal
<1>1. [Lifecycle!Next]_(Lifecycle!vars)
        => [jrun' = jrun \/ jrun \notin {"COMPLETED", "CANCELLED"}]_vars
  BY DEF Lifecycle!Next, Lifecycle!vars, Lifecycle!Claim, Lifecycle!MarkRunning,
         Lifecycle!Settle, Lifecycle!Lose, Lifecycle!CancelRemnant,
         Lifecycle!Open, Lifecycle!Terminal
<1>2. TypeOK /\ DriveInvariant /\ [Next]_vars
        => [jrun' = jrun \/ jrun \notin {"COMPLETED", "CANCELLED"}]_vars
  BY <1>1, LifecycleStep
<1> QED
  BY <1>2, DriveInvariantHolds, PTL DEF Spec, SettledRowIsFinal
-----------------------------------------------------------------------------
(* The tooling operations beside it.  For every number of operations, readers    *)
(* and slots: a CLI has one writer, a verdict is true, and the cache does not    *)
(* lie.                                                                          *)

\* What the constants are assumed to be, as the operations name it.
LEMMA ToolingAdmits ==
    /\ Adapters \subseteq Tool!KnownAdapters /\ Adapters # {}
    /\ Collections \subseteq Tool!KnownCollections
    /\ Slots \in Nat \ {0} /\ Ring \in Nat \ {0}
    /\ Hosts \subseteq [Adapters -> Tool!Look] /\ Requests \subseteq Tool!Request
    /\ None \notin Adapters \cup Names \cup Ops
BY ToolingAssumption
   DEF KnownAdapters, InstallOnly, KnownCollections, Look, Request, Actions,
       Tool!KnownAdapters, Tool!InstallOnly, Tool!KnownCollections, Tool!Look, Tool!Request,
       Tool!Actions

\* The locks of the providers.
LockHeldOnce ==
    \A o, x \in Ops : pc[o] \in Tool!Holding /\ pc[x] \in Tool!Holding /\ Tool!Prov(o) = Tool!Prov(x) => o = x

\* What belongs to where an operation is.
Stage(o) ==
    /\ pc[o] # "new" => req[o] \in Tool!Request /\ Tool!Plans(req[o])
    /\ pc[o] \in {"new", "lock", "slot"} => child[o] = "none"
    /\ pc[o] = "verify" => child[o] = "ok" /\ check[o].pc # "none"
    /\ pc[o] = "reap" => child[o] \notin Tool!Alive
    /\ pc[o] = "end" /\ o \notin cut => child[o] \notin Tool!Alive
    /\ check[o].pc # "none" => pc[o] \in {"verify", "end"}

Held(p) == \E o \in Ops : pc[o] \in Tool!Holding /\ Tool!Prov(o) = p

\* An adapter as it was seen, as long as nobody has held it since.
Current(p, look) == look = Tool!Truth(p) \/ Held(p)

LooksAreCurrent ==
    /\ \A r \in Readers : reader[r].pc # "idle" /\ ~reader[r].suspect =>
          \A p \in Tool!Scope(reader[r].on) \ reader[r].todo : Current(p, reader[r].looks[p])
    /\ \A p \in Tool!ListCached : lists[p] # None /\ ~lists[p].suspect => Current(p, lists[p].look)
    /\ \A c \in Collections : pages[c] # None /\ ~pages[c].suspect =>
          \A p \in Tool!Scope(c) : Current(p, pages[c].looks[p])
    /\ \A o \in Ops : check[o].pc = "read" /\ ~check[o].suspect => Current(Tool!Prov(o), check[o].look)
    /\ \A o \in Ops : pc[o] = "verify" /\ check[o].pc \in {"read", "done"} /\ ~check[o].suspect =>
          check[o].look = Tool!Truth(Tool!Prov(o))

\* A list is kept by a reader that has just seen it.
KeepsWhatItSaw ==
    \A r \in Readers :
        /\ reader[r].todo \subseteq Tool!Scope(reader[r].on)
        /\ reader[r].pc = "keep" =>
              reader[r].at \in (Tool!ListCached \cap Tool!Scope(reader[r].on)) \ reader[r].todo

ToolingInvariant ==
    /\ Tool!TypeOK /\ LockHeldOnce /\ \A o \in Ops : Stage(o)
    /\ KeepsWhatItSaw
    /\ cut = {} => LooksAreCurrent

-----------------------------------------------------------------------------
(* Types.                                                                       *)

ReaderType == [pc : {"idle", "look", "keep"}, on : Tool!KnownCollections, scan : BOOLEAN,
               todo : SUBSET Adapters, at : Adapters,
               looks : [Adapters -> Tool!Look], suspect : BOOLEAN]

LEMMA ScopeIsAdapters == \A c : Tool!Scope(c) \subseteq Adapters
  BY DEF Tool!Scope

LEMMA SeenIsLook ==
    ASSUME host \in [Adapters -> Tool!Look], NEW p \in Adapters, NEW answers \in BOOLEAN
    PROVE  Tool!Seen(p, answers) \in Tool!Look
  <1>1. host[p].cli \in BOOLEAN /\ host[p].items \subseteq Names
    BY DEF Tool!Look
  <1>2. Tool!Listed(p, host[p], answers) \subseteq Names
    BY <1>1 DEF Tool!Listed, Tool!ClaudeListed, Tool!CodexListed, Tool!SkillsListed, Tool!AgyListed
  <1> QED BY <1>1, <1>2 DEF Tool!Seen, Tool!Look

LEMMA EffectIsLook ==
    ASSUME NEW r \in Tool!Request, NEW h \in Tool!Look
    PROVE  Tool!Effect(r, h) \in Tool!Look
  <1>1. r.target \in Names
    BY DEF Tool!Request
  <1> QED BY <1>1 DEF Tool!Effect, Tool!Look

LEMMA ReadersBegin ==
    /\ Tool!Idle \in ReaderType
    /\ \A c \in Tool!KnownCollections, scan \in BOOLEAN : Tool!Collecting(c, scan) \in ReaderType
  <1>1. Tool!Some(Adapters) \in Adapters
    BY ToolingAdmits DEF Tool!Some
  <1>2. Tool!Some(Tool!KnownCollections) \in Tool!KnownCollections
    BY DEF Tool!Some, Tool!KnownCollections
  <1>3. Tool!Blank \in Tool!Look
    BY DEF Tool!Blank, Tool!Look
  <1>4. Tool!Idle \in ReaderType
    BY <1>1, <1>2, <1>3 DEF Tool!Idle, ReaderType
  <1> QED BY <1>4, ScopeIsAdapters DEF Tool!Collecting, Tool!Idle, ReaderType

LEMMA CrossedIsReader ==
    ASSUME Tool!TypeOK, NEW r \in Readers
    PROVE  Tool!Crossed(r) \in ReaderType
  <1>1. reader[r] \in ReaderType
    BY DEF Tool!TypeOK, ReaderType
  <1>2. [reader[r] EXCEPT !.suspect = TRUE] \in ReaderType
    BY <1>1 DEF ReaderType
  <1> QED BY <1>1, <1>2 DEF Tool!Crossed

LEMMA RetainedIsRing ==
    ASSUME NEW s \in Seq(Ops), NEW o \in Ops
    PROVE  Tool!Retained(Append(s, o)) \in Seq(Ops)
  <1>1. Append(s, o) \in Seq(Ops) /\ Len(Append(s, o)) \in Nat
    OBVIOUS
  <1>2. CASE Len(Append(s, o)) > Ring
    <2>1. /\ Len(Append(s, o)) - Ring + 1 \in 1..(Len(Append(s, o)) + 1)
          /\ Len(Append(s, o)) - Ring + 1 >= 1
      BY <1>1, <1>2, ToolingAdmits
    <2>2. SubSeq(Append(s, o), Len(Append(s, o)) - Ring + 1, Len(Append(s, o))) \in Seq(Ops)
      BY <1>1, <2>1
    <2> QED BY <1>2, <2>2 DEF Tool!Retained
  <1>3. CASE ~(Len(Append(s, o)) > Ring)
    BY <1>1, <1>3 DEF Tool!Retained
  <1> QED BY <1>2, <1>3

LEMMA EndsTypes ==
    ASSUME Tool!TypeOK, NEW o \in Ops, NEW s \in {"succeeded", "failed", "cancelled"}, Tool!Ends(o, s),
           host' \in [Adapters -> Tool!Look], ring' \in Seq(Ops), req' \in [Ops -> {None} \cup Tool!Request],
           cancelling' \subseteq Ops, cut' \subseteq Ops
    PROVE  Tool!TypeOK'
  <1>1. reader' \in [Readers -> ReaderType]
    BY CrossedIsReader DEF Tool!Ends
  <1>2. check' \in [Ops -> [pc : {"none", "asked", "read", "done"}, look : Tool!Look, suspect : BOOLEAN]]
    <2> DEFINE CheckType == [pc : {"none", "asked", "read", "done"}, look : Tool!Look, suspect : BOOLEAN]
    <2>1. ASSUME NEW k \in CheckType PROVE [k EXCEPT !.suspect = TRUE] \in CheckType
      OBVIOUS
    <2>2. check \in [Ops -> CheckType]
      BY DEF Tool!TypeOK
    <2>3. check' = [x \in Ops |-> IF check[x].pc = "read" THEN [check[x] EXCEPT !.suspect = TRUE]
                                                         ELSE check[x]]
      BY DEF Tool!Ends
    <2> HIDE DEF CheckType
    <2>4. \A x \in Ops : (IF check[x].pc = "read" THEN [check[x] EXCEPT !.suspect = TRUE]
                                                 ELSE check[x]) \in CheckType
      BY <2>1, <2>2
    <2>5. check' \in [Ops -> CheckType]
      BY <2>3, <2>4
    <2> QED BY <2>5 DEF CheckType
  <1>3. /\ pages' \in [Collections -> {None} \cup [looks : [Adapters -> Tool!Look], suspect : BOOLEAN]]
        /\ lists' \in [Tool!ListCached -> {None} \cup [look : Tool!Look, suspect : BOOLEAN]]
    BY DEF Tool!Ends
  <1>4. /\ status' \in [Ops -> {"none", "queued", "running", "verifying", "succeeded", "failed",
                                "cancelled"}]
        /\ pc' \in [Ops -> {"new", "end"} \cup Tool!Waiting \cup Tool!Holding]
        /\ why' \in [Ops -> {"none", "timeout", "cancel"}]
        /\ child' \in [Ops -> Tool!Alive \cup {"none", "ok", "bad", "killed"}]
    BY DEF Tool!TypeOK, Tool!Ends, Tool!Goes
  <1> QED BY <1>1, <1>2, <1>3, <1>4 DEF Tool!TypeOK, ReaderType

LEMMA TypeInit == Tool!Init => Tool!TypeOK
  <1> SUFFICES ASSUME Tool!Init PROVE Tool!TypeOK
    OBVIOUS
  <1>1. Tool!NoCheck \in [pc : {"none", "asked", "read", "done"}, look : Tool!Look, suspect : BOOLEAN]
    BY DEF Tool!NoCheck, Tool!Blank, Tool!Look
  <1>2. host \in [Adapters -> Tool!Look]
    BY ToolingAdmits DEF Tool!Init
  <1>3. reader \in [Readers -> ReaderType]
    BY ReadersBegin DEF Tool!Init
  <1>4. ring \in Seq(Ops)
    BY DEF Tool!Init
  <1> QED BY <1>1, <1>2, <1>3, <1>4 DEF Tool!Init, Tool!TypeOK, ReaderType

LEMMA TypeTask ==
    ASSUME Tool!TypeOK, NEW o \in Ops, Tool!Task(o)
    PROVE  Tool!TypeOK'
  <1>1. CASE Tool!TakeLock(o)
    BY <1>1 DEF Tool!TypeOK, Tool!TakeLock, Tool!Goes, Tool!queue, Tool!Holding
  <1>2. CASE Tool!TakeSlot(o)
    BY <1>2 DEF Tool!TypeOK, Tool!TakeSlot, Tool!Goes, Tool!queue, Tool!Holding, Tool!Running,
                Tool!Alive
  <1>3. CASE Tool!SpawnFails(o)
    BY <1>3, EndsTypes DEF Tool!SpawnFails, Tool!queue, Tool!TypeOK
  <1>4. CASE Tool!Collect(o)
    <2>1. CASE Tool!Ends(o, "failed") /\ UNCHANGED <<host, Tool!queue, cut>>
      BY <2>1, EndsTypes DEF Tool!queue, Tool!TypeOK
    <2>2. CASE child[o] = "ok"
      <3>1. /\ pc' = [pc EXCEPT ![o] = "verify"] /\ status' = [status EXCEPT ![o] = "verifying"]
            /\ check' = [check EXCEPT ![o].pc = "asked"]
            /\ UNCHANGED <<host, pages, lists, Tool!queue, why, child, reader, cut>>
        BY <1>4, <2>2 DEF Tool!Collect, Tool!Goes
      <3>2. pc' \in [Ops -> {"new", "end"} \cup Tool!Waiting \cup Tool!Holding]
        BY <3>1 DEF Tool!TypeOK, Tool!Holding
      <3>3. check' \in [Ops -> [pc : {"none", "asked", "read", "done"}, look : Tool!Look, suspect : BOOLEAN]]
        BY ZenonT(60), <3>1 DEF Tool!TypeOK
      <3> QED BY <3>1, <3>2, <3>3 DEF Tool!TypeOK, Tool!queue
    <2> QED BY <1>4, <2>1, <2>2 DEF Tool!Collect
  <1>5. CASE Tool!Drained(o)
    BY <1>5 DEF Tool!TypeOK, Tool!Drained, Tool!Goes, Tool!queue, Tool!Holding, Tool!Running
  <1>6. CASE Tool!Timeout(o)
    BY <1>6 DEF Tool!TypeOK, Tool!Timeout, Tool!Goes, Tool!queue, Tool!Holding, Tool!Running
  <1>7. CASE Tool!Kill(o)
    BY <1>7 DEF Tool!TypeOK, Tool!Kill, Tool!Goes, Tool!queue, Tool!Holding, Tool!Running
  <1>8. CASE Tool!Reap(o)
    BY <1>8, EndsTypes DEF Tool!Reap, Tool!queue, Tool!TypeOK
  <1>9. CASE Tool!Deliver(o)
    <2>1. CASE pc[o] \in {"work", "hung"}
      <3>1. /\ pc' = [pc EXCEPT ![o] = "drain"] /\ why' = [why EXCEPT ![o] = "cancel"]
            /\ cancelling' = cancelling \ {o}
            /\ UNCHANGED <<host, pages, lists, ring, req, status, child, check, reader, cut>>
        BY <1>9, <2>1 DEF Tool!Deliver, Tool!Goes, Tool!Waiting
      <3> QED BY <3>1 DEF Tool!TypeOK, Tool!Holding, Tool!Running
    <2>2. CASE /\ Tool!Ends(o, "cancelled") /\ UNCHANGED <<host, ring, req>> /\ cut' \subseteq cut \cup {o}
               /\ cancelling' = cancelling \ {o}
      BY <2>2, EndsTypes DEF Tool!TypeOK
    <2> QED BY <1>9, <2>1, <2>2 DEF Tool!Deliver
  <1>10. CASE Tool!Verified(o)
    BY <1>10, EndsTypes DEF Tool!Verified, Tool!queue, Tool!TypeOK
  <1> QED BY <1>1, <1>2, <1>3, <1>4, <1>5, <1>6, <1>7, <1>8, <1>9, <1>10 DEF Tool!Task

LEMMA TypeVerification ==
    ASSUME Tool!TypeOK, NEW o \in Ops, check[o].pc # "none" => req[o] \in Tool!Request, Tool!Verification(o)
    PROVE  Tool!TypeOK'
  <1>1. CASE Tool!VerifyRead(o)
    <2>1. Tool!Prov(o) \in Adapters
      BY <1>1 DEF Tool!VerifyRead, Tool!Prov, Tool!Request
    <2>2. PICK answers \in Tool!Answers :
             check' = [check EXCEPT ![o] = [pc |-> "read", look |-> Tool!Seen(Tool!Prov(o), answers),
                                            suspect |-> Tool!Seen(Tool!Prov(o), answers) # Tool!Truth(Tool!Prov(o))]]
      BY <1>1 DEF Tool!VerifyRead
    <2>3. Tool!Seen(Tool!Prov(o), answers) \in Tool!Look
      BY <2>1, <2>2, SeenIsLook DEF Tool!TypeOK, Tool!Answers
    <2>4. check' \in [Ops -> [pc : {"none", "asked", "read", "done"}, look : Tool!Look, suspect : BOOLEAN]]
      BY <2>2, <2>3 DEF Tool!TypeOK
    <2> QED BY <1>1, <2>4 DEF Tool!VerifyRead, Tool!TypeOK, Tool!queue
  <1>2. CASE Tool!VerifyKeep(o)
    <2>1. check' \in [Ops -> [pc : {"none", "asked", "read", "done"}, look : Tool!Look, suspect : BOOLEAN]]
      BY <1>2 DEF Tool!VerifyKeep, Tool!TypeOK
    <2>2. lists' \in [Tool!ListCached -> {None} \cup [look : Tool!Look, suspect : BOOLEAN]]
      BY <1>2 DEF Tool!VerifyKeep, Tool!TypeOK
    <2> QED BY <1>2, <2>1, <2>2 DEF Tool!VerifyKeep, Tool!TypeOK, Tool!queue
  <1> QED BY <1>1, <1>2 DEF Tool!Verification

LEMMA TypeChild ==
    ASSUME Tool!TypeOK, NEW o \in Ops, child[o] \in Tool!Alive => req[o] \in Tool!Request, Tool!Child(o)
    PROVE  Tool!TypeOK'
  <1>1. CASE Tool!ChildActs(o)
    <2>1. req[o] \in Tool!Request /\ Tool!Prov(o) \in Adapters
      BY <1>1 DEF Tool!ChildActs, Tool!Alive, Tool!Prov, Tool!Request
    <2>2. host' \in [Adapters -> Tool!Look]
      BY <1>1, <2>1, EffectIsLook DEF Tool!ChildActs, Tool!TypeOK
    <2> QED BY <1>1, <2>2 DEF Tool!ChildActs, Tool!TypeOK, Tool!queue, Tool!Alive
  <1>2. CASE Tool!ChildExits(o)
    <2>1. child' \in [Ops -> Tool!Alive \cup {"none", "ok", "bad", "killed"}]
      BY <1>2 DEF Tool!ChildExits, Tool!TypeOK
    <2> QED BY <1>2, <2>1 DEF Tool!ChildExits, Tool!TypeOK, Tool!queue
  <1>3. CASE Tool!ChildMutes(o)
    BY <1>3 DEF Tool!ChildMutes, Tool!TypeOK, Tool!queue, Tool!Alive
  <1> QED BY <1>1, <1>2, <1>3 DEF Tool!Child

LEMMA TypeRead ==
    ASSUME Tool!TypeOK, KeepsWhatItSaw, NEW r \in Readers, Tool!Read(r)
    PROVE  Tool!TypeOK'
  <1>0. reader[r] \in ReaderType
    BY DEF Tool!TypeOK, ReaderType
  <1>1. ASSUME NEW c \in Collections, Tool!Get(r, c) PROVE Tool!TypeOK'
    <2>1. reader' \in [Readers -> ReaderType]
      BY <1>1, ReadersBegin, ToolingAdmits DEF Tool!Get, Tool!TypeOK, ReaderType
    <2> QED BY <1>1, <2>1 DEF Tool!Get, Tool!TypeOK, Tool!queue, ReaderType
  <1>2. CASE Tool!Scan(r)
    <2>1. reader' \in [Readers -> ReaderType]
      BY <1>2, ReadersBegin DEF Tool!Scan, Tool!TypeOK, ReaderType, Tool!KnownCollections
    <2> QED BY <1>2, <2>1 DEF Tool!Scan, Tool!TypeOK, Tool!queue, ReaderType
  <1>3. CASE Tool!KeepList(r)
    <2>1. reader' \in [Readers -> ReaderType]
      <3>1. [reader[r] EXCEPT !.pc = "look"] \in ReaderType
        BY <1>0 DEF ReaderType
      <3> QED BY <1>3, <3>1 DEF Tool!KeepList, Tool!TypeOK, ReaderType
    <2>2. lists' \in [Tool!ListCached -> {None} \cup [look : Tool!Look, suspect : BOOLEAN]]
      BY <1>0, <1>3 DEF Tool!KeepList, Tool!TypeOK, ReaderType
    <2> QED BY <1>3, <2>1, <2>2 DEF Tool!KeepList, Tool!TypeOK, Tool!queue, ReaderType
  <1>4. CASE Tool!Publish(r)
    <2>1. reader' \in [Readers -> ReaderType]
      BY <1>4, ReadersBegin DEF Tool!Publish, Tool!TypeOK, ReaderType, Tool!KnownCollections
    <2>2. pages' \in [Collections -> {None} \cup [looks : [Adapters -> Tool!Look], suspect : BOOLEAN]]
      BY <1>0, <1>4 DEF Tool!Publish, Tool!TypeOK, ReaderType
    <2> QED BY <1>4, <2>1, <2>2 DEF Tool!Publish, Tool!TypeOK, Tool!queue, ReaderType
  <1>5. ASSUME NEW p \in Adapters, Tool!LookAt(r, p) PROVE Tool!TypeOK'
    <2>0. reader \in [Readers -> ReaderType]
      BY DEF Tool!TypeOK, ReaderType
    <2>1. ASSUME NEW look \in Tool!Look, NEW suspect \in BOOLEAN
          PROVE  /\ Tool!Saw(r, p, look, suspect) \in ReaderType
                 /\ [Tool!Saw(r, p, look, suspect) EXCEPT !.pc = "keep", !.at = p] \in ReaderType
      <3>1. [reader[r].looks EXCEPT ![p] = look] \in [Adapters -> Tool!Look]
        BY <1>0 DEF ReaderType
      <3>2. Tool!Saw(r, p, look, suspect) \in ReaderType
        BY <1>0, <3>1 DEF ReaderType, Tool!Saw
      <3> QED BY <3>2 DEF ReaderType
    <2>2. reader' \in [Readers -> ReaderType]
      <3>1. CASE Tool!Lists(r, p) /\ lists[p] # None
        <4>1. lists[p].look \in Tool!Look /\ lists[p].suspect \in BOOLEAN
          BY <3>1 DEF Tool!Lists, Tool!TypeOK
        <4>2. Tool!Saw(r, p, lists[p].look, lists[p].suspect) \in ReaderType
          BY <2>1, <4>1
        <4>3. reader' = [reader EXCEPT ![r] = Tool!Saw(r, p, lists[p].look, lists[p].suspect)]
          BY <1>5, <3>1 DEF Tool!LookAt
        <4> QED BY <2>0, <4>2, <4>3
      <3>2. CASE ~(Tool!Lists(r, p) /\ lists[p] # None)
        <4>1. PICK answers \in Tool!Answers :
                 \/ reader' = [reader EXCEPT ![r] = Tool!Saw(r, p, Tool!Seen(p, answers), Tool!Seen(p, answers) # Tool!Truth(p))]
                 \/ reader' = [reader EXCEPT ![r] =
                        [Tool!Saw(r, p, Tool!Seen(p, answers), Tool!Seen(p, answers) # Tool!Truth(p)) EXCEPT !.pc = "keep", !.at = p]]
          BY <1>5, <3>2 DEF Tool!LookAt
        <4>2. Tool!Seen(p, answers) \in Tool!Look
          BY SeenIsLook DEF Tool!TypeOK, Tool!Answers
        <4>3. Tool!Saw(r, p, Tool!Seen(p, answers), Tool!Seen(p, answers) # Tool!Truth(p)) \in ReaderType
          BY <2>1, <4>2
        <4>4. [Tool!Saw(r, p, Tool!Seen(p, answers), Tool!Seen(p, answers) # Tool!Truth(p)) EXCEPT !.pc = "keep", !.at = p]
                 \in ReaderType
          BY <2>1, <4>2
        <4> QED BY <2>0, <4>1, <4>3, <4>4
      <3> QED BY <3>1, <3>2
    <2> QED BY <1>5, <2>2 DEF Tool!LookAt, Tool!TypeOK, Tool!queue, ReaderType
  <1> QED BY <1>1, <1>2, <1>3, <1>4, <1>5 DEF Tool!Read

-----------------------------------------------------------------------------
(* One writer.                                                                  *)

Discipline == LockHeldOnce /\ \A o \in Ops : Stage(o)

\* An operation that ends holds nothing any more, and its process is no more alive than it was.
LEMMA EndsKeepsDiscipline ==
    ASSUME Tool!TypeOK, Discipline, NEW o \in Ops, NEW s, Tool!Ends(o, s), req' = req, pc[o] # "new",
           \/ cut' = cut /\ child[o] \notin Tool!Alive
           \/ cut' = cut \cup {o}
    PROVE  Discipline'
  <1>1. /\ pc' = [pc EXCEPT ![o] = "end"]
        /\ child' = [child EXCEPT ![o] = IF @ \in Tool!Alive THEN @ ELSE "none"]
        /\ \A x \in Ops : check'[x].pc = check[x].pc
    BY DEF Tool!Ends, Tool!Goes, Tool!TypeOK
  <1>2. LockHeldOnce'
    BY <1>1 DEF Discipline, LockHeldOnce, Tool!TypeOK, Tool!Prov, Tool!Holding, Tool!Running
  <1>3. ASSUME NEW x \in Ops PROVE Stage(x)'
    BY <1>1 DEF Discipline, Stage, Tool!TypeOK, Tool!Alive
  <1> QED BY <1>2, <1>3 DEF Discipline

LEMMA TaskKeepsDiscipline ==
    ASSUME Tool!TypeOK, Discipline, NEW o \in Ops, Tool!Task(o)
    PROVE  Discipline'
  <1> USE DEF Discipline
  <1>0. Stage(o)
    OBVIOUS
  <1>1. CASE Tool!TakeLock(o)
    <2>1. LockHeldOnce'
      BY <1>1 DEF Tool!TakeLock, Tool!Goes, Tool!queue, LockHeldOnce, Tool!TypeOK, Tool!Prov,
                  Tool!Holding
    <2>2. ASSUME NEW x \in Ops PROVE Stage(x)'
      BY <1>0, <1>1 DEF Tool!TakeLock, Tool!Goes, Tool!queue, Stage, Tool!TypeOK
    <2> QED BY <2>1, <2>2
  <1>2. CASE Tool!TakeSlot(o)
    <2>1. LockHeldOnce'
      BY <1>2 DEF Tool!TakeSlot, Tool!Goes, Tool!queue, LockHeldOnce, Tool!TypeOK, Tool!Prov,
                  Tool!Holding, Tool!Running
    <2>2. ASSUME NEW x \in Ops PROVE Stage(x)'
      BY <1>0, <1>2 DEF Tool!TakeSlot, Tool!Goes, Tool!queue, Stage, Tool!TypeOK
    <2> QED BY <2>1, <2>2
  <1>3. CASE Tool!SpawnFails(o)
    <2>1. child[o] \notin Tool!Alive
      BY <1>0, <1>3 DEF Tool!SpawnFails, Stage, Tool!Alive
    <2> QED BY <1>3, <2>1, EndsKeepsDiscipline DEF Tool!SpawnFails, Tool!queue
  <1>4. CASE Tool!Collect(o)
    <2>1. CASE Tool!Ends(o, "failed") /\ child[o] = "bad"
      BY <1>4, <2>1, EndsKeepsDiscipline DEF Tool!Collect, Tool!queue, Tool!Alive
    <2>2. CASE child[o] = "ok"
      <3>1. /\ pc' = [pc EXCEPT ![o] = "verify"] /\ check' = [check EXCEPT ![o].pc = "asked"]
            /\ UNCHANGED <<Tool!queue, child, cut>> /\ pc[o] \in {"work", "hung"}
        BY <1>4, <2>2 DEF Tool!Collect, Tool!Goes
      <3>2. check'[o].pc = "asked" /\ \A x \in Ops \ {o} : check'[x] = check[x]
        BY <3>1 DEF Tool!TypeOK
      <3>3. LockHeldOnce'
        BY <3>1 DEF Tool!queue, LockHeldOnce, Tool!TypeOK, Tool!Prov, Tool!Holding, Tool!Running
      <3>4. ASSUME NEW x \in Ops PROVE Stage(x)'
        BY <1>0, <2>2, <3>1, <3>2 DEF Tool!queue, Stage, Tool!TypeOK
      <3> QED BY <3>3, <3>4
    <2> QED BY <1>4, <2>1, <2>2 DEF Tool!Collect
  <1>5. CASE Tool!Drained(o)
    <2>1. LockHeldOnce'
      BY <1>5 DEF Tool!Drained, Tool!Goes, Tool!queue, LockHeldOnce, Tool!TypeOK, Tool!Prov,
                  Tool!Holding, Tool!Running
    <2>2. ASSUME NEW x \in Ops PROVE Stage(x)'
      BY <1>0, <1>5 DEF Tool!Drained, Tool!Goes, Tool!queue, Stage, Tool!TypeOK
    <2> QED BY <2>1, <2>2
  <1>6. CASE Tool!Timeout(o)
    <2>1. LockHeldOnce'
      BY <1>6 DEF Tool!Timeout, Tool!Goes, Tool!queue, LockHeldOnce, Tool!TypeOK, Tool!Prov,
                  Tool!Holding, Tool!Running
    <2>2. ASSUME NEW x \in Ops PROVE Stage(x)'
      BY <1>0, <1>6 DEF Tool!Timeout, Tool!Goes, Tool!queue, Stage, Tool!TypeOK
    <2> QED BY <2>1, <2>2
  <1>7. CASE Tool!Kill(o)
    <2>1. LockHeldOnce'
      BY <1>7 DEF Tool!Kill, Tool!Goes, Tool!queue, LockHeldOnce, Tool!TypeOK, Tool!Prov,
                  Tool!Holding, Tool!Running
    <2>2. ASSUME NEW x \in Ops PROVE Stage(x)'
      BY <1>0, <1>7 DEF Tool!Kill, Tool!Goes, Tool!queue, Stage, Tool!TypeOK, Tool!Alive
    <2> QED BY <2>1, <2>2
  <1>8. CASE Tool!Reap(o)
    <2>1. child[o] \notin Tool!Alive
      BY <1>0, <1>8 DEF Tool!Reap, Stage
    <2> QED BY <1>8, <2>1, EndsKeepsDiscipline DEF Tool!Reap, Tool!queue
  <1>9. CASE Tool!Deliver(o)
    <2>1. CASE pc[o] \in {"work", "hung"}
      <3>1. /\ pc' = [pc EXCEPT ![o] = "drain"]
            /\ UNCHANGED <<req, child, check, cut>>
        BY <1>9, <2>1 DEF Tool!Deliver, Tool!Goes, Tool!Waiting
      <3>2. LockHeldOnce'
        BY <2>1, <3>1 DEF LockHeldOnce, Tool!TypeOK, Tool!Prov, Tool!Holding, Tool!Running
      <3>3. ASSUME NEW x \in Ops PROVE Stage(x)'
        BY <1>0, <2>1, <3>1 DEF Stage, Tool!TypeOK
      <3> QED BY <3>2, <3>3
    <2>2. CASE pc[o] \in Tool!Waiting \cup {"verify", "reap"}
      <3>1. child[o] \notin Tool!Alive
        BY <1>0, <2>2 DEF Stage, Tool!Waiting, Tool!Alive
      <3> QED BY <1>9, <2>2, <3>1, EndsKeepsDiscipline DEF Tool!Deliver, Tool!Waiting
    <2>3. CASE pc[o] = "drain"
      BY <1>9, <2>3, EndsKeepsDiscipline DEF Tool!Deliver, Tool!Waiting
    <2> QED BY <1>9, <2>1, <2>2, <2>3 DEF Tool!Deliver
  <1>10. CASE Tool!Verified(o)
    <2>1. child[o] \notin Tool!Alive
      BY <1>0, <1>10 DEF Tool!Verified, Stage, Tool!Alive
    <2> QED BY <1>10, <2>1, EndsKeepsDiscipline DEF Tool!Verified, Tool!queue
  <1> QED BY <1>1, <1>2, <1>3, <1>4, <1>5, <1>6, <1>7, <1>8, <1>9, <1>10 DEF Tool!Task

LEMMA OthersKeepDiscipline ==
    ASSUME Tool!TypeOK, Discipline, NEW o \in Ops,
           \/ Tool!Verification(o) \/ Tool!Child(o) \/ Tool!Cancel(o)
           \/ \E q \in Requests : Tool!Submit(o, q)
           \/ \E r \in Readers : Tool!Read(r)
           \/ UNCHANGED Tool!vars
    PROVE  Discipline'
  <1> USE DEF Discipline
  <1>1. CASE Tool!Verification(o)
    <2>1. /\ UNCHANGED <<Tool!queue, pc, child, cut>> /\ check[o].pc \in {"asked", "read"}
          /\ check'[o].pc # "none" /\ \A x \in Ops \ {o} : check'[x] = check[x]
      BY <1>1 DEF Tool!Verification, Tool!VerifyRead, Tool!VerifyKeep, Tool!TypeOK
    <2>2. LockHeldOnce'
      BY <2>1 DEF Tool!queue, LockHeldOnce, Tool!Prov
    <2>3. ASSUME NEW x \in Ops PROVE Stage(x)'
      BY <2>1 DEF Tool!queue, Stage
    <2> QED BY <2>2, <2>3
  <1>2. CASE Tool!Child(o)
    <2>1. /\ UNCHANGED <<Tool!queue, pc, check, cut>> /\ child[o] \in Tool!Alive
          /\ \A x \in Ops \ {o} : child'[x] = child[x]
      BY <1>2 DEF Tool!Child, Tool!ChildActs, Tool!ChildExits, Tool!ChildMutes, Tool!TypeOK, Tool!Alive
    <2>2. LockHeldOnce'
      BY <2>1 DEF Tool!queue, LockHeldOnce, Tool!Prov
    <2>3. ASSUME NEW x \in Ops PROVE Stage(x)'
      BY <2>1 DEF Tool!queue, Stage, Tool!Alive
    <2> QED BY <2>2, <2>3
  <1>3. CASE Tool!Cancel(o)
    BY <1>3 DEF Tool!Cancel, LockHeldOnce, Stage, Tool!Prov
  <1>4. ASSUME NEW q \in Requests, Tool!Submit(o, q) PROVE Discipline'
    <2>1. /\ pc[o] = "new" /\ pc' = [pc EXCEPT ![o] = "lock"] /\ req' = [req EXCEPT ![o] = q]
          /\ UNCHANGED <<child, check, cut>> /\ q \in Tool!Request /\ Tool!Plans(q)
      BY <1>4, ToolingAdmits DEF Tool!Submit, Tool!ResolveAndValidate
    <2>2. LockHeldOnce'
      BY <2>1 DEF LockHeldOnce, Tool!TypeOK, Tool!Prov, Tool!Holding, Tool!Running
    <2>3. ASSUME NEW x \in Ops PROVE Stage(x)'
      BY <2>1 DEF Stage, Tool!TypeOK
    <2> QED BY <2>2, <2>3
  <1>5. ASSUME NEW r \in Readers, Tool!Read(r) PROVE Discipline'
    <2>1. UNCHANGED <<Tool!queue, pc, child, check, cut>>
      BY <1>5 DEF Tool!Read, Tool!Get, Tool!Scan, Tool!KeepList, Tool!Publish, Tool!LookAt
    <2> QED BY <2>1 DEF Tool!queue, LockHeldOnce, Stage, Tool!Prov
  <1>6. CASE UNCHANGED Tool!vars
    BY <1>6 DEF Tool!vars, LockHeldOnce, Stage, Tool!Prov
  <1> QED BY <1>1, <1>2, <1>3, <1>4, <1>5, <1>6

-----------------------------------------------------------------------------
(* What was seen is so, as long as nobody holds the CLI.                        *)

LEMMA TruthKept ==
    ASSUME NEW p, host'[p] = host[p]
    PROVE  Tool!Truth(p)' = Tool!Truth(p)
  BY DEF Tool!Truth, Tool!Seen, Tool!Listed, Tool!ClaudeListed, Tool!CodexListed,
         Tool!SkillsListed, Tool!AgyListed

\* Looks that nobody adds to stay current if what is held stays held.
LEMMA LooksKept ==
    ASSUME Tool!TypeOK, LooksAreCurrent, UNCHANGED <<pages, lists, reader>>,
           \A p : Held(p) => Held(p)',
           \A p : host'[p] = host[p] \/ Held(p),
           \A x \in Ops : check'[x] = check[x] \/ check'[x].pc \notin {"read", "done"},
           \A x \in Ops : check[x].pc = "read" => Tool!Prov(x)' = Tool!Prov(x),
           \A x \in Ops : pc'[x] = "verify" /\ check'[x].pc \in {"read", "done"} =>
               pc[x] = "verify" /\ Tool!Prov(x)' = Tool!Prov(x) /\ host'[Tool!Prov(x)] = host[Tool!Prov(x)]
    PROVE  LooksAreCurrent'
  <1>1. \A p, look : Current(p, look) => (look = Tool!Truth(p)' \/ Held(p)')
    BY TruthKept DEF Current
  <1>2. ASSUME NEW r \in Readers, reader'[r].pc # "idle", ~reader'[r].suspect,
               NEW p \in Tool!Scope(reader'[r].on) \ reader'[r].todo
        PROVE  reader'[r].looks[p] = Tool!Truth(p)' \/ Held(p)'
    BY <1>1, <1>2 DEF LooksAreCurrent
  <1>3. ASSUME NEW p \in Tool!ListCached, lists'[p] # None, ~lists'[p].suspect
        PROVE  lists'[p].look = Tool!Truth(p)' \/ Held(p)'
    BY <1>1, <1>3 DEF LooksAreCurrent
  <1>4. ASSUME NEW c \in Collections, pages'[c] # None, ~pages'[c].suspect, NEW p \in Tool!Scope(c)
        PROVE  pages'[c].looks[p] = Tool!Truth(p)' \/ Held(p)'
    BY <1>1, <1>4 DEF LooksAreCurrent
  <1>5. ASSUME NEW x \in Ops, check'[x].pc = "read", ~check'[x].suspect
        PROVE  Current(Tool!Prov(x), check[x].look)'
    <2>1. check'[x] = check[x] /\ Tool!Prov(x)' = Tool!Prov(x)
      BY <1>5
    <2>2. Current(Tool!Prov(x), check[x].look)
      BY <1>5, <2>1 DEF LooksAreCurrent
    <2>3. \A p : p = Tool!Prov(x) => (check[x].look = Tool!Truth(p)' \/ Held(p)')
      BY <1>1, <2>2
    <2> QED BY <2>1, <2>3 DEF Current, Tool!Truth, Tool!Seen, Held
  <1>6. ASSUME NEW x \in Ops, pc'[x] = "verify", check'[x].pc \in {"read", "done"}, ~check'[x].suspect
        PROVE  (check[x].look = Tool!Truth(Tool!Prov(x)))'
    <2>1. check'[x] = check[x] /\ pc[x] = "verify" /\ Tool!Prov(x)' = Tool!Prov(x) /\ host'[Tool!Prov(x)] = host[Tool!Prov(x)]
      BY <1>6
    <2>2. check[x].look = Tool!Truth(Tool!Prov(x))
      BY <1>6, <2>1 DEF LooksAreCurrent
    <2>3. \A p : p = Tool!Prov(x) => check[x].look = Tool!Truth(p)'
      BY <2>1, <2>2, TruthKept
    <2> QED BY <2>1, <2>3 DEF Tool!Truth, Tool!Seen
  <1> QED BY <1>2, <1>3, <1>4, <1>5, <1>6 DEF LooksAreCurrent, Current

\* An end empties the cache and casts doubt on what is half-way.
LEMMA EndsKeepsLooks ==
    ASSUME Tool!TypeOK, LooksAreCurrent, NEW o \in Ops, NEW s, Tool!Ends(o, s), UNCHANGED <<host, req>>
    PROVE  LooksAreCurrent'
  <1>1. /\ pages' = [c \in Collections |-> None] /\ lists' = [p \in Tool!ListCached |-> None]
        /\ reader' = [r \in Readers |-> Tool!Crossed(r)] /\ pc' = [pc EXCEPT ![o] = "end"]
        /\ check' = [x \in Ops |-> IF check[x].pc = "read" THEN [check[x] EXCEPT !.suspect = TRUE]
                                                            ELSE check[x]]
    BY DEF Tool!Ends, Tool!Goes
  <1>2. ASSUME NEW r \in Readers, reader'[r].pc # "idle", ~reader'[r].suspect
        PROVE  Tool!Scope(reader'[r].on) \ reader'[r].todo = {}
    <2>1. reader[r] \in ReaderType
      BY DEF Tool!TypeOK, ReaderType
    <2>2. reader'[r] = reader[r] /\ reader[r].todo = Tool!Scope(reader[r].on)
      BY <1>1, <1>2, <2>1 DEF Tool!Crossed, ReaderType
    <2> QED BY <2>2
  <1>3. ASSUME NEW x \in Ops PROVE ~(check'[x].pc = "read" /\ ~check'[x].suspect)
    BY <1>1 DEF Tool!TypeOK
  <1>4. ASSUME NEW x \in Ops, pc'[x] = "verify", check'[x].pc \in {"read", "done"}, ~check'[x].suspect
        PROVE  (check[x].look = Tool!Truth(Tool!Prov(x)))' 
    <2>1. check'[x] = check[x] /\ pc[x] = "verify" /\ Tool!Prov(x)' = Tool!Prov(x)
      BY <1>1, <1>4 DEF Tool!TypeOK, Tool!Prov
    <2>2. check[x].look = Tool!Truth(Tool!Prov(x))
      BY <1>4, <2>1 DEF LooksAreCurrent
    <2> QED BY <2>1, <2>2 DEF Tool!Truth, Tool!Seen
  <1> QED BY <1>1, <1>2, <1>3, <1>4 DEF LooksAreCurrent

LEMMA TaskKeepsLooks ==
    ASSUME Tool!TypeOK, Discipline, LooksAreCurrent, NEW o \in Ops, Tool!Task(o)
    PROVE  LooksAreCurrent'
  <1>0. Stage(o)
    BY DEF Discipline
  <1> DEFINE MovesTo(to) == /\ UNCHANGED <<host, pages, lists, req, reader>>
                          /\ pc' = [pc EXCEPT ![o] = to] /\ to \in Tool!Holding
                          /\ \/ check' = check /\ to # "verify"
                             \/ check' = [check EXCEPT ![o].pc = "asked"]
  <1>1. ASSUME NEW to, MovesTo(to) PROVE LooksAreCurrent'
    <2>1. \A p : Held(p) => Held(p)'
      BY <1>1 DEF Held, Tool!Prov, Tool!TypeOK
    <2>2. \A x \in Ops : check'[x] = check[x] \/ check'[x].pc \notin {"read", "done"}
      BY <1>1 DEF Tool!TypeOK
    <2>3. \A x \in Ops : pc'[x] = "verify" /\ check'[x].pc \in {"read", "done"} => pc[x] = "verify"
      BY <1>1 DEF Tool!TypeOK
    <2>4. \A x \in Ops : Tool!Prov(x)' = Tool!Prov(x)
      BY <1>1 DEF Tool!Prov
    <2> HIDE DEF MovesTo
    <2>5. UNCHANGED <<host, pages, lists, reader>>
      BY <1>1 DEF MovesTo
    <2> QED BY <2>1, <2>2, <2>3, <2>4, <2>5, LooksKept
  <1>2. CASE Tool!TakeLock(o)
    BY <1>1, <1>2 DEF Tool!TakeLock, Tool!Goes, Tool!queue, Tool!Holding
  <1>3. CASE Tool!TakeSlot(o)
    BY <1>1, <1>3 DEF Tool!TakeSlot, Tool!Goes, Tool!queue, Tool!Holding, Tool!Running
  <1>4. CASE Tool!SpawnFails(o)
    BY <1>4, EndsKeepsLooks DEF Tool!SpawnFails, Tool!queue
  <1>5. CASE Tool!Collect(o)
    <2>1. CASE Tool!Ends(o, "failed") /\ UNCHANGED <<host, Tool!queue>>
      BY <2>1, EndsKeepsLooks DEF Tool!queue
    <2>2. CASE MovesTo("verify")
      BY <1>1, <2>2
    <2> QED BY <1>5, <2>1, <2>2 DEF Tool!Collect, Tool!Goes, Tool!queue, Tool!Holding
  <1>6. CASE Tool!Drained(o)
    BY <1>1, <1>6 DEF Tool!Drained, Tool!Goes, Tool!queue, Tool!Holding, Tool!Running
  <1>7. CASE Tool!Timeout(o)
    BY <1>1, <1>7 DEF Tool!Timeout, Tool!Goes, Tool!queue, Tool!Holding, Tool!Running
  <1>8. CASE Tool!Kill(o)
    BY <1>1, <1>8 DEF Tool!Kill, Tool!Goes, Tool!queue, Tool!Holding, Tool!Running
  <1>9. CASE Tool!Reap(o)
    BY <1>9, EndsKeepsLooks DEF Tool!Reap, Tool!queue
  <1>10. CASE Tool!Deliver(o)
    <2>1. CASE Tool!Ends(o, "cancelled") /\ UNCHANGED <<host, req>>
      BY <2>1, EndsKeepsLooks
    <2>2. CASE MovesTo("drain")
      BY <1>1, <2>2
    <2> QED BY <1>10, <2>1, <2>2 DEF Tool!Deliver, Tool!Goes, Tool!Holding, Tool!Running
  <1>11. CASE Tool!Verified(o)
    BY <1>11, EndsKeepsLooks DEF Tool!Verified, Tool!queue
  <1> QED BY <1>2, <1>3, <1>4, <1>5, <1>6, <1>7, <1>8, <1>9, <1>10, <1>11 DEF Tool!Task

LEMMA VerificationKeepsLooks ==
    ASSUME Tool!TypeOK, Discipline, LooksAreCurrent, NEW o \in Ops, Tool!Verification(o)
    PROVE  LooksAreCurrent'
  <1>0. UNCHANGED <<host, pages, req, pc, reader>> /\ \A x \in Ops \ {o} : check'[x] = check[x]
    BY DEF Tool!Verification, Tool!VerifyRead, Tool!VerifyKeep, Tool!queue, Tool!TypeOK
  <1>1. \A p, look : Current(p, look)' <=> Current(p, look)
    BY <1>0, TruthKept DEF Current, Held, Tool!Prov
  <1>2. \A p : Tool!Truth(p)' = Tool!Truth(p)
    BY <1>0, TruthKept
  <1>3. \A x \in Ops : Tool!Prov(x)' = Tool!Prov(x)
    BY <1>0 DEF Tool!Prov
  <1>4. CASE Tool!VerifyRead(o)
    <2>1. PICK answers \in Tool!Answers :
             check' = [check EXCEPT ![o] = [pc |-> "read", look |-> Tool!Seen(Tool!Prov(o), answers),
                                            suspect |-> Tool!Seen(Tool!Prov(o), answers) # Tool!Truth(Tool!Prov(o))]]
      BY <1>4 DEF Tool!VerifyRead
    <2>2. ~check'[o].suspect => check'[o].look = Tool!Truth(Tool!Prov(o))
      BY <2>1 DEF Tool!TypeOK
    <2>3. lists' = lists
      BY <1>4 DEF Tool!VerifyRead
    <2> QED BY <1>0, <1>1, <1>2, <1>3, <2>2, <2>3 DEF LooksAreCurrent, Current
  <1>5. CASE Tool!VerifyKeep(o)
    <2>1. /\ check[o].pc = "read" /\ check'[o].pc = "done"
          /\ check'[o].look = check[o].look /\ check'[o].suspect = check[o].suspect
      BY <1>5 DEF Tool!VerifyKeep, Tool!TypeOK
    <2>2. \A p \in Tool!ListCached :
             \/ lists'[p] = lists[p]
             \/ p = Tool!Prov(o) /\ lists'[p] = [look |-> check[o].look, suspect |-> check[o].suspect]
      <3>1. DOMAIN lists = Tool!ListCached
        BY DEF Tool!TypeOK
      <3>2. \/ lists' = lists
            \/ lists' = [lists EXCEPT ![Tool!Prov(o)] = [look |-> check[o].look, suspect |-> check[o].suspect]]
        BY <1>5 DEF Tool!VerifyKeep
      <3> QED BY <3>1, <3>2
    <2> QED BY <1>0, <1>1, <1>2, <1>3, <2>1, <2>2 DEF LooksAreCurrent
  <1> QED BY <1>4, <1>5 DEF Tool!Verification

LEMMA ChildKeepsLooks ==
    ASSUME Tool!TypeOK, Discipline, LooksAreCurrent, cut = {}, NEW o \in Ops, Tool!Child(o)
    PROVE  LooksAreCurrent'
  <1>1. /\ UNCHANGED <<pages, lists, req, pc, reader, check>>
        /\ \A x \in Ops : Tool!Prov(x)' = Tool!Prov(x)
    BY DEF Tool!Child, Tool!ChildActs, Tool!ChildExits, Tool!ChildMutes, Tool!queue, Tool!Prov
  <1>2. \A p : Held(p) => Held(p)'
    BY <1>1 DEF Held, Tool!Prov
  <1>3. CASE host' = host
    BY <1>1, <1>2, <1>3, LooksKept
  <1>4. CASE Tool!ChildActs(o)
    <2>1. pc[o] \in Tool!Running
      BY <1>4 DEF Discipline, Stage, Tool!ChildActs, Tool!TypeOK, Tool!Waiting, Tool!Holding, Tool!Alive
    <2>2. \A p : host'[p] = host[p] \/ p = Tool!Prov(o)
      BY <1>4 DEF Tool!ChildActs, Tool!TypeOK
    <2>3. Held(Tool!Prov(o))
      BY <2>1 DEF Held, Tool!Holding
    <2>4. ASSUME NEW x \in Ops, pc'[x] = "verify" PROVE host'[Tool!Prov(x)] = host[Tool!Prov(x)]
      <3>1. x # o
        BY <1>1, <2>1, <2>4 DEF Tool!Running
      <3>2. Tool!Prov(x) # Tool!Prov(o)
        BY <1>1, <2>1, <2>4, <3>1 DEF Discipline, LockHeldOnce, Tool!Holding
      <3> QED BY <2>2, <3>2
    <2> QED BY <1>1, <1>2, <2>2, <2>3, <2>4, LooksKept
  <1> QED BY <1>3, <1>4 DEF Tool!Child, Tool!ChildExits, Tool!ChildMutes

LEMMA RestKeepsLooks ==
    ASSUME Tool!TypeOK, Discipline, LooksAreCurrent, NEW o \in Ops,
           Tool!Cancel(o) \/ (\E q \in Requests : Tool!Submit(o, q)) \/ UNCHANGED Tool!vars
    PROVE  LooksAreCurrent'
  <1>1. UNCHANGED <<host, pages, lists, reader, check>>
    BY DEF Tool!Cancel, Tool!Submit, Tool!vars
  <1>2. \A x \in Ops : \/ pc'[x] = pc[x] /\ Tool!Prov(x)' = Tool!Prov(x)
                       \/ pc[x] = "new" /\ pc'[x] = "lock"
    <2>1. ASSUME NEW q \in Requests, Tool!Submit(o, q)
          PROVE  \A x \in Ops : \/ pc'[x] = pc[x] /\ Tool!Prov(x)' = Tool!Prov(x)
                                \/ pc[x] = "new" /\ pc'[x] = "lock"
      BY <2>1 DEF Tool!Submit, Tool!TypeOK, Tool!Prov
    <2>2. CASE Tool!Cancel(o) \/ UNCHANGED Tool!vars
      BY <2>2 DEF Tool!Cancel, Tool!vars, Tool!queue, Tool!Prov
    <2> QED BY <2>1, <2>2
  <1>3. \A p : Held(p) => Held(p)'
    BY <1>2 DEF Held, Tool!Holding, Tool!Running
  <1>4. \A x \in Ops : check[x].pc = "read" => Tool!Prov(x)' = Tool!Prov(x)
    BY <1>2 DEF Discipline, Stage
  <1> QED BY <1>1, <1>2, <1>3, <1>4, LooksKept

-----------------------------------------------------------------------------
(* The collectors.                                                              *)

LEMMA CollectingFromScope ==
    \A c \in Tool!KnownCollections, scan \in BOOLEAN :
        LET it == Tool!Collecting(c, scan)
        IN it.pc = "look" /\ it.on = c /\ it.todo = Tool!Scope(c) /\ it.suspect = FALSE
  BY DEF Tool!Collecting, Tool!Idle

\* A step of one reader: what it makes of its own state, and that it leaves the others alone.
LEMMA ReadStep ==
    ASSUME Tool!TypeOK, NEW r \in Readers, Tool!Read(r)
    PROVE  /\ UNCHANGED <<host, req, pc, child, check, cut>>
           /\ \A x \in Readers \ {r} : reader'[x] = reader[x]
  BY DEF Tool!Read, Tool!Get, Tool!Scan, Tool!KeepList, Tool!Publish, Tool!LookAt, Tool!queue,
         Tool!TypeOK

\* What a reader has that saw this of an adapter.
Shows(r, p, look, suspect) ==
    /\ reader'[r].on = reader[r].on /\ reader'[r].todo = reader[r].todo \ {p}
    /\ reader'[r].suspect <=> (reader[r].suspect \/ suspect)
    /\ reader'[r].looks = [reader[r].looks EXCEPT ![p] = look]
    /\ \/ reader'[r].pc = "look"
       \/ reader'[r].pc = "keep" /\ reader'[r].at = p /\ p \in Tool!ListCached

\* Where it comes from: the cached list, or the CLI.
Reports(p, look, suspect) ==
    \/ /\ p \in Tool!ListCached /\ lists[p] # None
       /\ look = lists[p].look /\ suspect = lists[p].suspect
    \/ suspect \/ look = Tool!Truth(p)

LEMMA LookAtStep ==
    ASSUME Tool!TypeOK, NEW r \in Readers, NEW p \in Adapters, Tool!LookAt(r, p)
    PROVE  \E look, suspect : Reports(p, look, suspect) /\ Shows(r, p, look, suspect)
  <1>0. reader[r] \in ReaderType /\ DOMAIN reader = Readers
    BY DEF Tool!TypeOK, ReaderType
  <1>2. reader[r].pc = "look"
    BY DEF Tool!LookAt
  <1>1. ASSUME NEW look, NEW suspect,
               \/ reader'[r] = Tool!Saw(r, p, look, suspect)
               \/ reader'[r] = [Tool!Saw(r, p, look, suspect) EXCEPT !.pc = "keep", !.at = p] /\ Tool!Lists(r, p)
        PROVE  Shows(r, p, look, suspect)
    <2>1. reader'[r].on = reader[r].on /\ reader'[r].todo = reader[r].todo \ {p}
      BY <1>0, <1>1 DEF Tool!Saw, ReaderType
    <2>2. reader'[r].suspect <=> (reader[r].suspect \/ suspect)
      BY <1>0, <1>1 DEF Tool!Saw, ReaderType
    <2>3. reader'[r].looks = [reader[r].looks EXCEPT ![p] = look]
      BY <1>0, <1>1 DEF Tool!Saw, ReaderType
    <2>4. \/ reader'[r].pc = "look"
          \/ reader'[r].pc = "keep" /\ reader'[r].at = p /\ p \in Tool!ListCached
      BY <1>0, <1>1, <1>2 DEF Tool!Saw, ReaderType, Tool!Lists
    <2> QED BY <2>1, <2>2, <2>3, <2>4 DEF Shows
  <1>3. CASE Tool!Lists(r, p) /\ lists[p] # None
    <2>1. reader'[r] = Tool!Saw(r, p, lists[p].look, lists[p].suspect)
      BY <1>0, <1>3 DEF Tool!LookAt
    <2>2. Shows(r, p, lists[p].look, lists[p].suspect)
      BY <1>1, <2>1
    <2>3. Reports(p, lists[p].look, lists[p].suspect)
      BY <1>3 DEF Tool!Lists, Reports
    <2> QED BY <2>2, <2>3
  <1>4. CASE ~(Tool!Lists(r, p) /\ lists[p] # None)
    <2>1. PICK answers \in Tool!Answers :
             \/ reader'[r] = Tool!Saw(r, p, Tool!Seen(p, answers), Tool!Seen(p, answers) # Tool!Truth(p))
             \/ /\ Tool!Lists(r, p)
                /\ reader'[r] = [Tool!Saw(r, p, Tool!Seen(p, answers), Tool!Seen(p, answers) # Tool!Truth(p))
                                    EXCEPT !.pc = "keep", !.at = p]
      BY <1>0, <1>4 DEF Tool!LookAt
    <2>2. Shows(r, p, Tool!Seen(p, answers), Tool!Seen(p, answers) # Tool!Truth(p))
      BY <1>1, <2>1
    <2>3. Reports(p, Tool!Seen(p, answers), Tool!Seen(p, answers) # Tool!Truth(p))
      BY DEF Reports
    <2> QED BY <2>2, <2>3
  <1> QED BY <1>3, <1>4

LEMMA ReadKeepsWhatItSaw ==
    ASSUME Tool!TypeOK, KeepsWhatItSaw, NEW r \in Readers, Tool!Read(r)
    PROVE  KeepsWhatItSaw'
  <1>0. reader[r] \in ReaderType /\ DOMAIN reader = Readers
    BY DEF Tool!TypeOK, ReaderType
  <1>1. ASSUME NEW p \in Adapters, Tool!LookAt(r, p), reader[r].todo \subseteq Tool!Scope(reader[r].on), p \in reader[r].todo
        PROVE  /\ reader'[r].todo \subseteq Tool!Scope(reader'[r].on)
               /\ reader'[r].pc = "keep" =>
                     reader'[r].at \in (Tool!ListCached \cap Tool!Scope(reader'[r].on)) \ reader'[r].todo
    BY <1>1, LookAtStep DEF Shows
  <1>2. ASSUME reader'[r] = Tool!Idle \/ \E c \in Tool!KnownCollections, scan \in BOOLEAN : reader'[r] = Tool!Collecting(c, scan)
        PROVE  reader'[r].todo \subseteq Tool!Scope(reader'[r].on) /\ reader'[r].pc # "keep"
    <2>1. Tool!Idle.todo = {} /\ Tool!Idle.pc = "idle"
      BY DEF Tool!Idle
    <2> QED BY <1>2, <2>1, CollectingFromScope
  <1>3. CASE Tool!KeepList(r)
    <2>1. reader'[r] = [reader[r] EXCEPT !.pc = "look"]
      BY <1>0, <1>3 DEF Tool!KeepList
    <2>2. reader'[r].todo = reader[r].todo /\ reader'[r].on = reader[r].on /\ reader'[r].pc = "look"
      BY <1>0, <2>1 DEF ReaderType
    <2> QED BY <2>2, ReadStep DEF KeepsWhatItSaw
  <1>4. CASE (\E c \in Collections : Tool!Get(r, c)) \/ Tool!Scan(r) \/ Tool!Publish(r)
    <2>1. reader'[r] = Tool!Idle \/ \E c \in Tool!KnownCollections, scan \in BOOLEAN : reader'[r] = Tool!Collecting(c, scan)
      BY <1>0, <1>4, ToolingAdmits DEF Tool!Get, Tool!Scan, Tool!Publish, Tool!KnownCollections
    <2> QED BY <1>2, <2>1, ReadStep DEF KeepsWhatItSaw
  <1>5. ASSUME NEW p \in Adapters, Tool!LookAt(r, p) PROVE KeepsWhatItSaw'
    <2>1. p \in reader[r].todo
      BY <1>5 DEF Tool!LookAt
    <2> QED BY <1>1, <1>5, <2>1, ReadStep DEF KeepsWhatItSaw
  <1> QED BY <1>3, <1>4, <1>5 DEF Tool!Read

LEMMA ReadKeepsLooks ==
    ASSUME Tool!TypeOK, KeepsWhatItSaw, LooksAreCurrent, NEW r \in Readers, Tool!Read(r)
    PROVE  LooksAreCurrent'
  <1>0. reader[r] \in ReaderType /\ DOMAIN reader = Readers
    BY DEF Tool!TypeOK, ReaderType
  <1>1. /\ UNCHANGED <<host, req, pc, check>> /\ \A x \in Readers \ {r} : reader'[x] = reader[x]
    BY ReadStep
  <1>2. \A p, look : Current(p, look)' <=> Current(p, look)
    BY <1>1, TruthKept DEF Current, Held, Tool!Prov
  <1>3. /\ \A p : Tool!Truth(p)' = Tool!Truth(p)
        /\ \A x \in Ops : Tool!Prov(x)' = Tool!Prov(x)
    BY <1>1, TruthKept DEF Tool!Prov
  <1> DEFINE SoundPages(it) == it.pc # "idle" /\ ~it.suspect =>
                            \A p \in Tool!Scope(it.on) \ it.todo : Current(p, it.looks[p])
  <1>4. ASSUME \/ reader'[r] = Tool!Idle
               \/ \E c \in Tool!KnownCollections, scan \in BOOLEAN : reader'[r] = Tool!Collecting(c, scan)
               \/ SoundPages(reader'[r]),
               \A p \in Tool!ListCached : lists'[p] # None /\ ~lists'[p].suspect => Current(p, lists'[p].look),
               \A c \in Collections : pages'[c] # None /\ ~pages'[c].suspect =>
                   \A p \in Tool!Scope(c) : Current(p, pages'[c].looks[p])
        PROVE  LooksAreCurrent'
    <2>1. SoundPages(reader'[r])
      <3>1. Tool!Idle.pc = "idle"
        BY DEF Tool!Idle
      <3> QED BY <1>4, <3>1, CollectingFromScope
    <2>2. \A x \in Readers : SoundPages(reader'[x])
      BY <1>1, <2>1 DEF LooksAreCurrent
    <2> QED BY <1>1, <1>2, <1>3, <1>4, <2>2 DEF LooksAreCurrent
  <1>5. CASE \E c \in Collections : Tool!Get(r, c)
    <2>1. \E c \in Tool!KnownCollections, scan \in BOOLEAN : reader'[r] = Tool!Collecting(c, scan)
      BY <1>0, <1>5, ToolingAdmits DEF Tool!Get
    <2> HIDE DEF SoundPages
    <2> QED BY <1>4, <1>5, <2>1 DEF Tool!Get, LooksAreCurrent
  <1>6. CASE Tool!Scan(r)
    <2>1. \E c \in Tool!KnownCollections, scan \in BOOLEAN : reader'[r] = Tool!Collecting(c, scan)
      BY <1>0, <1>6 DEF Tool!Scan, Tool!KnownCollections
    <2> HIDE DEF SoundPages
    <2> QED BY <1>4, <1>6, <2>1 DEF Tool!Scan
  <1>7. CASE Tool!KeepList(r)
    <2>1. reader'[r] = [reader[r] EXCEPT !.pc = "look"]
      BY <1>0, <1>7 DEF Tool!KeepList
    <2>2. SoundPages(reader'[r])
      <3>1. /\ reader'[r].todo = reader[r].todo /\ reader'[r].on = reader[r].on
            /\ reader'[r].suspect = reader[r].suspect /\ reader'[r].looks = reader[r].looks
        BY <1>0, <2>1 DEF ReaderType
      <3> QED BY <1>7, <3>1 DEF Tool!KeepList, LooksAreCurrent
    <2> DEFINE at == reader[r].at
    <2>3. ~reader[r].suspect => Current(at, reader[r].looks[at])
      BY <1>7 DEF Tool!KeepList, KeepsWhatItSaw, LooksAreCurrent
    <2>4. \A p \in Tool!ListCached :
             \/ lists'[p] = lists[p]
             \/ p = at /\ lists'[p] = [look |-> reader[r].looks[at], suspect |-> reader[r].suspect]
      BY <1>7 DEF Tool!KeepList, Tool!TypeOK
    <2>5. \A p \in Tool!ListCached : lists'[p] # None /\ ~lists'[p].suspect => Current(p, lists'[p].look)
      BY <2>3, <2>4 DEF LooksAreCurrent
    <2>6. pages' = pages
      BY <1>7 DEF Tool!KeepList
    <2> HIDE DEF SoundPages
    <2> QED BY <1>4, <2>2, <2>5, <2>6 DEF LooksAreCurrent
  <1>8. CASE Tool!Publish(r)
    <2>1. reader'[r] = Tool!Idle \/ \E c \in Tool!KnownCollections, scan \in BOOLEAN : reader'[r] = Tool!Collecting(c, scan)
      BY <1>0, <1>8 DEF Tool!Publish, Tool!KnownCollections
    <2>2. ~reader[r].suspect => \A p \in Tool!Scope(reader[r].on) : Current(p, reader[r].looks[p])
      BY <1>8 DEF Tool!Publish, LooksAreCurrent
    <2>3. \A c \in Collections :
             \/ pages'[c] = pages[c]
             \/ c = reader[r].on /\ pages'[c] = [looks |-> reader[r].looks, suspect |-> reader[r].suspect]
      BY <1>8 DEF Tool!Publish, Tool!TypeOK
    <2>4. \A c \in Collections : pages'[c] # None /\ ~pages'[c].suspect =>
             \A p \in Tool!Scope(c) : Current(p, pages'[c].looks[p])
      BY <2>2, <2>3 DEF LooksAreCurrent
    <2>5. lists' = lists
      BY <1>8 DEF Tool!Publish
    <2> HIDE DEF SoundPages
    <2> QED BY <1>4, <2>1, <2>4, <2>5 DEF LooksAreCurrent
  <1>9. ASSUME NEW p \in Adapters, Tool!LookAt(r, p) PROVE LooksAreCurrent'
    <2>1. PICK look, suspect : Reports(p, look, suspect) /\ Shows(r, p, look, suspect)
      BY <1>9, LookAtStep
    <2>2. ~suspect => Current(p, look)
      BY <2>1 DEF Reports, LooksAreCurrent, Current
    <2>3. SoundPages(reader'[r])
      <3>1. \A q \in Adapters : reader'[r].looks[q] = IF q = p THEN look ELSE reader[r].looks[q]
        BY <1>0, <2>1 DEF ReaderType, Shows
      <3>2. reader[r].pc = "look"
        BY <1>9 DEF Tool!LookAt
      <3> QED BY <2>1, <2>2, <3>1, <3>2, ScopeIsAdapters DEF LooksAreCurrent, Shows
    <2>4. UNCHANGED <<lists, pages>>
      BY <1>9 DEF Tool!LookAt
    <2> HIDE DEF SoundPages
    <2> QED BY <1>4, <2>3, <2>4 DEF LooksAreCurrent
  <1> QED BY <1>5, <1>6, <1>7, <1>8, <1>9 DEF Tool!Read

-----------------------------------------------------------------------------
(* The invariant, and what follows from it.                                     *)

LEMMA TypeRest ==
    ASSUME Tool!TypeOK, NEW o \in Ops,
           Tool!Cancel(o) \/ (\E q \in Requests : Tool!Submit(o, q)) \/ UNCHANGED Tool!vars
    PROVE  Tool!TypeOK'
  <1>1. CASE Tool!Cancel(o)
    BY <1>1 DEF Tool!Cancel, Tool!TypeOK
  <1>2. ASSUME NEW q \in Requests, Tool!Submit(o, q) PROVE Tool!TypeOK'
    <2>1. ring' \in Seq(Ops)
      BY <1>2, RetainedIsRing DEF Tool!Submit, Tool!TypeOK
    <2>2. q \in Tool!Request
      BY ToolingAdmits
    <2>3. req' \in [Ops -> {None} \cup Tool!Request]
      BY <1>2, <2>2 DEF Tool!Submit, Tool!TypeOK
    <2>4. pc' \in [Ops -> {"new", "end"} \cup Tool!Waiting \cup Tool!Holding]
      BY <1>2 DEF Tool!Submit, Tool!TypeOK, Tool!Waiting
    <2>5. status' \in [Ops -> {"none", "queued", "running", "verifying", "succeeded", "failed",
                               "cancelled"}]
      BY <1>2 DEF Tool!Submit, Tool!TypeOK
    <2> QED BY <1>2, <2>1, <2>3, <2>4, <2>5 DEF Tool!Submit, Tool!TypeOK
  <1>3. CASE UNCHANGED Tool!vars
    BY <1>3 DEF Tool!vars, Tool!TypeOK
  <1> QED BY <1>1, <1>2, <1>3

LEMMA ToolingInit == Tool!Init => ToolingInvariant
  <1> SUFFICES ASSUME Tool!Init PROVE ToolingInvariant
    OBVIOUS
  <1>1. Tool!TypeOK
    BY TypeInit
  <1>2. LockHeldOnce
    BY DEF Tool!Init, LockHeldOnce, Tool!Holding, Tool!Running
  <1>3. \A o \in Ops : Stage(o)
    BY DEF Tool!Init, Stage, Tool!NoCheck, Tool!Alive
  <1>4. \A r \in Readers : reader[r].pc = "idle" /\ reader[r].todo = {}
    BY DEF Tool!Init, Tool!Idle
  <1>5. KeepsWhatItSaw
    BY <1>4 DEF KeepsWhatItSaw
  <1>6. LooksAreCurrent
    BY <1>4 DEF LooksAreCurrent, Tool!Init, Tool!NoCheck
  <1> QED BY <1>1, <1>2, <1>3, <1>5, <1>6 DEF ToolingInvariant

LEMMA ToolingStep ==
    ASSUME ToolingInvariant, [Tool!Next]_Tool!vars
    PROVE  ToolingInvariant'
  <1> USE DEF ToolingInvariant, Discipline
  <1>1. ASSUME NEW o \in Ops, Tool!Task(o) PROVE ToolingInvariant'
    <2>1. Tool!TypeOK' /\ Discipline'
      BY <1>1, TypeTask, TaskKeepsDiscipline
    <2>2. \A r \in Readers : /\ reader'[r].todo = reader[r].todo /\ reader'[r].on = reader[r].on
                             /\ reader'[r].pc = reader[r].pc /\ reader'[r].at = reader[r].at
      <3>1. reader' = reader \/ reader' = [r \in Readers |-> Tool!Crossed(r)]
        BY <1>1 DEF Tool!Task, Tool!TakeLock, Tool!TakeSlot, Tool!SpawnFails, Tool!Collect,
                    Tool!Drained, Tool!Timeout, Tool!Kill, Tool!Reap,
                    Tool!Deliver, Tool!Verified, Tool!Ends
      <3>2. \A r \in Readers : reader[r] \in ReaderType
        BY DEF Tool!TypeOK, ReaderType
      <3> QED BY <3>1, <3>2 DEF Tool!Crossed, ReaderType
    <2>3. KeepsWhatItSaw'
      BY <2>2 DEF KeepsWhatItSaw
    <2>4. cut \subseteq cut'
      BY <1>1 DEF Tool!Task, Tool!TakeLock, Tool!TakeSlot, Tool!SpawnFails, Tool!Collect,
                  Tool!Drained, Tool!Timeout, Tool!Kill, Tool!Reap,
                  Tool!Deliver, Tool!Verified
    <2>5. cut' = {} => LooksAreCurrent'
      BY <1>1, <2>4, TaskKeepsLooks
    <2> QED BY <2>1, <2>3, <2>5
  <1>2. ASSUME NEW o \in Ops, Tool!Verification(o) PROVE ToolingInvariant'
    <2>1. UNCHANGED <<reader, cut>>
      BY <1>2 DEF Tool!Verification, Tool!VerifyRead, Tool!VerifyKeep
    <2>2. check[o].pc # "none" => req[o] \in Tool!Request
      BY DEF Stage
    <2> QED BY <1>2, <2>1, <2>2, TypeVerification, OthersKeepDiscipline, VerificationKeepsLooks
            DEF KeepsWhatItSaw
  <1>3. ASSUME NEW o \in Ops, Tool!Child(o) PROVE ToolingInvariant'
    <2>1. UNCHANGED <<reader, cut>>
      BY <1>3 DEF Tool!Child, Tool!ChildActs, Tool!ChildExits, Tool!ChildMutes
    <2>2. child[o] \in Tool!Alive => req[o] \in Tool!Request
      BY DEF Stage, Tool!Alive
    <2> QED BY <1>3, <2>1, <2>2, TypeChild, OthersKeepDiscipline, ChildKeepsLooks DEF KeepsWhatItSaw
  <1>4. ASSUME NEW o \in Ops, Tool!Cancel(o) \/ (\E q \in Requests : Tool!Submit(o, q)) \/ UNCHANGED Tool!vars
        PROVE  ToolingInvariant'
    <2>1. UNCHANGED <<reader, cut>>
      BY <1>4 DEF Tool!Cancel, Tool!Submit, Tool!vars
    <2> QED BY <1>4, <2>1, TypeRest, OthersKeepDiscipline, RestKeepsLooks DEF KeepsWhatItSaw
  <1>5. ASSUME NEW r \in Readers, Tool!Read(r) PROVE ToolingInvariant'
    <2>1. UNCHANGED <<req, pc, child, check, cut>>
      BY <1>5, ReadStep
    <2>2. Discipline'
      BY <2>1 DEF LockHeldOnce, Stage, Tool!Prov
    <2> QED BY <1>5, <2>1, <2>2, TypeRead, ReadKeepsWhatItSaw, ReadKeepsLooks
  <1>6. CASE UNCHANGED Tool!vars
    <2>1. Tool!TypeOK'
      BY <1>6 DEF Tool!vars, Tool!TypeOK
    <2>2. Discipline' /\ KeepsWhatItSaw'
      BY <1>6 DEF Tool!vars, LockHeldOnce, Stage, Tool!Prov, KeepsWhatItSaw
    <2>3. UNCHANGED <<host, pages, lists, req, pc, reader, check, cut>>
      BY <1>6 DEF Tool!vars
    <2>4. LooksAreCurrent => LooksAreCurrent'
      BY ZenonT(60), <2>3 DEF LooksAreCurrent, Current, Held, Tool!Prov, Tool!Truth, Tool!Seen
    <2> QED BY <2>1, <2>2, <2>3, <2>4
  <1> QED BY <1>1, <1>2, <1>3, <1>4, <1>5, <1>6 DEF Tool!Next

\* The types of the tooling service: what the registry's operations, their tasks, the
\* cache and its readers may hold (operations.py, runner.py, cache.py).
THEOREM ToolingTypes == Tool!Spec => []Tool!TypeOK
  <1>1. ToolingInvariant => Tool!TypeOK
    BY DEF ToolingInvariant
  <1> QED BY <1>1, ToolingInit, ToolingStep, PTL DEF Tool!Spec

\* One command at a time changes a CLI, and none outlives its operation, however many
\* operations, providers and slots there are, but for those whose cancellation reached
\* the runner as it was giving up (operations.py _run, runner.py run).
THEOREM ToolingOneWriter == Tool!Spec => []Tool!OneWriter
  <1>1. ToolingInvariant => Tool!OneWriter
    <2> SUFFICES ASSUME ToolingInvariant, NEW o \in Ops \ cut, child[o] \in Tool!Alive
                 PROVE  /\ pc[o] \in Tool!Running
                        /\ \A x \in Ops \ cut : child[x] \in Tool!Alive /\ Tool!Prov(x) = Tool!Prov(o) => x = o
      BY DEF Tool!OneWriter
    <2>1. \A x \in Ops \ cut : child[x] \in Tool!Alive => pc[x] \in Tool!Running
      BY DEF ToolingInvariant, Tool!TypeOK, Stage, Tool!Waiting, Tool!Holding, Tool!Alive
    <2> QED BY <2>1 DEF ToolingInvariant, LockHeldOnce, Tool!Holding
  <1> QED BY <1>1, ToolingInit, ToolingStep, PTL DEF Tool!Spec

\* A verification ends in its verdict or by a cancel.
LEMMA VerdictByVerified ==
    ASSUME Tool!TypeOK, [Tool!Next]_Tool!vars, NEW o \in Ops,
           pc[o] = "verify", pc'[o] = "end", status'[o] # "cancelled"
    PROVE  Tool!Verified(o)
  <1>1. pc \in [Ops -> {"new", "end"} \cup Tool!Waiting \cup Tool!Holding] /\ DOMAIN status = Ops
    BY DEF Tool!TypeOK
  <1>2. ~UNCHANGED pc
    OBVIOUS
  <1>3. \A r \in Readers : ~Tool!Read(r)
    BY <1>2 DEF Tool!Read, Tool!Get, Tool!Scan, Tool!KeepList, Tool!Publish, Tool!LookAt
  <1>4. \A x \in Ops : ~Tool!Cancel(x) /\ ~Tool!Verification(x) /\ ~Tool!Child(x)
    BY <1>2 DEF Tool!Cancel, Tool!Verification, Tool!VerifyRead, Tool!VerifyKeep, Tool!Child,
                Tool!ChildActs, Tool!ChildExits, Tool!ChildMutes
  <1>5. ASSUME NEW x \in Ops, NEW to, Tool!Goes(x, to) PROVE x = o /\ to = "end"
    BY <1>1, <1>5 DEF Tool!Goes
  <1>6. ASSUME NEW x \in Ops, NEW q \in Requests PROVE ~Tool!Submit(x, q)
    BY <1>1, <1>6 DEF Tool!Submit
  <1>7. ASSUME NEW x \in Ops, Tool!Task(x) PROVE Tool!Verified(o)
    <2>1. CASE \/ Tool!TakeLock(x) \/ Tool!TakeSlot(x) \/ Tool!Drained(x)
               \/ Tool!Timeout(x) \/ Tool!Kill(x)
      BY <1>5, <2>1 DEF Tool!TakeLock, Tool!TakeSlot, Tool!Drained, Tool!Timeout, Tool!Kill
    <2>2. CASE Tool!SpawnFails(x) \/ Tool!Collect(x) \/ Tool!Reap(x)
      BY <1>5, <2>2 DEF Tool!SpawnFails, Tool!Collect, Tool!Reap, Tool!Ends
    <2>3. CASE Tool!Deliver(x)
      BY <1>1, <1>5, <2>3 DEF Tool!Deliver, Tool!Ends
    <2>4. CASE Tool!Verified(x)
      BY <1>5, <2>4 DEF Tool!Verified, Tool!Ends
    <2> QED BY <1>7, <2>1, <2>2, <2>3, <2>4 DEF Tool!Task
  <1> QED BY <1>2, <1>3, <1>4, <1>6, <1>7 DEF Tool!Next, Tool!vars

LEMMA VerdictOnTruth ==
    ASSUME NEW o \in Ops, req[o] \in Tool!Request, Tool!Plans(req[o])
    PROVE  Tool!Verifies(req[o], Tool!Truth(Tool!Prov(o))) <=> Tool!Done(req[o])
  <1> DEFINE r == req[o]
  <1>1. Tool!Truth(r.provider).cli = host[r.provider].cli
    BY DEF Tool!Truth, Tool!Seen
  <1>2. r.action \in Tool!Actions
    BY DEF Tool!Request
  <1> QED BY <1>1, <1>2 DEF Tool!Verifies, Tool!ClaudeVerifies, Tool!CodexVerifies,
                            Tool!SkillsVerifies, Tool!AgyVerifies,
                            Tool!InstallOnlyVerifies, Tool!Plans, Tool!ClaudePlans, Tool!CodexPlans, Tool!SkillsPlans, Tool!AgyPlans,
                            Tool!InstallOnlyPlans, Tool!Done, Tool!Prov, Tool!Actions

\* The verdict of a verification is true whatever operations ran before it, beside it and
\* half-way, unless a list could not be read or a command got loose (the verify of each
\* adapter, operations.py _run).
THEOREM ToolingVerdict == Tool!Spec => VerdictIsTrue
  <1>1. ASSUME ToolingInvariant, NEW o \in Ops, Tool!Verified(o), ~check[o].suspect, cut = {}
        PROVE  status'[o] = "succeeded" <=> Tool!Done(req[o])
    <2>1. check[o].look = Tool!Truth(Tool!Prov(o))
      BY <1>1 DEF ToolingInvariant, LooksAreCurrent, Tool!Verified
    <2>2. status'[o] = IF Tool!Verifies(req[o], check[o].look) THEN "succeeded" ELSE "failed"
      BY <1>1 DEF ToolingInvariant, Tool!TypeOK, Tool!Verified, Tool!Ends
    <2>3. req[o] \in Tool!Request /\ Tool!Plans(req[o])
      BY <1>1 DEF ToolingInvariant, Stage, Tool!Verified
    <2> QED BY <2>1, <2>2, <2>3, VerdictOnTruth
  <1>2. ToolingInvariant /\ [Tool!Next]_Tool!vars => \A o \in DOMAIN status : Tool!Verdict(o)
    <2> SUFFICES ASSUME ToolingInvariant, [Tool!Next]_Tool!vars, NEW o \in Ops,
                        pc[o] = "verify", pc'[o] = "end", status'[o] # "cancelled",
                        ~check[o].suspect, cut = {}
                 PROVE  status'[o] = "succeeded" <=> Tool!Done(req[o])
      BY DEF ToolingInvariant, Tool!TypeOK, Tool!Verdict
    <2>1. Tool!Verified(o)
      BY VerdictByVerified DEF ToolingInvariant
    <2> QED BY <1>1, <2>1
  <1>3. tooling = Tool!vars
    BY DEF tooling, Tool!vars
  <1>4. ToolingInvariant /\ [Tool!Next]_Tool!vars => [\A o \in DOMAIN status : Tool!Verdict(o)]_tooling
    BY <1>2
  <1> QED BY <1>4, ToolingInit, ToolingStep, PTL DEF Tool!Spec, VerdictIsTrue

\* Where nobody holds a CLI, the cache says of it what is so, for any number of readers
\* that collect pages while operations come and go (cache.py, _resolve_collection,
\* operations.py _run), but for what the invalidation came too early for.
THEOREM ToolingCache == Tool!Spec => []Tool!CacheReflects
  <1>1. ToolingInvariant => Tool!CacheReflects
    <2> SUFFICES ASSUME ToolingInvariant, cut = {}, NEW p \in Adapters, ~Held(p)
                 PROVE  /\ p \in Tool!ListCached /\ lists[p] # None /\ ~lists[p].suspect =>
                              lists[p].look = Tool!Truth(p)
                        /\ \A c \in Collections : pages[c] # None /\ ~pages[c].suspect =>
                              Tool!Page(c, pages[c].looks) = Tool!Page(c, [pages[c].looks EXCEPT ![p] = Tool!Truth(p)])
      BY DEF Tool!CacheReflects, Held
    <2>1. p \in Tool!ListCached /\ lists[p] # None /\ ~lists[p].suspect => lists[p].look = Tool!Truth(p)
      BY DEF ToolingInvariant, LooksAreCurrent, Current
    <2>2. ASSUME NEW c \in Collections, pages[c] # None, ~pages[c].suspect
          PROVE  Tool!Page(c, pages[c].looks) = Tool!Page(c, [pages[c].looks EXCEPT ![p] = Tool!Truth(p)])
      <3>1. pages[c].looks \in [Adapters -> Tool!Look]
        BY <2>2 DEF ToolingInvariant, Tool!TypeOK
      <3>2. CASE p \in Tool!Scope(c)
        <4>1. pages[c].looks[p] = Tool!Truth(p)
          BY <2>2, <3>2 DEF ToolingInvariant, LooksAreCurrent, Current
        <4>2. [pages[c].looks EXCEPT ![p] = Tool!Truth(p)] = pages[c].looks
          BY <3>1, <4>1
        <4> QED BY <4>2
      <3>3. CASE p \notin Tool!Scope(c)
        <4>1. c = "catalog"
          BY <3>3 DEF Tool!Scope
        <4>2. \A q \in Tool!Scope(c) : [pages[c].looks EXCEPT ![p] = Tool!Truth(p)][q] = pages[c].looks[q]
          BY <3>1, <3>3, ScopeIsAdapters
        <4> QED BY <4>1, <4>2 DEF Tool!Page, Tool!CatalogPage
      <3> QED BY <3>2, <3>3
    <2> QED BY <2>1, <2>2
  <1> QED BY <1>1, ToolingInit, ToolingStep, PTL DEF Tool!Spec
=============================================================================
