--------------------------- MODULE AgentStepProofs ---------------------------
(* Theorems about AgentStep, for every number of steps, terminals, retries, polls  *)
(* and faults.                                                                    *)
EXTENDS MCAgentStep, SequenceTheorems, FiniteSetTheorems, TLAPS

-----------------------------------------------------------------------------
(* Types.                                                                       *)

Record == [key : Keys, valid : BOOLEAN]

\* put returns a sequence of records that is no longer than the cap allows.
LEMMA PutType ==
    ASSUME store \in Seq(Record), NEW key \in Keys, NEW valid \in BOOLEAN
    PROVE  Put(key, valid) \in Seq(Record)
<1> DEFINE older == {i \in 1..Len(store) : store[i].key = key}
           kept == IF older = {} THEN store ELSE RemoveAt(store, CHOOSE i \in older : TRUE)
           rec == [key |-> key, valid |-> valid]
<1>1. kept \in Seq(Record)
  <2>1. CASE older = {}
    BY <2>1
  <2>2. CASE older # {}
    <3> DEFINE i == CHOOSE j \in older : TRUE
    <3>1. i \in 1..Len(store)
      BY <2>2
    <3> HIDE DEF i
    <3>2. SubSeq(store, 1, i - 1) \in Seq(Record)
      <4>1. i - 1 \in Int /\ \A j \in 1..(i - 1) : store[j] \in Record
        BY <3>1
      <4> QED BY <4>1, SubSeqProperties
    <3>3. SubSeq(store, i + 1, Len(store)) \in Seq(Record)
      <4>1. /\ i + 1 \in Int /\ Len(store) \in Int
            /\ \A j \in (i + 1)..Len(store) : store[j] \in Record
        BY <3>1
      <4> QED BY <4>1, SubSeqProperties
    <3>4. RemoveAt(store, i) \in Seq(Record)
      BY <3>2, <3>3 DEF RemoveAt
    <3> QED BY <2>2, <3>4 DEF i
  <2> QED BY <2>1, <2>2
<1>2. rec \in Record
  BY DEF Record
<1> HIDE DEF kept, rec
<1>3. Append(kept, rec) \in Seq(Record) /\ Len(Append(kept, rec)) > 0
  BY <1>1, <1>2
<1>4. Tail(Append(kept, rec)) \in Seq(Record)
  BY <1>3
<1> QED
  BY <1>3, <1>4 DEF Put, kept, rec

\* The store and its ghosts keep their types when a record is put.
LEMMA RecordOutputTypes ==
    ASSUME TypeOK, NEW key \in Keys, NEW valid \in BOOLEAN, RecordStepOutput(key, valid)
    PROVE  /\ store' \in Seq(Record)
           /\ last' \in [Steps -> {"none", "valid", "invalid"}]
           /\ since' \in [Steps -> SUBSET Keys]
  BY PutType DEF TypeOK, RecordStepOutput, Record

\* Faults are counted down.
LEMMA FaultType == ASSUME faults \in Nat, NEW kind, Fault(kind) PROVE faults' \in Nat
  BY DEF Fault

\* The agents keep the types.
LEMMA AgentsType == TypeOK /\ Agents => TypeOK'
<1> SUFFICES ASSUME TypeOK, Agents PROVE TypeOK'
  OBVIOUS
<1> DEFINE OutputsTyped == /\ store \in Seq(Record)
                           /\ last \in [Steps -> {"none", "valid", "invalid"}]
                           /\ since \in [Steps -> SUBSET Keys]
           AgentsTyped ==
              /\ alive \subseteq Terminals
              /\ turn \in [Terminals -> {"none", "asked", "working", "done", "dead"}]
              /\ status \in [Terminals -> {"UNKNOWN", "IDLE", "PROCESSING", "COMPLETED", "ERROR"}]
<1>1. UNCHANGED <<step, cancelled, owner, left>>
  BY DEF Agents, AgentsOnly, Boot, BeginTurn, EndTurn, Return, OtherReturn, Dies, Detect,
         Vanish, Gone
<1>2. OutputsTyped' /\ faults' \in Nat /\ AgentsTyped'
  <2>1. ASSUME NEW t \in Terminals, Return(t)
        PROVE  OutputsTyped' /\ faults' \in Nat /\ AgentsTyped'
    <3>1. owner[t] \in Keys
      BY <2>1, StepAssumption DEF Return, Keys, StepAssumption
    <3> QED BY <2>1, <3>1, RecordOutputTypes DEF Return, TypeOK
  <2>2. ASSUME NEW key \in Others, OtherReturn(key)
        PROVE  OutputsTyped' /\ faults' \in Nat /\ AgentsTyped'
    BY <2>2, RecordOutputTypes DEF OtherReturn, Keys, TypeOK
  <2>3. ASSUME NEW t \in Terminals, Boot(t) \/ Detect(t)
        PROVE  OutputsTyped' /\ faults' \in Nat /\ AgentsTyped'
    <3>1. ReadyLooks \cup EndLooks \cup Looks(t) \subseteq {"IDLE", "COMPLETED", "PROCESSING", "ERROR"}
      BY StepAssumption DEF StepAssumption, ReadyStates, Looks
    <3> QED BY <2>3, <3>1 DEF Boot, Detect, TypeOK, outputs, Record
  <2>4. ASSUME NEW t \in Terminals, BeginTurn(t) \/ EndTurn(t) \/ Dies(t) \/ Vanish(t)
        PROVE  OutputsTyped' /\ faults' \in Nat /\ AgentsTyped'
    BY <2>4, FaultType DEF BeginTurn, EndTurn, Dies, Vanish, Gone, TypeOK, outputs, Record
  <2> QED
    BY <2>1, <2>2, <2>3, <2>4 DEF Agents
<1> QED
  BY <1>1, <1>2 DEF TypeOK, Record

\* How an attempt may go on.
LEMMA AttemptTypes ==
    ASSUME TypeOK, NEW k \in Steps
    PROVE  /\ Collected(k) \in StepType /\ Failed(k) \in StepType
           /\ Over(k, "stray") \in StepType /\ AfterCancel(k) \in StepType
           /\ Over(k, "skipped") \in StepType
           /\ Remembers(k) \in StepType
<1>1. step[k] \in StepType
  BY DEF TypeOK
<1>2. \A o \in Outcomes : Over(k, o) \in StepType
  BY <1>1 DEF Over, StepType, Pcs
<1>3. Create(k) \in StepType
  BY <1>1 DEF Create, StepType, Pcs
<1>4. Collected(k) \in StepType
  <2>1. [Create(k) EXCEPT !.reprompted = TRUE] \in StepType
    BY <1>3 DEF StepType
  <2> QED BY <1>2, <2>1 DEF Collected, Outcomes
<1>5. Failed(k) \in StepType
  <2>1. [Create(k) EXCEPT !.att = @ + 1] \in StepType
    BY <1>3 DEF StepType
  <2> QED BY <1>2, <2>1 DEF Failed, Outcomes
<1>6. AfterCancel(k) \in StepType
  BY <1>1 DEF AfterCancel, StepType, Pcs, Outcomes
<1>7. Remembers(k) \in StepType
  <2>1. [step[k] EXCEPT !.worked = TRUE, !.idle = 0] \in StepType
    BY <1>1 DEF StepType
  <2>2. [step[k] EXCEPT !.idle = step[k].idle + 1] \in StepType
    <3>1. step[k].idle + 1 \in Nat
      BY <1>1 DEF StepType
    <3> QED BY <1>1, <3>1 DEF StepType
  <2>3. [step[k] EXCEPT !.idle = 0] \in StepType
    BY <1>1 DEF StepType
  <2> QED BY <1>1, <2>1, <2>2, <2>3 DEF Remembers
<1> QED
  BY <1>2, <1>4, <1>5, <1>6, <1>7 DEF Outcomes

\* A step that holds a terminal.
Holding == {"ready", "send", "poll", "extract", "teardown"}

\* Each branch of a drive moves its own step to a state of the type.
LEMMA DriveType ==
    ASSUME TypeOK, NEW k \in Steps, Drive(k), step[k].pc \in Holding => Term(k) \in Terminals
    PROVE  TypeOK'
<1> DEFINE Typed == /\ step \in [Steps -> StepType] /\ left \subseteq Terminals
                    /\ owner \in [Terminals -> Steps \cup {NoTerm}]
                    /\ alive \subseteq Terminals
                    /\ turn \in [Terminals -> {"none", "asked", "working", "done", "dead"}]
                    /\ status \in [Terminals -> {"UNKNOWN", "IDLE", "PROCESSING", "COMPLETED",
                                                 "ERROR"}]
                    /\ faults \in Nat
<1>1. UNCHANGED <<cancelled, outputs>>
  BY DEF Drive, StepOnly, CreateTerminal, CreateRaises, WaitReady, SendInput, SendRaises, Poll,
         Expire, Interrupt, Extract, ExtractRaises, Teardown
<1>2. step[k] \in StepType /\ Term(k) \in Terminals \cup {NoTerm}
  BY DEF TypeOK, StepType, Term
<1>3. ASSUME NEW r \in StepType, Set(k, r) PROVE step' \in [Steps -> StepType]
  BY <1>3 DEF Set, TypeOK
<1>4. Leaves(k) => left' \subseteq Terminals
  BY <1>2 DEF Leaves, TypeOK
<1>5. Raises(k) \/ Strays(k) => step' \in [Steps -> StepType] /\ left' \subseteq Terminals
  BY <1>3, <1>4, AttemptTypes DEF Raises, Strays
<1>6. CASE CreateTerminal(k)
  <2>1. PICK t \in Created :
           /\ owner' = [owner EXCEPT ![t] = k] /\ alive' = alive \cup {t}
           /\ \E look \in ReadyLooks \cup {"UNKNOWN"} : status' = [status EXCEPT ![t] = look]
           /\ Set(k, [step[k] EXCEPT !.pc = "ready", !.term = t])
    BY <1>6 DEF CreateTerminal
  <2>2. [step[k] EXCEPT !.pc = "ready", !.term = t] \in StepType
    BY <1>2 DEF StepType, Pcs, Terminals
  <2>3. Typed'
    BY <1>6, <1>3, <2>1, <2>2, StepAssumption
       DEF CreateTerminal, TypeOK, Terminals, StepAssumption, ReadyStates
  <2> QED BY <1>1, <2>3 DEF TypeOK, outputs
<1>7. CASE CreateRaises(k) \/ SendRaises(k) \/ ExtractRaises(k)
  <2>1. Typed'
    BY <1>7, <1>5, FaultType DEF CreateRaises, SendRaises, ExtractRaises, TypeOK, terminals
  <2> QED BY <1>1, <2>1 DEF TypeOK, outputs
<1>8. CASE WaitReady(k)
  <2>1. [step[k] EXCEPT !.pc = "send"] \in StepType
    BY <1>2 DEF StepType, Pcs
  <2>2. Typed'
    BY <1>8, <1>3, <1>5, <2>1 DEF WaitReady, TypeOK, terminals
  <2> QED BY <1>1, <2>2 DEF TypeOK, outputs
<1>9. CASE SendInput(k)
  <2>1. [step[k] EXCEPT !.pc = "poll", !.worked = FALSE, !.idle = 0] \in StepType
    BY <1>2 DEF StepType, Pcs
  <2>2. Typed'
    BY <1>9, <1>3, <2>1 DEF SendInput, TypeOK
  <2> QED BY <1>1, <2>2 DEF TypeOK, outputs
<1>10. CASE Poll(k)
  <2>1. [step[k] EXCEPT !.pc = "extract"] \in StepType
    BY <1>2 DEF StepType, Pcs
  <2>2. Typed'
    BY <1>10, <1>3, <2>1, AttemptTypes DEF Poll, TypeOK, terminals
  <2> QED BY <1>1, <2>2 DEF TypeOK, outputs
<1>11. CASE Expire(k)
  BY <1>1, <1>11, <1>5 DEF Expire, TypeOK, terminals, outputs
<1>12. CASE Interrupt(k)
  BY <1>1, <1>12, <1>3, AttemptTypes DEF Interrupt, TypeOK, terminals, outputs
<1>13. CASE Extract(k)
  <2>1. [step[k] EXCEPT !.pc = "teardown"] \in StepType
    BY <1>2 DEF StepType, Pcs
  <2>2. Typed'
    BY <1>13, <1>3, <2>1, AttemptTypes DEF Extract, TypeOK, terminals
  <2> QED BY <1>1, <2>2 DEF TypeOK, outputs
<1>14. CASE Teardown(k)
  <2>1. step' \in [Steps -> StepType]
    BY <1>14, <1>3, AttemptTypes DEF Teardown
  <2>2. CASE Gone(Term(k)) /\ UNCHANGED <<left, faults>>
    BY <1>1, <2>1, <2>2 DEF Gone, TypeOK, outputs
  <2>3. CASE Fault("teardown") /\ Leaves(k) /\ UNCHANGED terminals
    BY <1>1, <1>4, <2>1, <2>3, FaultType DEF TypeOK, outputs, terminals
  <2> QED BY <1>14, <2>2, <2>3 DEF Teardown
<1> QED
  BY <1>6, <1>7, <1>8, <1>9, <1>10, <1>11, <1>12, <1>13, <1>14 DEF Drive

-----------------------------------------------------------------------------
(* Who holds which terminal, and what it shows then.                            *)

\* A terminal is held by the step it was made for, a fresh one by nobody.
HoldOK ==
    /\ \A k \in Steps :
          /\ At(k, "create") => Term(k) = NoTerm
          /\ step[k].pc \in Holding => Term(k) \in Terminals /\ owner[Term(k)] = k
          /\ k \in Reused => Term(k) = k /\ ~At(k, "create")
    /\ \A t \in Terminals : owner[t] = NoTerm => t \notin alive /\ turn[t] = "none"

\* A terminal looks busy only in a turn or after it, and COMPLETED only after it.
LookOK ==
    \A t \in Terminals :
       /\ status[t] = "COMPLETED" => turn[t] = "done"
       /\ status[t] = "PROCESSING" => turn[t] \in {"working", "done", "dead"}

\* What is true of the turn while a step waits for it.
WaitOK ==
    \A k \in Steps :
       /\ At(k, "ready") \/ At(k, "send") => turn[Term(k)] \in {"none", "dead"}
       /\ At(k, "poll") /\ step[k].worked =>
             /\ turn[Term(k)] \in {"working", "done", "dead"}
             /\ status[Term(k)] = "IDLE" => turn[Term(k)] = "done"
       /\ At(k, "extract") => turn[Term(k)] = "done"

Inv == TypeOK /\ HoldOK

-----------------------------------------------------------------------------
LEMMA InitInv == Init => Inv /\ OnlyFailuresLeave
<1> SUFFICES ASSUME Init PROVE Inv /\ OnlyFailuresLeave
  OBVIOUS
<1>1. \A k \in Steps : step[k] \in StepType
  <2>1. \A t \in Terminals \cup {NoTerm}, p \in Pcs : Attempt(p, t) \in StepType
    BY DEF Attempt, StepType, Outcomes
  <2> QED BY <2>1 DEF Init, Terminals, Pcs
<1>2. TypeOK
  <2>1. status \in [Terminals -> {"UNKNOWN", "IDLE", "PROCESSING", "COMPLETED", "ERROR"}]
    BY StepAssumption DEF Init, StepAssumption, ReadyStates
  <2>2. store \in Seq([key : Keys, valid : BOOLEAN])
    BY DEF Init
  <2> QED BY <1>1, <2>1, <2>2, StepAssumption DEF TypeOK, Init, Terminals, StepAssumption
<1>3. HoldOK
  BY StepAssumption DEF Init, HoldOK, At, Term, Attempt, Holding, Terminals, StepAssumption
<1>4. OnlyFailuresLeave
  BY StepAssumption DEF Init, OnlyFailuresLeave, Created, StepAssumption
<1> QED BY <1>2, <1>3, <1>4 DEF Inv

\* What the agents do leaves owners and held terminals alone.
LEMMA AgentsHold == Inv /\ Agents => HoldOK'
<1> SUFFICES ASSUME Inv, Agents PROVE HoldOK'
  OBVIOUS
<1>1. UNCHANGED <<step, owner>>
  BY DEF Agents, AgentsOnly, Boot, BeginTurn, EndTurn, Return, OtherReturn, Dies, Detect,
         Vanish, Gone
<1>2. alive' \subseteq alive /\ \A t \in Terminals \ alive : turn'[t] = turn[t]
  BY DEF Agents, AgentsOnly, Boot, BeginTurn, EndTurn, Return, OtherReturn, Dies, Detect,
         Vanish, Gone, Inv, TypeOK
<1> QED
  BY <1>1, <1>2 DEF HoldOK, Inv, At, Term

\* A step drives itself only.
LEMMA DriveLocal ==
    ASSUME TypeOK, NEW k \in Steps, Drive(k)
    PROVE  \A j \in Steps \ {k} : step'[j] = step[j]
<1>1. \A r : Set(k, r) => \A j \in Steps \ {k} : step'[j] = step[j]
  BY DEF Set, TypeOK
<1> QED
  BY <1>1 DEF Drive, CreateTerminal, CreateRaises, WaitReady, SendInput, SendRaises, Poll,
              Expire, Interrupt, Extract, ExtractRaises, Teardown, Raises, Strays

\* What becomes of the step that is driven.
LEMMA AttemptEnds ==
    ASSUME TypeOK, NEW k \in Steps
    PROVE  /\ \A r : Set(k, r) => step'[k] = r
           /\ \A o : Over(k, o).pc = "over" /\ Over(k, o).term = Term(k)
           /\ Create(k).pc = "create" /\ Create(k).term = NoTerm
           /\ Collected(k).pc \in {"over", "create"} /\ Failed(k).pc \in {"over", "create"}
           /\ Collected(k).pc = "create" => Collected(k).term = NoTerm /\ k \in Schema
           /\ Collected(k).pc = "over" => Collected(k).term = Term(k)
           /\ Failed(k).pc = "create" => Failed(k).term = NoTerm /\ k \in Engine
           /\ Failed(k).pc = "over" => Failed(k).term = Term(k)
           /\ AfterCancel(k).pc = "teardown" /\ AfterCancel(k).term = Term(k)
           /\ Remembers(k).pc = step[k].pc /\ Remembers(k).term = Term(k)
<1>1. step[k] \in StepType
  BY DEF TypeOK
<1>2. \A r : Set(k, r) => step'[k] = r
  BY DEF Set, TypeOK
<1>3. \A o : Over(k, o).pc = "over" /\ Over(k, o).term = Term(k)
  BY <1>1 DEF Over, Term, StepType
<1>4. Create(k).pc = "create" /\ Create(k).term = NoTerm
  BY <1>1 DEF Create, StepType
<1>5. /\ Collected(k).pc \in {"over", "create"}
      /\ Collected(k).pc = "create" => Collected(k).term = NoTerm /\ k \in Schema
      /\ Collected(k).pc = "over" => Collected(k).term = Term(k)
  <2>1. [Create(k) EXCEPT !.reprompted = TRUE].pc = "create"
        /\ [Create(k) EXCEPT !.reprompted = TRUE].term = NoTerm
    BY <1>1 DEF Create, StepType
  <2> QED BY <1>3, <2>1 DEF Collected
<1>6. /\ Failed(k).pc \in {"over", "create"}
      /\ Failed(k).pc = "create" => Failed(k).term = NoTerm /\ k \in Engine
      /\ Failed(k).pc = "over" => Failed(k).term = Term(k)
  <2>1. [Create(k) EXCEPT !.att = @ + 1].pc = "create"
        /\ [Create(k) EXCEPT !.att = @ + 1].term = NoTerm
    BY <1>1 DEF Create, StepType
  <2> QED BY <1>3, <2>1 DEF Failed
<1>7. AfterCancel(k).pc = "teardown" /\ AfterCancel(k).term = Term(k)
  BY <1>1 DEF AfterCancel, Term, StepType
<1>8. Remembers(k).pc = step[k].pc /\ Remembers(k).term = Term(k)
  BY <1>1 DEF Remembers, Term, StepType
<1> QED
  BY <1>2, <1>3, <1>4, <1>5, <1>6, <1>7, <1>8

\* Apart from a creation, a step keeps its terminal until it is over or begins again.
LEMMA DriveMoves ==
    ASSUME Inv, NEW k \in Steps, Drive(k), ~CreateTerminal(k)
    PROVE  /\ UNCHANGED owner
           /\ \/ step'[k].pc \in Holding /\ step[k].pc \in Holding
              \/ step'[k].pc = "over"
              \/ step'[k].pc = "create" /\ k \notin Reused
           /\ step'[k].term = IF step'[k].pc = "create" THEN NoTerm ELSE Term(k)
<1> USE AttemptEnds DEF Inv
<1>1. step[k] \in StepType /\ Engine \cap Reused = {} /\ Schema \subseteq Engine
  BY StepAssumption DEF TypeOK, StepAssumption
<1>2. \A p \in Pcs : [step[k] EXCEPT !.pc = p].pc = p /\ [step[k] EXCEPT !.pc = p].term = Term(k)
  BY <1>1 DEF StepType, Term
<1>3. CASE Raises(k) \/ Strays(k)
  <2>1. UNCHANGED owner
    BY <1>3 DEF Drive, CreateTerminal, CreateRaises, WaitReady, SendInput, SendRaises, Poll,
                Expire, Interrupt, Extract, ExtractRaises, Teardown, terminals, Gone
  <2> QED BY <1>1, <1>3, <2>1 DEF Raises, Strays
<1>4. CASE WaitReady(k) /\ ~Raises(k)
  <2>1. Set(k, [step[k] EXCEPT !.pc = "send"]) /\ UNCHANGED owner /\ step[k].pc = "ready"
    BY <1>4 DEF WaitReady, terminals, At
  <2>2. step'[k] = [step[k] EXCEPT !.pc = "send"]
    BY <2>1
  <2> QED BY <1>2, <2>1, <2>2 DEF Holding, Pcs
<1>5. CASE SendInput(k)
  <2>1. LET r == [step[k] EXCEPT !.pc = "poll", !.worked = FALSE, !.idle = 0]
        IN  r.pc = "poll" /\ r.term = Term(k)
    BY <1>1 DEF StepType, Term
  <2> QED BY <1>5, <2>1 DEF SendInput, Holding, At
<1>6. CASE Poll(k)
  <2>1. UNCHANGED owner /\ step[k].pc = "poll"
    BY <1>6 DEF Poll, terminals, At
  <2>2. step'[k] \in {[step[k] EXCEPT !.pc = "extract"], Remembers(k)}
    BY <1>6 DEF Poll
  <2>3. CASE step'[k] = [step[k] EXCEPT !.pc = "extract"]
    BY <1>2, <2>1, <2>3 DEF Holding, Pcs
  <2>4. CASE step'[k] = Remembers(k)
    BY <2>1, <2>4 DEF Holding
  <2> QED BY <2>2, <2>3, <2>4
<1>7. CASE Interrupt(k)
  BY <1>7 DEF Interrupt, terminals, Holding, At
<1>8. CASE Extract(k)
  <2>1. UNCHANGED owner /\ step[k].pc = "extract"
    BY <1>8 DEF Extract, terminals, At
  <2>2. step'[k] = [step[k] EXCEPT !.pc = "teardown"] \/ (k \in Reused /\ step'[k] = Collected(k))
    BY <1>8 DEF Extract, created_here
  <2>3. CASE step'[k] = [step[k] EXCEPT !.pc = "teardown"]
    BY <1>2, <2>1, <2>3 DEF Holding, Pcs
  <2>4. CASE k \in Reused /\ step'[k] = Collected(k)
    BY <1>1, <2>1, <2>4
  <2> QED BY <2>2, <2>3, <2>4
<1>9. CASE Teardown(k)
  BY <1>1, <1>9 DEF Teardown, terminals, Gone, At, created_here
<1> QED
  BY <1>3, <1>4, <1>5, <1>6, <1>7, <1>8, <1>9
     DEF Drive, CreateRaises, WaitReady, SendRaises, Expire, ExtractRaises

\* A step holds the terminal it created or was lent, and no other step does.
LEMMA DriveHold ==
    ASSUME Inv, NEW k \in Steps, Drive(k)
    PROVE  HoldOK'
<1> USE DEF Inv, At, Term
<1>1. \A j \in Steps \ {k} : step'[j] = step[j]
  BY DriveLocal
<1>2. CASE CreateTerminal(k)
  <2>1. PICK t \in Created :
           /\ owner[t] = NoTerm
           /\ owner' = [owner EXCEPT ![t] = k] /\ alive' = alive \cup {t}
           /\ Set(k, [step[k] EXCEPT !.pc = "ready", !.term = t])
    BY <1>2 DEF CreateTerminal
  <2>2. step'[k].pc = "ready" /\ step'[k].term = t
    <3>1. step'[k] = [step[k] EXCEPT !.pc = "ready", !.term = t]
      BY <2>1, AttemptEnds
    <3> QED BY <3>1 DEF TypeOK, StepType
  <2>3. k \notin Reused /\ turn' = turn
    BY <1>2 DEF CreateTerminal, HoldOK
  <2>4. owner \in [Terminals -> Steps \cup {NoTerm}] /\ t \in Terminals /\ owner'[t] = k
    BY <2>1 DEF TypeOK, Terminals
  <2>5. \A j \in Steps \ {k} : step[j].pc \in Holding =>
           step[j].term \in Terminals /\ owner[step[j].term] = j /\ step[j].term # t
    BY <2>1, StepAssumption DEF HoldOK, StepAssumption
  <2>6. \A j \in Steps : /\ step'[j].pc = "create" => step'[j].term = NoTerm
                         /\ step'[j].pc \in Holding => step'[j].term \in Terminals
                                                      /\ owner'[step'[j].term] = j
                         /\ j \in Reused => step'[j].term = j /\ step'[j].pc # "create"
    BY <1>1, <2>1, <2>2, <2>3, <2>4, <2>5 DEF HoldOK
  <2>7. \A u \in Terminals : owner'[u] = NoTerm => u # t /\ owner[u] = NoTerm
    BY <2>1, <2>4, StepAssumption DEF StepAssumption
  <2> QED BY <2>1, <2>3, <2>6, <2>7 DEF HoldOK
<1>3. CASE ~CreateTerminal(k)
  <2>1. \A t \in Terminals : owner[t] = NoTerm => t \notin alive' /\ turn'[t] = "none"
    <3>1. SUFFICES ASSUME NEW t \in Terminals, owner[t] = NoTerm
                   PROVE  t \notin alive' /\ turn'[t] = "none"
      OBVIOUS
    <3>2. t \notin alive /\ turn[t] = "none"
      BY <3>1 DEF HoldOK
    <3>3. SendInput(k) => Term(k) # t
      BY <3>2 DEF SendInput
    <3>4. alive' \subseteq alive
      BY <1>3 DEF Drive, CreateRaises, WaitReady, SendInput, SendRaises, Poll, Expire, Interrupt,
                  Extract, ExtractRaises, Teardown, terminals, Gone
    <3>5. SendInput(k) \/ UNCHANGED turn
      BY <1>3 DEF Drive, CreateRaises, WaitReady, SendRaises, Poll, Expire, Interrupt,
                  Extract, ExtractRaises, Teardown, terminals, Gone
    <3> QED BY <3>2, <3>3, <3>4, <3>5 DEF SendInput, TypeOK
  <2> QED BY <1>1, <1>3, <2>1, DriveMoves DEF HoldOK, Holding
<1> QED
  BY <1>2, <1>3

LEMMA InvStep == Inv /\ [Next]_vars => Inv'
<1> SUFFICES ASSUME Inv, [Next]_vars PROVE Inv'
  OBVIOUS
<1>1. CASE Agents
  BY <1>1, AgentsType, AgentsHold DEF Inv
<1>2. ASSUME NEW k \in Steps, Drive(k) PROVE Inv'
  <2>1. step[k].pc \in Holding => Term(k) \in Terminals
    BY DEF Inv, HoldOK
  <2> QED BY <1>2, <2>1, DriveType, DriveHold DEF Inv
<1>3. ASSUME NEW k \in Steps, CancelRun(k) PROVE Inv'
  BY <1>3 DEF CancelRun, Inv, TypeOK, HoldOK, terminals, outputs, At, Term
<1>4. CASE UNCHANGED vars
  BY <1>4 DEF vars, Inv, TypeOK, HoldOK, terminals, outputs, At, Term
<1> QED BY <1>1, <1>2, <1>3, <1>4 DEF Next

\* Types, and who holds what: a step that is past its creation holds a terminal that
\* is its own (agent_step.py creates one per attempt or reuses the caller's).
THEOREM SpecInv == Spec => []Inv
BY InvStep, InitInv, PTL DEF Spec

-----------------------------------------------------------------------------
(* What is left behind.                                                         *)

\* NoTerm is none of the terminals.
LEMMA NoTermFresh == NoTerm \notin Terminals
BY StepAssumption DEF StepAssumption, Terminals, Created

\* The step that had a terminal leaves it only on the list, or deleted.
LEMMA LeftStep == Inv /\ OnlyFailuresLeave /\ [Next]_vars => OnlyFailuresLeave'
<1> SUFFICES ASSUME Inv, OnlyFailuresLeave, [Next]_vars PROVE OnlyFailuresLeave'
  OBVIOUS
<1> USE DEF OnlyFailuresLeave, Holds, At, Term
<1>1. CASE Agents
  <2>1. UNCHANGED <<step, owner, left>> /\ alive' \subseteq alive
    BY <1>1 DEF Agents, AgentsOnly, Boot, BeginTurn, EndTurn, Return, OtherReturn, Dies, Detect,
                Vanish, Gone
  <2> QED BY <2>1
<1>2. ASSUME NEW k \in Steps, CreateTerminal(k) PROVE OnlyFailuresLeave'
  <2>1. PICK t \in Created :
           /\ owner[t] = NoTerm
           /\ owner' = [owner EXCEPT ![t] = k] /\ alive' = alive \cup {t}
           /\ Set(k, [step[k] EXCEPT !.pc = "ready", !.term = t])
    BY <1>2 DEF CreateTerminal
  <2>2. step'[k].pc = "ready" /\ step'[k].term = t
    <3>1. step'[k] = [step[k] EXCEPT !.pc = "ready", !.term = t]
      BY <2>1, AttemptEnds DEF Inv
    <3> QED BY <3>1 DEF Inv, TypeOK, StepType
  <2>3. owner' [t] = k /\ \A u \in Terminals \ {t} : owner'[u] = owner[u]
    BY <2>1 DEF Inv, TypeOK, Terminals
  <2>4. \A j \in Steps \ {k} : step'[j] = step[j]
    BY <1>2, DriveLocal DEF Drive, Inv
  <2>5. step[k].term = NoTerm /\ left' = left
    BY <1>2 DEF CreateTerminal, Inv, HoldOK
  <2>6. NoTerm \notin Terminals /\ alive \subseteq Terminals
    BY NoTermFresh DEF Inv, TypeOK
  <2> QED BY <2>1, <2>2, <2>3, <2>4, <2>5, <2>6
<1>3. ASSUME NEW k \in Steps, Drive(k), ~CreateTerminal(k) PROVE OnlyFailuresLeave'
  <2>1. UNCHANGED owner /\ alive' \subseteq alive /\ left \subseteq left'
    BY <1>3, DriveMoves
       DEF Drive, CreateRaises, WaitReady, SendInput, SendRaises, Poll, Expire, Interrupt,
           Extract, ExtractRaises, Teardown, terminals, Gone, Raises, Strays, Leaves
  <2>2. step[k].term \in alive' \cap Created =>
           \/ step[k].term \in left'
           \/ step'[k].term = step[k].term /\ step'[k].pc # "over"
    <3>1. CASE Raises(k) \/ Strays(k)
      <4>1. NoTerm \notin alive
        BY NoTermFresh DEF Inv, TypeOK
      <4> QED BY <2>1, <3>1, <4>1 DEF Raises, Strays, Leaves
    <3>2. CASE Teardown(k)
      <4>1. NoTerm \notin alive'
        BY NoTermFresh, <2>1 DEF Inv, TypeOK
      <4> QED BY <3>2, <4>1 DEF Teardown, Gone, Leaves
    <3>3. CASE Extract(k)
      <4>1. step[k].pc = "extract" /\ (k \in Reused => step[k].term = k)
        BY <3>3 DEF Extract, Inv, HoldOK
      <4>2. CASE k \in Reused
        BY <4>1, <4>2, StepAssumption DEF StepAssumption, Created
      <4>3. CASE k \notin Reused
        <5>1. step'[k] = [step[k] EXCEPT !.pc = "teardown"]
          BY <3>3, <4>3, AttemptEnds DEF Extract, created_here, Inv
        <5> QED BY <5>1 DEF Inv, TypeOK, StepType
      <4> QED BY <4>2, <4>3
    <3>4. CASE ~(Raises(k) \/ Strays(k)) /\ ~Teardown(k) /\ ~Extract(k)
      <4>1. step'[k].pc \in Holding
        <5>1. WaitReady(k) \/ SendInput(k) \/ Poll(k) \/ Interrupt(k)
          BY <1>3, <3>4 DEF Drive, CreateRaises, SendRaises, Expire, ExtractRaises
        <5>2. \/ step'[k] \in {[step[k] EXCEPT !.pc = "send"], [step[k] EXCEPT !.pc = "extract"],
                               [step[k] EXCEPT !.pc = "poll", !.worked = FALSE, !.idle = 0],
                               AfterCancel(k)}
              \/ step'[k] = Remembers(k) /\ step[k].pc = "poll"
          BY <3>4, <5>1, AttemptEnds DEF WaitReady, SendInput, Poll, Interrupt, Inv
        <5>3. step[k] \in StepType
          BY DEF Inv, TypeOK
        <5>4. /\ [step[k] EXCEPT !.pc = "send"].pc = "send"
              /\ [step[k] EXCEPT !.pc = "extract"].pc = "extract"
              /\ [step[k] EXCEPT !.pc = "poll", !.worked = FALSE, !.idle = 0].pc = "poll"
          BY <5>3 DEF StepType
        <5>5. AfterCancel(k).pc = "teardown" /\ Remembers(k).pc = step[k].pc
          BY AttemptEnds DEF Inv
        <5> QED BY <5>2, <5>4, <5>5 DEF Holding
      <4> QED BY <1>3, <4>1, DriveMoves DEF Holding
    <3> QED BY <3>1, <3>2, <3>3, <3>4
  <2>3. \A j \in Steps \ {k} : step'[j] = step[j]
    BY <1>3, DriveLocal DEF Inv
  <2> QED BY <2>1, <2>2, <2>3
<1>4. ASSUME NEW k \in Steps, CancelRun(k) PROVE OnlyFailuresLeave'
  BY <1>4 DEF CancelRun, terminals
<1>5. CASE UNCHANGED vars
  BY <1>5 DEF vars, terminals
<1> QED
  BY <1>1, <1>2, <1>3, <1>4, <1>5 DEF Next

\* A terminal that outlives its step was left by a failure, or by a teardown that failed.
THEOREM SpecOnlyFailuresLeave == Spec => []OnlyFailuresLeave
BY SpecInv, LeftStep, InitInv, PTL DEF Spec

-----------------------------------------------------------------------------
(* Whose answer it is.                                                          *)

Waits == LookOK /\ WaitOK
OnlyIdle == ReadyLooks = {"IDLE"}

\* Nothing waits before the first send.
LEMMA InitWaits == OnlyIdle /\ Init => Waits
<1> SUFFICES ASSUME OnlyIdle, Init PROVE Waits
  OBVIOUS
<1>1. LookOK
  BY DEF OnlyIdle, Init, LookOK
<1>2. \A k \in Steps : step[k].pc \in {"send", "create"} /\ (At(k, "send") => Term(k) \in Terminals)
  BY DEF Init, Attempt, At, Term, Terminals
<1> QED BY <1>1, <1>2 DEF Waits, WaitOK, At, Init

\* What agents and detection do to one terminal.
LEMMA AgentsWait == OnlyIdle /\ Inv /\ Waits /\ Agents => Waits'
<1> SUFFICES ASSUME OnlyIdle, Inv, Waits, Agents PROVE Waits'
  OBVIOUS
<1>1. UNCHANGED step
  BY DEF Agents, AgentsOnly, Boot, BeginTurn, EndTurn, Return, OtherReturn, Dies, Detect,
         Vanish, Gone
<1>2. \A k \in Steps : step[k].pc \in Holding => step[k].term \in Terminals
  BY DEF Inv, HoldOK, Term
<1>3. \A t \in Terminals :
        \/ status'[t] = status[t] /\ turn'[t] = turn[t]
        \/ status'[t] = "UNKNOWN" /\ turn'[t] = turn[t]
        \/ status'[t] = "IDLE" /\ turn'[t] = turn[t] /\ turn[t] = "none"
        \/ status'[t] = status[t] /\ turn[t] = "asked" /\ turn'[t] = "working"
        \/ status'[t] = status[t] /\ turn[t] = "working" /\ turn'[t] = "done"
        \/ /\ status'[t] = status[t] /\ turn[t] \in {"none", "asked", "working"}
           /\ turn'[t] = "dead"
        \/ status'[t] \in Looks(t) /\ turn'[t] = turn[t]
  <2> DEFINE P(t) == \/ status'[t] = status[t] /\ turn'[t] = turn[t]
                     \/ status'[t] = "UNKNOWN" /\ turn'[t] = turn[t]
                     \/ status'[t] = "IDLE" /\ turn'[t] = turn[t] /\ turn[t] = "none"
                     \/ status'[t] = status[t] /\ turn[t] = "asked" /\ turn'[t] = "working"
                     \/ status'[t] = status[t] /\ turn[t] = "working" /\ turn'[t] = "done"
                     \/ /\ status'[t] = status[t] /\ turn[t] \in {"none", "asked", "working"}
                        /\ turn'[t] = "dead"
                     \/ status'[t] \in Looks(t) /\ turn'[t] = turn[t]
  <2> SUFFICES ASSUME NEW t \in Terminals PROVE P(t)
    OBVIOUS
  <2>1. ASSUME NEW u \in Terminals, Boot(u) PROVE P(t)
    BY <2>1 DEF Boot, OnlyIdle, Inv, TypeOK
  <2>2. ASSUME NEW u \in Terminals, BeginTurn(u) \/ EndTurn(u) \/ Dies(u) PROVE P(t)
    BY <2>2 DEF BeginTurn, EndTurn, Dies, Inv, TypeOK
  <2>3. ASSUME NEW u \in Terminals, Detect(u) PROVE P(t)
    BY <2>3 DEF Detect, Inv, TypeOK
  <2>4. ASSUME NEW u \in Terminals, Vanish(u) PROVE P(t)
    BY <2>4 DEF Vanish, Gone, Inv, TypeOK
  <2>5. ASSUME NEW u \in Terminals, Return(u) PROVE P(t)
    BY <2>5 DEF Return
  <2>6. ASSUME NEW key \in Others, OtherReturn(key) PROVE P(t)
    BY <2>6 DEF OtherReturn
  <2> QED BY <2>1, <2>2, <2>3, <2>4, <2>5, <2>6 DEF Agents
<1>4. \A t \in Terminals : Looks(t) \subseteq
         (IF turn[t] = "working" THEN {"PROCESSING"} ELSE IF turn[t] = "done" THEN {"IDLE", "COMPLETED"}
          ELSE IF turn[t] = "dead" THEN {"ERROR"} ELSE {})
  BY StepAssumption DEF StepAssumption, ReadyStates, Looks
<1>5. LookOK'
  BY <1>3, <1>4 DEF LookOK, Waits
<1>6. WaitOK'
  BY <1>1, <1>2, <1>3, <1>4 DEF WaitOK, Waits, At, Term, Holding
<1> QED BY <1>5, <1>6 DEF Waits

\* What WaitOK says of one step.
WaitOf(k) ==
    /\ step[k].pc \in {"ready", "send"} => turn[step[k].term] \in {"none", "dead"}
    /\ step[k].pc = "poll" /\ step[k].worked =>
          /\ turn[step[k].term] \in {"working", "done", "dead"}
          /\ status[step[k].term] = "IDLE" => turn[step[k].term] = "done"
    /\ step[k].pc = "extract" => turn[step[k].term] = "done"

\* WaitOK, one step at a time.
LEMMA WaitOKIsAll == WaitOK <=> \A k \in Steps : WaitOf(k)
BY DEF WaitOK, WaitOf, At, Term

\* The terminals of the other steps are not touched.
LEMMA OthersWait ==
    ASSUME Inv, WaitOK, NEW k \in Steps, Drive(k), NEW j \in Steps \ {k}
    PROVE  WaitOf(j)'
<1>1. step'[j] = step[j] /\ WaitOf(j)
  BY DriveLocal, WaitOKIsAll DEF Inv
<1>2. CASE step[j].pc \notin Holding
  BY <1>1, <1>2 DEF WaitOf, Holding
<1>3. CASE step[j].pc \in Holding
  <2> DEFINE t == step[j].term
  <2>1. t \in Terminals /\ owner[t] = j /\ j # NoTerm
    BY <1>3, StepAssumption DEF Inv, HoldOK, Term, StepAssumption
  <2>2. status'[t] = status[t] /\ turn'[t] = turn[t]
    <3>1. CASE CreateTerminal(k)
      BY <2>1, <3>1 DEF CreateTerminal, Inv, TypeOK
    <3>2. CASE ~CreateTerminal(k)
      <4>1. step[k].pc \in Holding => t # Term(k)
        BY <2>1 DEF Inv, HoldOK
      <4> QED BY <2>1, <3>2, <4>1
              DEF Drive, CreateRaises, WaitReady, SendInput, SendRaises, Poll, Expire, Interrupt,
                  Extract, ExtractRaises, Teardown, terminals, Gone, Inv, TypeOK, At, Holding
    <3> QED BY <3>1, <3>2
  <2> QED BY <1>1, <2>2 DEF WaitOf
<1> QED BY <1>2, <1>3

\* A driven step passes from a fresh terminal to a turn of its own, and to its end.
LEMMA OwnWait ==
    ASSUME OnlyIdle, Inv, Waits, NEW k \in Steps, Drive(k)
    PROVE  WaitOf(k)' /\ LookOK'
<1> USE AttemptEnds DEF Inv
<1> DEFINE t == step[k].term
<1>1. step[k] \in StepType /\ WaitOf(k) /\ LookOK
  BY WaitOKIsAll DEF Waits, TypeOK
<1>2. step[k].pc \in Holding => t \in Terminals
  BY DEF HoldOK, Term
<1>3. CASE CreateTerminal(k)
  <2>1. PICK u \in Created :
           /\ owner[u] = NoTerm
           /\ \E look \in ReadyLooks \cup {"UNKNOWN"} : status' = [status EXCEPT ![u] = look]
           /\ Set(k, [step[k] EXCEPT !.pc = "ready", !.term = u])
    BY <1>3 DEF CreateTerminal
  <2>2. step'[k] = [step[k] EXCEPT !.pc = "ready", !.term = u]
    BY <2>1
  <2>3. step'[k].pc = "ready" /\ step'[k].term = u
    BY <1>1, <2>2 DEF StepType
  <2>4. u \in Terminals /\ turn[u] = "none" /\ turn' = turn
    BY <1>3, <2>1 DEF HoldOK, Terminals, CreateTerminal
  <2>5. LookOK'
    BY <1>1, <2>1, <2>4 DEF LookOK, TypeOK, OnlyIdle
  <2> QED BY <2>3, <2>4, <2>5 DEF WaitOf
<1>4. CASE SendInput(k)
  <2>1. step'[k] = [step[k] EXCEPT !.pc = "poll", !.worked = FALSE, !.idle = 0]
    BY <1>4 DEF SendInput
  <2>2. step'[k].pc = "poll" /\ ~step'[k].worked
    BY <1>1, <2>1 DEF StepType
  <2>3. t \in Terminals /\ turn[t] \in {"none", "dead"} /\ status' = status
        /\ turn' = [turn EXCEPT ![t] = IF @ = "dead" THEN "dead" ELSE "asked"]
    BY <1>1, <1>2, <1>4 DEF SendInput, At, Term, WaitOf, Holding
  <2>4. LookOK'
    BY <1>1, <2>3 DEF LookOK, TypeOK
  <2> QED BY <2>2, <2>4 DEF WaitOf
<1>5. CASE Poll(k)
  <2>1. step[k].pc = "poll" /\ UNCHANGED terminals /\ t \in Terminals
    BY <1>2, <1>5 DEF Poll, At, Holding
  <2>2. CASE Settles(k)
    <3>1. step'[k] = [step[k] EXCEPT !.pc = "extract"]
      BY <1>5, <2>2 DEF Poll
    <3>2. step'[k].pc = "extract" /\ step'[k].term = t
      BY <1>1, <3>1 DEF StepType
    <3>3. turn[t] = "done"
      BY <1>1, <2>1, <2>2 DEF Settles, Term, LookOK, WaitOf
    <3> QED BY <1>1, <2>1, <3>2, <3>3 DEF WaitOf, LookOK, terminals
  <2>3. CASE ~Settles(k)
    <3>1. step'[k] = Remembers(k)
      BY <1>5, <2>3 DEF Poll
    <3>2. step'[k].pc = "poll" /\ step'[k].term = t
      BY <2>1, <3>1 DEF Term
    <3>3. step'[k].worked => step[k].worked \/ status[t] = "PROCESSING"
      BY <1>1, <3>1 DEF Remembers, StepType, Term
    <3>4. status[t] = "PROCESSING" => turn[t] \in {"working", "done", "dead"}
      BY <1>1, <2>1 DEF LookOK
    <3> QED BY <1>1, <2>1, <3>2, <3>3, <3>4 DEF WaitOf, LookOK, terminals
  <2> QED BY <2>2, <2>3
<1>6. CASE WaitReady(k) /\ ~Raises(k)
  <2>1. step'[k] = [step[k] EXCEPT !.pc = "send"] /\ UNCHANGED terminals /\ step[k].pc = "ready"
    BY <1>6 DEF WaitReady, At
  <2>2. step'[k].pc = "send" /\ step'[k].term = t
    BY <1>1, <2>1 DEF StepType
  <2> QED BY <1>1, <2>1, <2>2 DEF WaitOf, LookOK, terminals
<1>7. CASE /\ ~CreateTerminal(k) /\ ~SendInput(k) /\ ~Poll(k) /\ ~(WaitReady(k) /\ ~Raises(k))
  <2>1. step'[k].pc \in {"over", "create", "teardown"}
    <3>1. \/ step'[k] = Failed(k) \/ step'[k] = Over(k, "stray") \/ step'[k] = AfterCancel(k)
          \/ step'[k] = Collected(k) \/ step'[k] = Over(k, "skipped")
          \/ step'[k] = [step[k] EXCEPT !.pc = "teardown"]
      BY <1>7 DEF Drive, CreateRaises, WaitReady, SendRaises, Expire, Interrupt,
                  Extract, ExtractRaises, Teardown, Raises, Strays
    <3>2. [step[k] EXCEPT !.pc = "teardown"].pc = "teardown"
      BY <1>1 DEF StepType
    <3>3. /\ Failed(k).pc \in {"over", "create"} /\ Collected(k).pc \in {"over", "create"}
          /\ Over(k, "stray").pc = "over" /\ Over(k, "skipped").pc = "over"
          /\ AfterCancel(k).pc = "teardown"
      OBVIOUS
    <3> QED BY <3>1, <3>2, <3>3
  <2>2. turn' = turn /\ (status' = status \/ status' = [status EXCEPT ![t] = "UNKNOWN"])
    BY <1>7 DEF Drive, CreateRaises, WaitReady, SendRaises, Expire, Interrupt,
                Extract, ExtractRaises, Teardown, terminals, Gone, Term
  <2>3. LookOK'
    BY <1>1, <2>2 DEF LookOK, TypeOK
  <2> QED BY <2>1, <2>3 DEF WaitOf
<1> QED BY <1>3, <1>4, <1>5, <1>6, <1>7

\* When the first ready look of the CLIs is IDLE, a step whose wait has ended reads the
\* answer to its own prompt, however many steps run, fail and are cancelled.
THEOREM SpecAnswersItsPrompt == ASSUME OnlyIdle PROVE Spec => []AnswersItsPrompt
<1>1. Inv /\ Waits /\ [Next]_vars => Waits'
  <2> SUFFICES ASSUME Inv, Waits, [Next]_vars PROVE Waits'
    OBVIOUS
  <2>1. CASE Agents
    BY <2>1, AgentsWait
  <2>2. ASSUME NEW k \in Steps, Drive(k) PROVE Waits'
    <3>1. \A j \in Steps : WaitOf(j)'
      BY <2>2, OthersWait, OwnWait DEF Waits
    <3>2. WaitOK' <=> \A j \in Steps : WaitOf(j)'
      BY DEF WaitOK, WaitOf, At, Term
    <3> QED BY <2>2, <3>1, <3>2, OwnWait DEF Waits
  <2>3. ASSUME NEW k \in Steps, CancelRun(k) PROVE Waits'
    BY <2>3 DEF CancelRun, Waits, LookOK, WaitOK, terminals, At, Term
  <2>4. CASE UNCHANGED vars
    BY <2>4 DEF vars, Waits, LookOK, WaitOK, terminals, At, Term
  <2> QED BY <2>1, <2>2, <2>3, <2>4 DEF Next
<1>2. Waits => AnswersItsPrompt
  BY DEF Waits, WaitOK, AnswersItsPrompt
<1>3. Init => Waits
  BY InitWaits
<1> QED
  BY <1>1, <1>2, <1>3, SpecInv, PTL DEF Spec

\* The records, terminals and outputs keep their shapes.
THEOREM SpecTypeOK == Spec => []TypeOK
<1>1. Inv => TypeOK
  BY DEF Inv
<1> QED BY <1>1, SpecInv, PTL

-----------------------------------------------------------------------------
(* The store and the verdict.                                                   *)

\* Sequences that do not repeat a key and respect the cap.
Distinct(q) == \A i, j \in 1..Len(q) : q[i].key = q[j].key => i = j
Stored == store \in Seq(Record) /\ Len(store) <= Cap /\ Distinct(store)

\* q without its record o.
Without(q, o) == [i \in 1..(Len(q) - 1) |-> IF i < o THEN q[i] ELSE q[i + 1]]

\* What remains of a sequence without its i-th element.
LEMMA RemoveAtIsWithout ==
    ASSUME NEW q \in Seq(Record), NEW o \in 1..Len(q)
    PROVE  RemoveAt(q, o) = Without(q, o) /\ Without(q, o) \in Seq(Record)
<1> DEFINE a == SubSeq(q, 1, o - 1)
           b == SubSeq(q, o + 1, Len(q))
<1>1. /\ a \in Seq(Record) /\ Len(a) = o - 1 /\ \A i \in 1..(o - 1) : a[i] = q[i]
  <2>1. 1 \in Int /\ o - 1 \in Int /\ \A i \in 1..(o - 1) : q[i] \in Record
    OBVIOUS
  <2>2. /\ a \in Seq(Record) /\ Len(a) = (IF 1 <= o - 1 THEN o - 1 - 1 + 1 ELSE 0)
        /\ \A i \in 1..(o - 1 - 1 + 1) : a[i] = q[1 + i - 1]
    BY <2>1, SubSeqProperties
  <2> QED BY <2>2
<1>2. b \in Seq(Record) /\ Len(b) = Len(q) - o /\ \A i \in 1..(Len(q) - o) : b[i] = q[o + i]
  <2>1. o + 1 \in Int /\ Len(q) \in Int /\ \A i \in (o + 1)..Len(q) : q[i] \in Record
    OBVIOUS
  <2>2. /\ b \in Seq(Record)
        /\ Len(b) = (IF o + 1 <= Len(q) THEN Len(q) - (o + 1) + 1 ELSE 0)
        /\ \A i \in 1..(Len(q) - (o + 1) + 1) : b[i] = q[o + 1 + i - 1]
    BY <2>1, SubSeqProperties
  <2> QED BY <2>2
<1> HIDE DEF a, b
<1>3. RemoveAt(q, o) = a \o b
  BY DEF RemoveAt, a, b
<1>4. /\ a \o b \in Seq(Record) /\ Len(a \o b) = Len(q) - 1
      /\ \A i \in 1..(Len(q) - 1) : (a \o b)[i] = IF i < o THEN q[i] ELSE q[i + 1]
  <2>1. a \o b \in Seq(Record) /\ Len(a \o b) = Len(a) + Len(b)
    BY <1>1, <1>2, ConcatProperties
  <2>2. \A i \in 1..(Len(q) - 1) : (a \o b)[i] = IF i <= Len(a) THEN a[i] ELSE b[i - Len(a)]
    BY <1>1, <1>2, ConcatProperties
  <2> QED BY SMTT(30), <1>1, <1>2, <2>1, <2>2
<1>5. /\ Without(q, o) \in Seq(Record) /\ Len(Without(q, o)) = Len(q) - 1
      /\ \A i \in 1..(Len(q) - 1) : Without(q, o)[i] = IF i < o THEN q[i] ELSE q[i + 1]
  BY DEF Without
<1>6. a \o b = Without(q, o)
  BY <1>4, <1>5, SeqEqual
<1> QED
  BY <1>3, <1>5, <1>6

\* A put appends a record to all others, to those without the older one of its key, or,
\* when the store is full, to those without the oldest.
LEMMA PutShape ==
    ASSUME Stored, NEW key \in Keys, NEW valid \in BOOLEAN
    PROVE  LET rec == [key |-> key, valid |-> valid]
           IN  \/ /\ \A i \in 1..Len(store) : store[i].key # key
                  /\ Len(store) < Cap /\ Put(key, valid) = Append(store, rec)
               \/ \E o \in 1..Len(store) :
                     /\ \A i \in 1..Len(store) : store[i].key = key => i = o
                     /\ store[o].key # key => o = 1 /\ Len(store) = Cap
                     /\ Put(key, valid) = Append(Without(store, o), rec)
<1> DEFINE older == {i \in 1..Len(store) : store[i].key = key}
           rec == [key |-> key, valid |-> valid]
<1>0. Cap \in Nat \ {0} /\ store \in Seq(Record) /\ rec \in Record
  BY StepAssumption DEF StepAssumption, Stored, Record
<1>1. CASE older # {}
  <2> DEFINE o == CHOOSE i \in older : TRUE
  <2>1. o \in 1..Len(store) /\ store[o].key = key
    BY <1>1
  <2>2. \A i \in 1..Len(store) : store[i].key = key => i = o
    BY <2>1 DEF Stored, Distinct
  <2> HIDE DEF o
  <2>3. Len(Append(Without(store, o), rec)) <= Cap
    BY <1>0, <2>1, RemoveAtIsWithout DEF Stored, Without
  <2>4. Put(key, valid) = Append(Without(store, o), rec)
    <3>1. RemoveAt(store, o) = Without(store, o)
      BY <1>0, <2>1, RemoveAtIsWithout
    <3>2. Put(key, valid) = LET new == Append(RemoveAt(store, o), rec)
                            IN  IF Len(new) > Cap THEN Tail(new) ELSE new
      BY <1>1 DEF Put, o
    <3>3. ~(Len(Append(Without(store, o), rec)) > Cap)
      BY <1>0, <2>1, RemoveAtIsWithout DEF Stored, Without
    <3> QED BY <3>1, <3>2, <3>3
  <2> QED BY <2>1, <2>2, <2>4
<1>2. CASE older = {} /\ Len(store) < Cap
  <2>1. ~(Len(Append(store, rec)) > Cap)
    BY <1>0, <1>2
  <2>2. Put(key, valid) = LET new == Append(store, rec)
                          IN  IF Len(new) > Cap THEN Tail(new) ELSE new
    BY <1>2 DEF Put
  <2>3. \A i \in 1..Len(store) : store[i].key # key
    BY <1>2
  <2> QED BY <1>2, <2>1, <2>2, <2>3
<1>3. CASE older = {} /\ ~(Len(store) < Cap)
  <2>1. Len(store) = Cap /\ 1 \in 1..Len(store)
    BY <1>0, <1>3 DEF Stored
  <2>2. Put(key, valid) = Tail(Append(store, rec))
    BY <1>0, <1>3, <2>1 DEF Put
  <2>3. Tail(Append(store, rec)) = Append(Without(store, 1), rec)
    BY <1>0, <2>1 DEF Without
  <2> QED BY <1>3, <2>1, <2>2, <2>3
<1> QED
  BY <1>1, <1>2, <1>3

\* put keeps the other records, the new one is the newest, and only the cap evicts.
LEMMA PutStored ==
    ASSUME Stored, NEW key \in Keys, NEW valid \in BOOLEAN, store' = Put(key, valid)
    PROVE  Stored'
<1> DEFINE rec == [key |-> key, valid |-> valid]
           n == Len(store)
<1>0. Cap \in Nat \ {0} /\ store \in Seq(Record) /\ rec \in Record
  BY StepAssumption DEF StepAssumption, Stored, Record
<1>1. CASE /\ \A i \in 1..n : store[i].key # key
           /\ n < Cap /\ store' = Append(store, rec)
  BY <1>0, <1>1 DEF Stored, Distinct
<1>2. ASSUME NEW o \in 1..n, \A i \in 1..n : store[i].key = key => i = o,
             store' = Append(Without(store, o), rec)
      PROVE  Stored'
  <2>1. /\ store' \in Seq(Record) /\ Len(store') = n /\ store'[n] = rec
        /\ \A i \in 1..(n - 1) : store'[i] = IF i < o THEN store[i] ELSE store[i + 1]
    BY <1>0, <1>2, RemoveAtIsWithout DEF Without
  <2>2. Distinct(store')
    BY SMTT(30), <1>0, <1>2, <2>1 DEF Stored, Distinct
  <2> QED BY <2>1, <2>2 DEF Stored
<1> QED
  BY <1>1, <1>2, PutShape

\* A return of k is in the store, with what was returned since behind it; or it has been
\* pushed out by as many others as the store holds.
ReturnOK(k) ==
    /\ IsFiniteSet(since[k])
    /\ last[k] = "none" => \A i \in 1..Len(store) : store[i].key # k
    /\ last[k] # "none" =>
          /\ \A i \in 1..Len(store) : store[i].key = k =>
                /\ store[i].valid <=> last[k] = "valid"
                /\ \A j \in (i + 1)..Len(store) : store[j].key \in since[k]
          /\ (\E i \in 1..Len(store) : store[i].key = k) \/ Cardinality(since[k]) >= Cap

\* A worker that returns an output keeps the store what StoreInv says of it.
LEMMA ReturnStep ==
    ASSUME TypeOK, Stored, NEW k \in Steps, ReturnOK(k),
           NEW key \in Keys, NEW valid \in BOOLEAN, RecordStepOutput(key, valid)
    PROVE  ReturnOK(k)'
<1> DEFINE rec == [key |-> key, valid |-> valid]
           n == Len(store)
<1>0. /\ Cap \in Nat \ {0} /\ store \in Seq(Record) /\ rec \in Record /\ n \in Nat
      /\ store' = Put(key, valid)
  BY StepAssumption DEF StepAssumption, Stored, Record, RecordStepOutput
<1>1. CASE key = k
  <2>1. last'[k] = (IF valid THEN "valid" ELSE "invalid") /\ since'[k] = {}
    BY <1>1 DEF RecordStepOutput
  <2>2. IsFiniteSet(since'[k])
    BY <2>1, FS_EmptySet
  <2>3. /\ Len(store') \in Nat \ {0} /\ store'[Len(store')] = rec
        /\ \A i \in 1..(Len(store') - 1) : store'[i].key # k
    <3>1. CASE /\ \A i \in 1..n : store[i].key # key
               /\ n < Cap /\ store' = Append(store, rec)
      BY SMTT(30), <1>0, <1>1, <3>1
    <3>2. ASSUME NEW o \in 1..n, \A i \in 1..n : store[i].key = key => i = o,
                 store' = Append(Without(store, o), rec)
          PROVE  /\ Len(store') \in Nat \ {0} /\ store'[Len(store')] = rec
                 /\ \A i \in 1..(Len(store') - 1) : store'[i].key # k
      <4>1. /\ Len(store') = n /\ store'[n] = rec
            /\ \A i \in 1..(n - 1) : store'[i] = IF i < o THEN store[i] ELSE store[i + 1]
        BY <1>0, <3>2, RemoveAtIsWithout DEF Without
      <4> QED BY <1>0, <1>1, <3>2, <4>1
    <3> QED BY <1>0, <3>1, <3>2, PutShape
  <2>4. \A i \in 1..Len(store') : store'[i].key = k => i = Len(store')
    BY <2>3
  <2> QED BY <1>1, <2>1, <2>2, <2>3, <2>4 DEF ReturnOK
<1>2. CASE key # k
  <2>1. last'[k] = last[k] /\ since'[k] = since[k] \cup {key}
    BY <1>2 DEF RecordStepOutput
  <2>2. IsFiniteSet(since'[k]) /\ Cardinality(since'[k]) >= Cardinality(since[k])
        /\ Cardinality(since[k]) \in Nat /\ Cardinality(since'[k]) \in Nat
    <3> DEFINE S == since[k]
    <3>1. IsFiniteSet(S)
      BY DEF ReturnOK
    <3> HIDE DEF S
    <3>2. IsFiniteSet(S \cup {key}) /\ Cardinality(S) \in Nat
          /\ Cardinality(S \cup {key}) = IF key \in S THEN Cardinality(S) ELSE Cardinality(S) + 1
      BY <3>1, FS_AddElement, FS_CardinalityType
    <3> QED BY <2>1, <3>2 DEF S
  <2>3. CASE /\ \A i \in 1..n : store[i].key # key
             /\ n < Cap /\ store' = Append(store, rec)
    <3>1. /\ Len(store') = n + 1 /\ store'[n + 1].key = key /\ store'[n + 1].key # k
          /\ \A i \in 1..n : store'[i] = store[i]
      BY <1>0, <1>2, <2>3
    <3>2. last[k] = "none" => \A i \in 1..Len(store') : store'[i].key # k
      BY <1>0, <3>1 DEF ReturnOK
    <3>3. ASSUME last[k] # "none", NEW i \in 1..Len(store'), store'[i].key = k
          PROVE  /\ store'[i].valid <=> last[k] = "valid"
                 /\ \A j \in (i + 1)..Len(store') : store'[j].key \in since'[k]
      <4>1. i \in 1..n /\ store'[i] = store[i] /\ store[i].key = k
        BY <1>0, <3>1, <3>3
      <4>2. /\ store[i].valid <=> last[k] = "valid"
            /\ \A j \in (i + 1)..n : store[j].key \in since[k]
        BY <3>3, <4>1 DEF ReturnOK
      <4>3. ASSUME NEW j \in (i + 1)..Len(store') PROVE store'[j].key \in since'[k]
        <5>1. CASE j = n + 1
          BY <2>1, <3>1, <5>1
        <5>2. CASE j # n + 1
          <6>1. j \in (i + 1)..n /\ j \in 1..n
            BY <1>0, <3>1, <4>1, <5>2
          <6> QED BY <2>1, <3>1, <4>2, <6>1
        <5> QED BY <5>1, <5>2
      <4> QED BY <4>1, <4>2, <4>3
    <3>4. ASSUME last[k] # "none"
          PROVE  \/ \E i \in 1..Len(store') : store'[i].key = k
                 \/ Cardinality(since'[k]) >= Cap
      <4>1. CASE Cardinality(since[k]) >= Cap
        BY <1>0, <2>2, <4>1
      <4>2. ASSUME NEW i \in 1..n, store[i].key = k
            PROVE  \E j \in 1..Len(store') : store'[j].key = k
        <5>1. i \in 1..Len(store') /\ store'[i].key = k
          BY <1>0, <3>1, <4>2
        <5> QED BY <5>1
      <4> QED BY <3>4, <4>1, <4>2 DEF ReturnOK
    <3> QED BY <2>1, <2>2, <3>2, <3>3, <3>4 DEF ReturnOK
  <2>4. ASSUME NEW o \in 1..n, \A i \in 1..n : store[i].key = key => i = o,
               store[o].key # key => o = 1 /\ n = Cap,
               store' = Append(Without(store, o), rec)
        PROVE  ReturnOK(k)'
    <3>1. /\ Len(store') = n /\ store'[n] = rec
          /\ \A i \in 1..(n - 1) : store'[i] = IF i < o THEN store[i] ELSE store[i + 1]
      BY <1>0, <2>4, RemoveAtIsWithout DEF Without
    <3>2. last[k] = "none" => \A i \in 1..n : store'[i].key # k
      BY <1>0, <1>2, <3>1 DEF ReturnOK
    <3>3. ASSUME last[k] # "none", NEW i \in 1..n, store'[i].key = k
          PROVE  /\ store'[i].valid <=> last[k] = "valid"
                 /\ \A j \in (i + 1)..n : store'[j].key \in since'[k]
      <4>1. i \in 1..(n - 1)
        BY <1>0, <1>2, <3>1, <3>3
      <4>2. PICK b \in 1..n : store'[i] = store[b] /\ b = IF i < o THEN i ELSE i + 1
        BY <1>0, <3>1, <4>1
      <4>3. store[b].valid <=> last[k] = "valid"
        BY <3>3, <4>2 DEF ReturnOK
      <4>4. \A j \in (b + 1)..n : store[j].key \in since[k]
        BY <3>3, <4>2 DEF ReturnOK
      <4>5. ASSUME NEW j \in (i + 1)..n PROVE store'[j].key \in since'[k]
        <5>1. CASE j = n
          BY <2>1, <3>1, <5>1
        <5>2. CASE j # n
          BY <1>0, <2>1, <3>1, <4>1, <4>2, <4>4, <5>2
        <5> QED BY <5>1, <5>2
      <4> QED BY <4>2, <4>3, <4>5
    <3>4. ASSUME last[k] # "none"
          PROVE  (\E i \in 1..n : store'[i].key = k) \/ Cardinality(since'[k]) >= Cap
      <4>1. CASE Cardinality(since[k]) >= Cap
        BY <1>0, <2>2, <4>1
      <4>2. ASSUME NEW i \in 1..n, store[i].key = k, i # o
            PROVE  \E j \in 1..n : store'[j].key = k
        <5>1. CASE i < o
          BY <1>0, <3>1, <4>2, <5>1
        <5>2. CASE i > o
          <6>1. i - 1 \in 1..(n - 1) /\ store'[i - 1] = store[i]
            BY <1>0, <3>1, <5>2
          <6> QED BY <4>2, <6>1
        <5> QED BY <4>2, <5>1, <5>2
      <4>3. CASE store[o].key = k
        <5>1. o = 1 /\ n = Cap
          BY <1>2, <2>4, <4>3
        <5>2. \A j \in 1..n : store'[j].key \in since'[k]
          <6>1. \A j \in 2..n : store[j].key \in since[k]
            BY <3>4, <4>3, <5>1 DEF ReturnOK
          <6> QED BY <1>0, <2>1, <3>1, <5>1, <6>1
        <5>3. Distinct(store') /\ store' \in Seq(Record)
          BY <1>0, PutStored DEF Stored
        <5> DEFINE f == [j \in 1..n |-> store'[j].key]
        <5>4. f \in Injection(1..n, since'[k])
          BY <3>1, <5>2, <5>3 DEF Injection, IsInjective, Distinct
        <5>5. Cardinality(1..n) <= Cardinality(since'[k])
          BY <2>2, <5>4, FS_Injection
        <5>6. Cardinality(1..n) = n
          BY <1>0, <5>1, FS_Interval
        <5> QED BY <1>0, <2>2, <5>1, <5>5, <5>6
      <4> QED BY <3>4, <4>1, <4>2, <4>3 DEF ReturnOK
    <3> QED BY <2>1, <2>2, <3>1, <3>2, <3>3, <3>4 DEF ReturnOK
  <2> QED BY <1>0, <2>3, <2>4, PutShape
<1> QED BY <1>1, <1>2

StoreInv == Stored /\ \A k \in Steps : ReturnOK(k)

\* The store is empty at first.
LEMMA InitStore == Init => StoreInv
BY FS_EmptySet, StepAssumption DEF Init, StoreInv, Stored, ReturnOK, Distinct, StepAssumption

\* Only put changes the store, and StoreInv survives it.
LEMMA StoreStep == Inv /\ StoreInv /\ [Next]_vars => StoreInv'
<1> SUFFICES ASSUME Inv, StoreInv, [Next]_vars PROVE StoreInv'
  OBVIOUS
<1>1. ASSUME NEW key \in Keys, NEW valid \in BOOLEAN, RecordStepOutput(key, valid)
      PROVE  StoreInv'
  BY <1>1, PutStored, ReturnStep DEF StoreInv, Inv, RecordStepOutput
<1>2. CASE UNCHANGED outputs
  BY <1>2 DEF outputs, StoreInv, Stored, ReturnOK
<1>3. ASSUME NEW t \in Terminals, Return(t) PROVE StoreInv'
  <2>1. owner[t] \in Keys
    BY <1>3, StepAssumption DEF Return, Keys, StepAssumption
  <2> QED BY <1>1, <1>3, <2>1 DEF Return
<1>4. ASSUME NEW key \in Others, OtherReturn(key) PROVE StoreInv'
  BY <1>1, <1>4 DEF OtherReturn, Keys
<1> QED
  BY <1>2, <1>3, <1>4
     DEF Next, Agents, Boot, BeginTurn, EndTurn, Dies, Detect, Vanish, Drive, StepOnly, CancelRun,
         CreateTerminal, CreateRaises, WaitReady, SendInput, SendRaises, Poll, Expire, Interrupt,
         Extract, ExtractRaises, Teardown, vars

\* Every way an engine step ends, by its outcome.
LEMMA VerdictStep == ASSUME Inv, StoreInv, [Next]_vars, NEW k \in Schema PROVE Verdict(k)
<1> SUFFICES ASSUME step[k].pc # "over", step'[k].pc = "over"
             PROVE  /\ step'[k].outcome = "completed" => last[k] = "valid"
                    /\ step'[k].outcome = "unvalidated" =>
                          last[k] # "valid" \/ Cardinality(since[k]) >= Cap
  BY DEF Verdict, At
<1>1. k \in Steps /\ k \in Engine /\ k \notin Reused
  BY StepAssumption DEF StepAssumption
<1>2. PICK j \in Steps : Drive(j)
  <2>1. step' # step
    OBVIOUS
  <2> QED BY <2>1 DEF Next, Agents, AgentsOnly, Boot, BeginTurn, EndTurn, Return, OtherReturn,
                      Dies, Detect, Vanish, CancelRun, vars
<1>3. j = k
  BY <1>1, <1>2, DriveLocal DEF Inv
<1>4. Drive(k)
  BY <1>2, <1>3
<1> USE AttemptEnds DEF Inv
<1>5. step[k] \in StepType
  BY <1>1 DEF TypeOK
<1>6. \/ step'[k] = Failed(k) \/ step'[k] = Over(k, "stray")
      \/ step'[k] = Collected(k) \/ step'[k] = Over(k, "skipped")
  <2>1. CASE Raises(k) \/ Strays(k) \/ Teardown(k)
    BY <1>1, <2>1 DEF Raises, Strays, Teardown
  <2>2. CASE ~(Raises(k) \/ Strays(k) \/ Teardown(k))
    <3>1. step'[k].pc \in Holding
      <4>1. CASE CreateTerminal(k)
        <5>1. PICK t \in Created : step'[k] = [step[k] EXCEPT !.pc = "ready", !.term = t]
          BY <1>1, <4>1 DEF CreateTerminal
        <5> QED BY <1>5, <5>1 DEF StepType, Holding
      <4>2. CASE ~CreateTerminal(k)
        <5>1. \/ step'[k] = [step[k] EXCEPT !.pc = "send"]
              \/ step'[k] = [step[k] EXCEPT !.pc = "extract"]
              \/ step'[k] = [step[k] EXCEPT !.pc = "teardown"]
              \/ step'[k] = [step[k] EXCEPT !.pc = "poll", !.worked = FALSE, !.idle = 0]
              \/ step'[k] = AfterCancel(k)
              \/ step'[k] = Remembers(k) /\ step[k].pc = "poll"
          BY <1>1, <1>4, <2>2, <4>2
             DEF Drive, CreateRaises, WaitReady, SendInput, SendRaises, Poll, Expire, Interrupt,
                 Extract, ExtractRaises, created_here, At
        <5>2. /\ [step[k] EXCEPT !.pc = "send"].pc = "send"
              /\ [step[k] EXCEPT !.pc = "extract"].pc = "extract"
              /\ [step[k] EXCEPT !.pc = "teardown"].pc = "teardown"
              /\ [step[k] EXCEPT !.pc = "poll", !.worked = FALSE, !.idle = 0].pc = "poll"
          BY <1>5 DEF StepType
        <5>3. AfterCancel(k).pc = "teardown" /\ Remembers(k).pc = step[k].pc
          BY <1>1
        <5> QED BY <5>1, <5>2, <5>3 DEF Holding
      <4> QED BY <4>1, <4>2
    <3> QED BY <3>1 DEF Holding
  <2> QED BY <2>1, <2>2
<1>7. /\ \A o : Over(k, o).outcome = o
      /\ [Create(k) EXCEPT !.reprompted = TRUE].pc = "create"
      /\ [Create(k) EXCEPT !.att = @ + 1].pc = "create"
  BY <1>5 DEF Over, Create, StepType
<1>8. CASE step'[k] = Collected(k)
  <2>1. ReturnOK(k) /\ last[k] \in {"none", "valid", "invalid"}
    BY <1>1 DEF StoreInv, TypeOK
  <2>2. CASE Validated(k)
    <3>1. last[k] = "valid"
      BY <2>1, <2>2 DEF Validated, ReturnOK
    <3>2. step'[k] = Over(k, "completed")
      BY <1>8, <2>2 DEF Collected
    <3> QED BY <1>7, <3>1, <3>2
  <2>3. CASE ~Validated(k)
    <3>1. last[k] = "valid" => Cardinality(since[k]) >= Cap
      BY <2>1, <2>3 DEF Validated, ReturnOK
    <3>2. step'[k] = Over(k, "unvalidated")
      BY <1>7, <1>8, <2>3 DEF Collected
    <3> QED BY <1>7, <3>1, <3>2
  <2> QED BY <2>2, <2>3
<1>9. CASE step'[k] = Failed(k)
  <2>1. step'[k] = Over(k, "failed") \/ step'[k] = Over(k, "running")
    BY <1>7, <1>9 DEF Failed
  <2> QED BY <1>7, <2>1
<1> QED BY <1>6, <1>7, <1>8, <1>9

\* A step of the engine ends completed only on a valid last return of its workers, and
\* unvalidated only without one or when the others have returned enough to evict it.
THEOREM SpecVerdict == Spec => VerdictFollowsReturns
<1>1. Inv /\ StoreInv /\ [Next]_vars => [\A k \in Schema : Verdict(k)]_vars
  BY VerdictStep
<1> QED
  BY <1>1, InitStore, StoreStep, InitInv, SpecInv, PTL DEF Spec, VerdictFollowsReturns

\* The same of the engine's steps beside calls of the route, that have no schema.
THEOREM EngineVerdict == ModesSpec => VerdictOfEngine
<1> DEFINE EngineInv == mode = "engine" => Inv /\ StoreInv
<1>1. ModesInit => EngineInv
  BY InitInv, InitStore DEF ModesInit
<1>2. EngineInv /\ [ModesNext]_modes
        => EngineInv' /\ [mode = "engine" => \A k \in Schema : Verdict(k)]_modes
  <2> SUFFICES ASSUME EngineInv, [ModesNext]_modes, mode = "engine" \/ mode' = "engine"
               PROVE  EngineInv' /\ (mode = "engine" => \A k \in Schema : Verdict(k))
    OBVIOUS
  <2>1. mode = "engine" /\ mode' = "engine" /\ [Next]_vars
    BY DEF ModesNext, modes
  <2> QED
    BY <2>1, InvStep, StoreStep, VerdictStep
<1> QED
  BY <1>1, <1>2, PTL DEF ModesSpec, VerdictOfEngine

-----------------------------------------------------------------------------
(* initialize() of the providers: no sequence of dialogs, no delay and no timeout   *)
(* makes it type into what it does not mean.                                        *)

\* Only these keep the text of an answered dialog in what is captured.
InlineAsLaunched == /\ Providers \subseteq DOMAIN Start!Startup
                    /\ Inline \subseteq {"claude_code", "codex", "kimi_cli"}

Known == {Start!H.order[i] : i \in 1..Len(Start!H.order)}

\* Before a launch nothing is on the screen but the shell, or a CLI on its way out.
BareShell ==
    pc \in {"shell", "launch", "quit"} =>
        /\ cli \in {"blank", "shell", "exiting"} /\ up = Start!NoDialog /\ text = {}
        /\ pc \in {"launch", "quit"} => cli # "blank"

\* The dialog that is answered is still up.
TargetIsUp ==
    pc = "key" => cli = "dialog" /\ up = target /\ target # Start!NoDialog /\ target \in Known \ Start!H.refused

UpInDialog == up # Start!NoDialog => cli = "dialog"

\* A dialog whose text is captured is up, or its flag keeps it from being answered again.
Flagged ==
    \A d \in text \ {Start!NoDialog} :
        \/ d = up
        \/ provider \in Inline /\ pc \in {"dialogs", "key"} /\ d \in answered \cap Start!H.once
        \/ provider \in Inline /\ pc \in {"wait", "settle", "ready", "failed"}

StartupInvariant ==
    /\ provider \in DOMAIN Start!Startup
    /\ Start!TypedWhereMeant /\ BareShell /\ TargetIsUp /\ UpInDialog /\ Flagged
    /\ pc = "gate" => provider \notin Inline

\* Where each provider goes when it is ready, and what the inline ones know.
LEMMA Ways ==
    ASSUME provider \in DOMAIN Start!Startup
    PROVE  /\ Start!S.next \in {"settle", "ready", "gate"} /\ Start!NoDialog \notin Known
           /\ provider \in {"claude_code", "codex", "kimi_cli"} =>
                 /\ Start!S.next \in {"settle", "ready"} /\ Start!S.whole = FALSE
                 /\ Known \ Start!H.refused \subseteq Start!H.last \cup Start!H.once
  <1>1. CASE provider = "claude_code"
    <2>1. /\ Start!H.order = <<"bypass", "import", "onboarding", "trust">> /\ Start!S.next = "settle"
          /\ Start!S.whole = FALSE /\ Start!H.refused = {"onboarding"} /\ Start!H.last = {"trust"}
          /\ Start!H.once = {"bypass", "import"}
      BY <1>1 DEF Start!S, Start!H, Start!Startup, Start!ClaudeCode, Start!ClaudeDialogs
    <2>2. Known \subseteq {"bypass", "import", "onboarding", "trust"}
      BY <2>1 DEF Known
    <2> QED BY <2>1, <2>2 DEF Start!NoDialog
  <1>2. CASE provider = "codex"
    <2>1. Start!H.order = <<"trust">> /\ Start!S.next = "ready" /\ Start!S.whole = FALSE /\ Start!H.last = {"trust"}
      BY <1>2 DEF Start!S, Start!H, Start!Startup, Start!Codex, Start!CodexDialogs
    <2>2. Known \subseteq {"trust"}
      BY <2>1 DEF Known
    <2> QED BY <2>1, <2>2 DEF Start!NoDialog
  <1>3. CASE provider = "kimi_cli"
    <2>1. Start!H.order = <<"upgrade">> /\ Start!S.next = "ready" /\ Start!S.whole = FALSE /\ Start!H.once = {"upgrade"}
      BY <1>3 DEF Start!S, Start!H, Start!Startup, Start!KimiCli, Start!KimiDialogs
    <2>2. Known \subseteq {"upgrade"}
      BY <2>1 DEF Known
    <2> QED BY <2>1, <2>2 DEF Start!NoDialog
  <1>4. CASE provider = "antigravity_cli"
    <2>1. Start!H.order = <<"trust", "survey">> /\ Start!S.next = "gate"
      BY <1>4 DEF Start!S, Start!H, Start!Startup, Start!Antigravity, Start!AntigravityDialogs
    <2>2. Known \subseteq {"trust", "survey"}
      BY <2>1 DEF Known
    <2> QED BY <1>4, <2>1, <2>2 DEF Start!NoDialog
  <1>5. CASE provider = "copilot_cli"
    <2>1. Start!H.order = <<"trust", "actions", "confirm", "enter">> /\ Start!S.next = "ready"
      BY <1>5 DEF Start!S, Start!H, Start!Startup, Start!CopilotCli, Start!CopilotDialogs
    <2>2. Known \subseteq {"trust", "actions", "confirm", "enter"}
      BY <2>1 DEF Known
    <2> QED BY <1>5, <2>1, <2>2 DEF Start!NoDialog
  <1>6. CASE provider \in {"kiro_cli", "cursor_cli", "opencode_cli", "hermes"}
    <2>1. Start!H.order = <<>> /\ Start!S.next = "ready"
      <3>1. CASE provider = "kiro_cli" BY <3>1 DEF Start!S, Start!H, Start!Startup, Start!KiroCli, Start!NoDialogs
      <3>2. CASE provider = "cursor_cli" BY <3>2 DEF Start!S, Start!H, Start!Startup, Start!CursorCli, Start!NoDialogs
      <3>3. CASE provider = "opencode_cli" BY <3>3 DEF Start!S, Start!H, Start!Startup, Start!OpenCodeCli, Start!NoDialogs
      <3>4. CASE provider = "hermes" BY <3>4 DEF Start!S, Start!H, Start!Startup, Start!Hermes, Start!NoDialogs
      <3> QED BY <1>6, <3>1, <3>2, <3>3, <3>4
    <2>2. Known = {}
      BY <2>1 DEF Known
    <2> QED BY <1>6, <2>1, <2>2
  <1> QED BY <1>1, <1>2, <1>3, <1>4, <1>5, <1>6 DEF Start!Startup

\* What a handler finds is a dialog it knows, whose text is captured and not flagged.
LEMMA FoundIsCaptured ==
    ASSUME NEW d \in Start!Found
    PROVE  d \in Known /\ d \in text /\ d \notin answered \cap Start!H.once
  <1>1. PICK i \in Start!Matches : d = Start!H.order[i]
    BY DEF Start!Found
  <1> QED BY <1>1 DEF Start!Matches, Known

LEMMA InitHolds == InlineAsLaunched /\ Start!Init => StartupInvariant
  BY DEF InlineAsLaunched, Start!Init, StartupInvariant, BareShell, TargetIsUp, UpInDialog, Flagged,
             Start!TypedWhereMeant,
         Start!NoDialog

\* Nothing the pane does takes a dialog away that is being answered.
LEMMA PaneKeeps == ASSUME StartupInvariant, Start!Pane PROVE StartupInvariant'
  <1> USE DEF StartupInvariant, BareShell, TargetIsUp, UpInDialog, Flagged,
             Start!TypedWhereMeant, Known, Start!H, Start!S
  <1>1. CASE Start!ShellComes BY <1>1 DEF Start!ShellComes, Start!Acts
  <1>2. CASE Start!Shows BY <1>2 DEF Start!Shows, Start!Acts
  <1>8. CASE Start!Leaves BY <1>8 DEF Start!Leaves, Start!Acts
  <1>3. CASE Start!Boots BY <1>3 DEF Start!Boots, Start!Acts
  <1>4. CASE Start!Prompts BY <1>4 DEF Start!Prompts, Start!Acts
  <1>5. CASE Start!Evicts BY <1>5 DEF Start!Evicts
  <1>6. CASE Start!GateComes BY <1>6 DEF Start!GateComes, Start!Acts
  <1>7. CASE Start!Slows BY <1>7 DEF Start!Slows, Start!init, Start!pane
  <1> QED BY <1>1, <1>2, <1>3, <1>4, <1>5, <1>6, <1>7, <1>8 DEF Start!Pane

LEMMA InitializeKeeps ==
    ASSUME InlineAsLaunched, StartupInvariant, Start!Initialize
    PROVE  StartupInvariant'
  <1> USE DEF StartupInvariant, BareShell, TargetIsUp, UpInDialog, Flagged,
             Start!TypedWhereMeant
  <1>s. /\ provider \in DOMAIN Start!Startup /\ Start!S.next \in {"settle", "ready", "gate"}
        /\ Start!NoDialog \notin Known
        /\ provider \in Inline =>
              Start!S.next \in {"settle", "ready"} /\ Start!S.whole = FALSE
              /\ Known \ Start!H.refused \subseteq Start!H.last \cup Start!H.once
              /\ provider \in {"claude_code", "codex", "kimi_cli"}
    BY Ways DEF InlineAsLaunched
  <1>p. provider' = provider /\ Start!S' = Start!S /\ Start!H' = Start!H /\ Known' = Known
    <2>1. provider' = provider
      BY DEF Start!Initialize, Start!Same, Start!ShellReady, Start!ShellSleeps, Start!ShellTimesOut, Start!Launch, Start!HandlerEnds,
             Start!HandlerSees, Start!HandlerRaises, Start!HandlerSleeps, Start!Key, Start!WaitReady, Start!WaitAnswers, Start!WaitSleeps,
             Start!WaitTimesOut, Start!SettleSees, Start!SettleSleeps, Start!SettleTimesOut, Start!GateSeen, Start!GateClean, Start!Quit,
             Start!FallBack
    <2> QED BY <2>1 DEF Start!S, Start!H, Known
  <1>1. CASE Start!ShellReady BY <1>1, <1>p DEF Start!ShellReady, Start!ShellSeen, Start!Same, Start!Goes, Start!pane
  <1>2. CASE Start!ShellSleeps BY <1>2, <1>p DEF Start!ShellSleeps, Start!Same, Start!pane
  <1>3. CASE Start!ShellTimesOut BY <1>3, <1>p DEF Start!ShellTimesOut, Start!Same, Start!Fails, Start!pane
  <1>4. CASE Start!Launch BY <1>4, <1>p DEF Start!Launch, Start!Same, Start!Goes
  <1>5. CASE Start!HandlerEnds BY <1>5, <1>p DEF Start!HandlerEnds, Start!Same, Start!Goes, Start!pane
  <1>6. CASE Start!HandlerSees
    <2>1. PICK d \in Start!Found \ Start!H.refused : target' = d
      BY <1>6 DEF Start!HandlerSees
    <2>2. d \in Known /\ d \in text /\ d \notin answered \cap Start!H.once
      BY <2>1, FoundIsCaptured
    <2>3. d = up /\ d # Start!NoDialog
      BY <1>6, <1>s, <2>2 DEF Start!HandlerSees
    <2> QED BY <1>6, <1>p, <2>1, <2>2, <2>3 DEF Start!HandlerSees, Start!Same, Start!pane
  <1>7. CASE Start!HandlerRaises BY <1>7, <1>p DEF Start!HandlerRaises, Start!Same, Start!Fails, Start!pane
  <1>8. CASE Start!HandlerSleeps BY <1>8, <1>p DEF Start!HandlerSleeps, Start!Same, Start!pane
  <1>9. CASE Start!Key
    <2>1. up = target /\ target \in Known \ Start!H.refused
      BY <1>9 DEF Start!Key
    <2>2. provider \in Inline => target \in Start!H.last \cup Start!H.once
      BY <2>1, <1>s
    <2> QED BY <1>9, <1>p, <2>1, <2>2 DEF Start!Key, Start!Answer, Start!Same, Start!Goes, Start!NoDialog
  <1>10. CASE Start!WaitReady BY <1>10, <1>p, <1>s DEF Start!WaitReady, Start!Same, Start!Goes, Start!pane
  <1>11. CASE Start!WaitAnswers BY <1>11, <1>p, <1>s DEF Start!WaitAnswers, Start!Same, Start!Goes, Start!pane
  <1>12. CASE Start!WaitSleeps BY <1>12, <1>p DEF Start!WaitSleeps, Start!Same, Start!pane
  <1>13. CASE Start!WaitTimesOut BY <1>13, <1>p DEF Start!WaitTimesOut, Start!Same, Start!Fails, Start!pane
  <1>14. CASE Start!SettleSees BY <1>14, <1>p DEF Start!SettleSees, Start!Settled, Start!Same, Start!Goes, Start!pane
  <1>15. CASE Start!SettleSleeps BY <1>15, <1>p DEF Start!SettleSleeps, Start!Same, Start!pane
  <1>16. CASE Start!SettleTimesOut BY <1>16, <1>p DEF Start!SettleTimesOut, Start!Same, Start!Goes, Start!pane
  <1>17. CASE Start!GateSeen BY <1>17, <1>p DEF Start!GateSeen, Start!Exits, Start!Same, Start!Goes, Start!Fails, Start!pane
  <1>18. CASE Start!GateClean BY <1>18, <1>p DEF Start!GateClean, Start!Same, Start!Goes, Start!pane
  <1>19. CASE Start!Quit BY <1>19, <1>p DEF Start!Quit, Start!Same, Start!Goes, Start!pane
  <1>20. CASE Start!FallBack BY <1>20, <1>p, <1>s DEF Start!FallBack, Start!Exits, Start!Same, Start!Goes
  <1> QED BY <1>1, <1>2, <1>3, <1>4, <1>5, <1>6, <1>7, <1>8, <1>9, <1>10, <1>11, <1>12, <1>13,
             <1>14, <1>15, <1>16, <1>17, <1>18, <1>19, <1>20 DEF Start!Initialize

LEMMA StepKeeps ==
    ASSUME InlineAsLaunched, StartupInvariant, [Start!Next]_Start!vars
    PROVE  StartupInvariant'
  <1>1. CASE Start!Pane BY <1>1, PaneKeeps
  <1>2. CASE Start!Initialize BY <1>2, InitializeKeeps
  <1>3. CASE UNCHANGED Start!vars
    BY <1>3 DEF Start!vars, Start!init, Start!pane, StartupInvariant, BareShell, TargetIsUp, UpInDialog, Flagged,
             Start!TypedWhereMeant,
                Known, Start!H, Start!S
  <1> QED BY <1>1, <1>2, <1>3 DEF Start!Next

\* A command is typed into the shell and an answer into the dialog it is for: no sequence of
\* dialogs, no delay and no timeout makes an initialize() answer a dialog whose text is only
\* what is left of it.
THEOREM SpecTypedWhereMeant == InlineAsLaunched /\ Start!Spec => []TypedWhereMeant
  <1> SUFFICES ASSUME InlineAsLaunched PROVE Start!Spec => []TypedWhereMeant
    OBVIOUS
  <1>1. Start!Init => StartupInvariant
    BY InitHolds
  <1>2. StartupInvariant /\ [Start!Next]_Start!vars => StartupInvariant'
    BY StepKeeps
  <1>3. StartupInvariant => TypedWhereMeant
    BY DEF StartupInvariant, TypedWhereMeant, Start!TypedWhereMeant
  <1> QED BY <1>1, <1>2, <1>3, PTL DEF Start!Spec

-----------------------------------------------------------------------------
(* initialize() is true: a CLI that keeps time comes up within the polls that each  *)
(* wait allows. OnTime counts, for every place of initialize() and every state of   *)
(* the CLI, the polls that are left.                                                *)

\* From the launch until the CLI is ready: its dialogs, if any are Coming. Codex is Pinned by the
\* text of an answered one.
Playing == pc \in {"dialogs", "key", "wait"}
Coming == cli = "loading" /\ ahead # <<>>
Pinned == cli = "prompt" /\ provider = "codex" /\ text # {}

\* Where the command and the keys find the CLI.
WhereItIs ==
    /\ cli = "blank" => pc = "shell" /\ answered = {}
    /\ pc = "shell" => cli \in {"blank", "shell"}
    /\ pc = "launch" => cli = "shell"
    /\ pc = "quit" => cli \in {"shell", "exiting"}
    /\ Playing => cli \in {"loading", "dialog", "booting", "prompt"}
    /\ pc = "settle" => cli \in {"booting", "prompt"}
    /\ pc \in {"gate", "ready"} => cli = "prompt"
    /\ cli \in {"booting", "prompt"} => ahead = <<>>
    /\ gated => provider = "antigravity_cli" /\ pc \notin {"settle", "ready"}

\* What the CLI may still show is a script, or what is left of one.
StillToCome ==
    /\ Played(provider, ahead)
    /\ pc \in {"shell", "launch", "quit"} => ahead \in Scripts[provider]
    /\ Playing => \A i \in 1..Len(ahead) : ahead[i] \notin answered \cap Start!H.once
    /\ Playing /\ cli = "dialog" =>
          /\ up # Start!NoDialog /\ up \in text /\ up \in Names(provider)
          /\ up \notin answered \cap Start!H.once
          /\ up \in Start!H.last => ahead = <<>>
          /\ up \in Start!H.once => \A i \in 1..Len(ahead) : ahead[i] # up

\* The CLI keeps time: its silence is one it may leave.
Patient == Start!Owes => silence <= Start!Bound

\* wait_for_shell, wait_until_input_ready and _quit_cli.
ShellInTime ==
    /\ pc = "shell" /\ cli = "blank" => polls <= silence
    /\ pc = "shell" /\ cli = "shell" => polls <= First + 1 /\ (~still => polls <= First)
    /\ pc = "quit" /\ cli = "exiting" => polls <= silence
    /\ pc = "settle" /\ cli = "booting" => polls <= silence /\ ~still

\* A handler with a bound of its own is not over before the last dialog: the polls it has had,
\* those of the silence it is in and those that the dialogs to come may cost stay below the bound.
HandlerInTime ==
    ~Start!S.whole =>
        /\ pc \in {"dialogs", "key"} =>
              /\ Coming => polls + (Start!Bound - silence) + Cost(Len(ahead) - 1) < Start!H.cap
              /\ cli = "dialog" => polls + Cost(Len(ahead)) < Start!H.cap
              /\ cli = "loading" /\ answered # {} => quiet <= silence + 1
              /\ cli = "dialog" /\ answered # {} => quiet <= Pause + 1
              /\ waited = 0
        /\ pc = "wait" => ahead = <<>> /\ cli # "dialog"
        /\ Playing =>
              /\ cli = "loading" => waited <= silence
              /\ cli = "booting" => waited <= First + silence
              /\ cli = "prompt" => waited <= 3 * First
              /\ Pinned => waited <= 2 * First + silence

\* Copilot's bound covers the handler, to which a dialog goes back that was too late for it.
Late == pc = "wait" \/ (pc = "dialogs" /\ polls >= Start!H.cap)
WholeInTime ==
    Start!S.whole /\ Playing =>
        /\ answered = {} =>
              /\ Coming \/ cli = "dialog" => pc \in {"dialogs", "key"}
              /\ Coming => polls <= silence /\ First + Cost(Len(ahead)) + Pause <= Start!S.ready
              /\ cli = "dialog" => polls <= First /\ waited <= First
                                   /\ First + Cost(Len(ahead) + 1) + Pause <= Start!S.ready
              /\ cli = "loading" => waited <= silence
              /\ cli = "booting" => waited <= First + silence
              /\ cli = "prompt" => waited <= 2 * First
        /\ answered # {} =>
              /\ cli = "loading" => waited + (Pause - silence) + Cost(Len(ahead)) + Pause < Start!S.ready
              /\ cli = "dialog" => waited + Cost(Len(ahead) + 1) + Pause <= Start!S.ready
              /\ cli = "dialog" /\ Late => waited + Cost(Len(ahead) + 1) + Pause < Start!S.ready
              /\ cli = "booting" => waited + (Pause - silence) < Start!S.ready
              /\ cli = "prompt" => waited < Start!S.ready

\* What holds of initialize() as long as the CLI keeps time.
OnTime ==
    /\ why # "timeout" /\ strays = {}
    /\ WhereItIs /\ StillToCome /\ Patient /\ ShellInTime /\ HandlerInTime /\ WholeInTime

\* Types, of a slow CLI as well.
StartTyped ==
    /\ provider \in Providers /\ still \in BOOLEAN /\ slow \in BOOLEAN
    /\ polls \in Nat /\ waited \in Nat /\ quiet \in Nat /\ silence \in Nat

\* The inductive invariant behind StartIsTrue.
StartInvariant == StartupInvariant /\ StartTyped /\ (slow \/ OnTime)

\* The bounds of the provider.
Bounds ==
    /\ Start!S.ready \in Nat /\ Start!H.cap \in Nat /\ Start!S.whole \in BOOLEAN
    /\ 3 * First < Start!S.ready /\ (Start!S.whole => First < Start!H.cap)
    /\ Len(Start!H.order) \in 0..4

\* What each provider does when it is ready, and what its handler ends with.
Manners ==
    /\ Start!S.next = "settle" <=> provider = "claude_code"
    /\ Start!S.next = "gate" <=> provider = "antigravity_cli"
    /\ Start!S.next \in {"settle", "gate", "ready"}
    /\ Start!S.whole => provider = "copilot_cli" /\ Start!H.exit = "prompt" /\ Start!H.last = {} /\ ~Start!H.gap
    /\ Start!H.exit \in {"at once", "chrome", "prompt"} /\ Start!H.gap \in BOOLEAN
    /\ Start!H.exit = "at once" => Known = {}
    /\ Known = Names(provider)

\* What StartsInTime says of the constants themselves.
LEMMA StartNat ==
    /\ Gap \in Nat /\ InitCap \in Nat /\ Long \in Nat /\ Window \in Nat /\ SettleCap \in Nat /\ Watch \in Nat
    /\ QuitSleep \in Nat /\ First \in Nat /\ Pause \in Nat
    /\ Pause <= First /\ First + 1 < InitCap /\ First + 1 < Window
    /\ Pause < QuitSleep /\ Pause + 1 < Gap /\ First < SettleCap
  BY StartsInTime

\* Each dialog costs the same.
LEMMA CostGrows ==
    /\ Cost(0) = 0
    /\ \A n \in Nat : Cost(n) \in Nat /\ Cost(n + 1) = Cost(n) + Pause + 2
    /\ \A n \in Nat \ {0} : Cost(n - 1) \in Nat /\ Cost(n) = Cost(n - 1) + Pause + 2
  BY StartNat DEF Cost

\* So it is for each provider.
LEMMA BoundsAndManners ==
    ASSUME provider \in DOMAIN Start!Startup, provider \in Providers
    PROVE  Bounds /\ Manners
  <1>n. Known = Names(provider)
    BY DEF Known, Names, HandlerOf, Start!H, Start!S
  <1>r. 3 * First < Start!S.ready /\ (Start!S.whole => First < Start!H.cap)
    BY StartsInTime DEF Start!S, Start!H, HandlerOf
  <1>1. CASE provider = "claude_code"
    <2>1. Start!S.next = "settle" /\ Start!S.whole = FALSE /\ Start!S.ready = InitCap
      BY <1>1 DEF Start!S, Start!Startup, Start!ClaudeCode
    <2>2. Start!H = Start!ClaudeDialogs
      BY <1>1 DEF Start!S, Start!H, Start!Startup, Start!ClaudeCode
    <2>3. /\ Start!H.order = <<"bypass", "import", "onboarding", "trust">>
          /\ Start!H.cap \in {1, InitCap, Long, Window}
      BY <2>2 DEF Start!ClaudeDialogs
    <2>4. Start!H.exit = "chrome" /\ Start!H.gap = TRUE
      BY <2>2 DEF Start!ClaudeDialogs
    <2>5. Bounds
      <3>1. Start!S.whole \in BOOLEAN
        BY <2>1
      <3>2. Start!S.ready \in Nat
        BY <2>1, StartNat
      <3>3. Start!H.cap \in Nat
        BY <2>3, StartNat
      <3>4. Len(Start!H.order) \in 0..4
        BY <2>3
      <3> QED BY <1>r, <3>1, <3>2, <3>3, <3>4 DEF Bounds
    <2> QED BY <1>n, <1>1, <2>1, <2>4, <2>5 DEF Manners
  <1>2. CASE provider = "codex"
    <2>1. Start!S.next = "ready" /\ Start!S.whole = FALSE /\ Start!S.ready = InitCap
      BY <1>2 DEF Start!S, Start!Startup, Start!Codex
    <2>2. Start!H = Start!CodexDialogs
      BY <1>2 DEF Start!S, Start!H, Start!Startup, Start!Codex
    <2>3. Start!H.order = <<"trust">> /\ Start!H.cap \in {1, InitCap, Long, Window}
      BY <2>2 DEF Start!CodexDialogs
    <2>4. Start!H.exit = "chrome" /\ Start!H.gap = FALSE
      BY <2>2 DEF Start!CodexDialogs
    <2>5. Bounds
      <3>1. Start!S.whole \in BOOLEAN
        BY <2>1
      <3>2. Start!S.ready \in Nat
        BY <2>1, StartNat
      <3>3. Start!H.cap \in Nat
        BY <2>3, StartNat
      <3>4. Len(Start!H.order) \in 0..4
        BY <2>3
      <3> QED BY <1>r, <3>1, <3>2, <3>3, <3>4 DEF Bounds
    <2> QED BY <1>n, <1>2, <2>1, <2>4, <2>5 DEF Manners
  <1>3. CASE provider = "kimi_cli"
    <2>1. Start!S.next = "ready" /\ Start!S.whole = FALSE /\ Start!S.ready = Long
      BY <1>3 DEF Start!S, Start!Startup, Start!KimiCli
    <2>2. Start!H = Start!KimiDialogs
      BY <1>3 DEF Start!S, Start!H, Start!Startup, Start!KimiCli
    <2>3. Start!H.order = <<"upgrade">> /\ Start!H.cap \in {1, InitCap, Long, Window}
      BY <2>2 DEF Start!KimiDialogs
    <2>4. Start!H.exit = "prompt" /\ Start!H.gap = TRUE
      BY <2>2 DEF Start!KimiDialogs
    <2>5. Bounds
      <3>1. Start!S.whole \in BOOLEAN
        BY <2>1
      <3>2. Start!S.ready \in Nat
        BY <2>1, StartNat
      <3>3. Start!H.cap \in Nat
        BY <2>3, StartNat
      <3>4. Len(Start!H.order) \in 0..4
        BY <2>3
      <3> QED BY <1>r, <3>1, <3>2, <3>3, <3>4 DEF Bounds
    <2> QED BY <1>n, <1>3, <2>1, <2>4, <2>5 DEF Manners
  <1>4. CASE provider = "antigravity_cli"
    <2>1. Start!S.next = "gate" /\ Start!S.whole = FALSE /\ Start!S.ready = Long
      BY <1>4 DEF Start!S, Start!Startup, Start!Antigravity
    <2>2. Start!H = Start!AntigravityDialogs
      BY <1>4 DEF Start!S, Start!H, Start!Startup, Start!Antigravity
    <2>3. Start!H.order = <<"trust", "survey">> /\ Start!H.cap \in {1, InitCap, Long, Window}
      BY <2>2 DEF Start!AntigravityDialogs
    <2>4. Start!H.exit = "chrome" /\ Start!H.gap = TRUE
      BY <2>2 DEF Start!AntigravityDialogs
    <2>5. Bounds
      <3>1. Start!S.whole \in BOOLEAN
        BY <2>1
      <3>2. Start!S.ready \in Nat
        BY <2>1, StartNat
      <3>3. Start!H.cap \in Nat
        BY <2>3, StartNat
      <3>4. Len(Start!H.order) \in 0..4
        BY <2>3
      <3> QED BY <1>r, <3>1, <3>2, <3>3, <3>4 DEF Bounds
    <2> QED BY <1>n, <1>4, <2>1, <2>4, <2>5 DEF Manners
  <1>5. CASE provider = "copilot_cli"
    <2>1. Start!S.next = "ready" /\ Start!S.whole = TRUE /\ Start!S.ready = InitCap
      BY <1>5 DEF Start!S, Start!Startup, Start!CopilotCli
    <2>2. Start!H = Start!CopilotDialogs
      BY <1>5 DEF Start!S, Start!H, Start!Startup, Start!CopilotCli
    <2>3. Start!H.order = <<"trust", "actions", "confirm", "enter">> /\ Start!H.cap \in {1, InitCap, Long, Window}
      BY <2>2 DEF Start!CopilotDialogs
    <2>4. Start!H.exit = "prompt" /\ Start!H.gap = FALSE /\ Start!H.last = {}
      BY <2>2 DEF Start!CopilotDialogs
    <2>5. Bounds
      <3>1. Start!S.whole \in BOOLEAN
        BY <2>1
      <3>2. Start!S.ready \in Nat
        BY <2>1, StartNat
      <3>3. Start!H.cap \in Nat
        BY <2>3, StartNat
      <3>4. Len(Start!H.order) \in 0..4
        BY <2>3
      <3> QED BY <1>r, <3>1, <3>2, <3>3, <3>4 DEF Bounds
    <2> QED BY <1>n, <1>5, <2>1, <2>4, <2>5 DEF Manners
  <1>6. CASE provider \in {"kiro_cli", "cursor_cli", "opencode_cli", "hermes"}
    <2>1. /\ Start!S.next = "ready" /\ Start!S.whole = FALSE /\ Start!S.ready \in {InitCap, Long}
          /\ Start!H = Start!NoDialogs
      <3>1. CASE provider = "kiro_cli" BY <3>1 DEF Start!S, Start!H, Start!Startup, Start!KiroCli
      <3>2. CASE provider = "cursor_cli" BY <3>2 DEF Start!S, Start!H, Start!Startup, Start!CursorCli
      <3>3. CASE provider = "opencode_cli" BY <3>3 DEF Start!S, Start!H, Start!Startup, Start!OpenCodeCli
      <3>4. CASE provider = "hermes" BY <3>4 DEF Start!S, Start!H, Start!Startup, Start!Hermes
      <3> QED BY <1>6, <3>1, <3>2, <3>3, <3>4
    <2>2. Start!H.order = <<>> /\ Start!H.cap = 1
      BY <2>1 DEF Start!NoDialogs
    <2>3. Known = {}
      <3>1. Start!H.order = <<>>
        BY <2>2
      <3> QED BY <3>1 DEF Known
    <2>4. Start!H.exit = "at once" /\ Start!H.gap = FALSE
      BY <2>1 DEF Start!NoDialogs
    <2>5. Bounds
      <3>1. Start!S.whole \in BOOLEAN
        BY <2>1
      <3>2. Start!S.ready \in Nat
        BY <2>1, StartNat
      <3>3. Start!H.cap \in Nat
        BY <2>2, StartNat
      <3>4. Len(Start!H.order) \in 0..4
        BY <2>2
      <3> QED BY <1>r, <3>1, <3>2, <3>3, <3>4 DEF Bounds
    <2> QED BY <1>6, <1>n, <2>1, <2>3, <2>4, <2>5 DEF Manners
  <1> QED BY <1>1, <1>2, <1>3, <1>4, <1>5, <1>6 DEF Start!Startup

\* A script leaves room in the handler, or in the wait that covers it.
LEMMA ScriptFits ==
    ASSUME provider \in Providers, NEW s \in Scripts[provider]
    PROVE  /\ Played(provider, s)
           /\ s # <<>> /\ Start!S.whole => First + Cost(Len(s)) + Pause <= Start!S.ready
           /\ s # <<>> /\ ~Start!S.whole => First + Cost(Len(s) - 1) < Start!H.cap
  BY StartsInTime DEF HandlerOf, Start!S, Start!H

\* The rest of a script is one.
LEMMA RestIsPlayed ==
    ASSUME Played(provider, ahead), ahead # <<>>
    PROVE  /\ Played(provider, Tail(ahead)) /\ Head(ahead) \in Names(provider)
           /\ Len(ahead) \in Nat \ {0} /\ Len(Tail(ahead)) = Len(ahead) - 1
           /\ \A i \in 1..Len(Tail(ahead)) :
                  Tail(ahead)[i] = ahead[i + 1] /\ i + 1 \in 1..Len(ahead) /\ i + 1 # 1
           /\ Head(ahead) = ahead[1] /\ 1 \in 1..Len(ahead)
           /\ Head(ahead) \in Start!H.last => Tail(ahead) = <<>>
           /\ Head(ahead) \in Start!H.once => \A i \in 1..Len(Tail(ahead)) : Tail(ahead)[i] # Head(ahead)
  <1>1. ahead \in Seq(Names(provider))
    BY DEF Played
  <1>2. /\ Head(ahead) \in Names(provider) /\ Tail(ahead) \in Seq(Names(provider))
        /\ Len(Tail(ahead)) = Len(ahead) - 1
        /\ \A i \in 1..Len(Tail(ahead)) : Tail(ahead)[i] = ahead[i + 1]
    BY <1>1, HeadTailProperties
  <1>3. Len(ahead) \in Nat \ {0} /\ Head(ahead) = ahead[1]
    BY <1>1
  <1>4. HandlerOf(provider) = Start!H
    BY DEF HandlerOf, Start!H, Start!S
  <1>5. Played(provider, Tail(ahead))
    <2>1. \A i \in 1..Len(Tail(ahead)) : i + 1 \in 1..Len(ahead)
      BY <1>2, <1>3
    <2>2. \A i \in 1..Len(Tail(ahead)) : Tail(ahead)[i] \in HandlerOf(provider).last => i = Len(Tail(ahead))
      <3>1. \A i \in 1..Len(ahead) : ahead[i] \in HandlerOf(provider).last => i = Len(ahead)
        BY DEF Played
      <3> SUFFICES ASSUME NEW i \in 1..Len(Tail(ahead)), ahead[i + 1] \in HandlerOf(provider).last
                   PROVE  i = Len(Tail(ahead))
        BY <1>2
      <3>2. i + 1 = Len(ahead)
        BY <2>1, <3>1
      <3>3. i \in Int /\ Len(Tail(ahead)) = Len(ahead) - 1 /\ Len(ahead) \in Int
        BY <1>2, <1>3
      <3> QED BY <3>2, <3>3
    <2>3. \A i, j \in 1..Len(Tail(ahead)) :
              Tail(ahead)[i] = Tail(ahead)[j] /\ Tail(ahead)[i] \in HandlerOf(provider).once => i = j
      <3>1. \A i, j \in 1..Len(ahead) : ahead[i] = ahead[j] /\ ahead[i] \in HandlerOf(provider).once => i = j
        BY DEF Played
      <3> SUFFICES ASSUME NEW i \in 1..Len(Tail(ahead)), NEW j \in 1..Len(Tail(ahead)),
                          ahead[i + 1] = ahead[j + 1], ahead[i + 1] \in HandlerOf(provider).once
                   PROVE  i = j
        BY <1>2
      <3>2. i + 1 = j + 1
        BY <2>1, <3>1
      <3> QED BY <3>2
    <2> QED BY <1>2, <2>2, <2>3 DEF Played
  <1>6. Head(ahead) \in Start!H.last => Tail(ahead) = <<>>
    <2>1. Head(ahead) \in Start!H.last => Len(ahead) = 1
      <3>1. \A i \in 1..Len(ahead) : ahead[i] \in HandlerOf(provider).last => i = Len(ahead)
        BY DEF Played
      <3>2. 1 \in 1..Len(ahead)
        BY <1>3
      <3>3. ahead[1] \in HandlerOf(provider).last => 1 = Len(ahead)
        BY <3>1, <3>2
      <3> QED BY <1>3, <1>4, <3>3
    <2>2. Len(Tail(ahead)) = 0 => Tail(ahead) = <<>>
      BY <1>2
    <2> QED BY <1>2, <2>1, <2>2
  <1>7. Head(ahead) \in Start!H.once => \A i \in 1..Len(Tail(ahead)) : Tail(ahead)[i] # Head(ahead)
    <2>1. \A i, j \in 1..Len(ahead) : ahead[i] = ahead[j] /\ ahead[i] \in HandlerOf(provider).once => i = j
      BY DEF Played
    <2> QED BY <1>2, <1>3, <1>4, <2>1
  <1> QED BY <1>2, <1>3, <1>5, <1>6, <1>7

\* A dialog that is up and was not answered is found.
LEMMA UpIsFound ==
    ASSUME Bounds, up \in Known, up \in text, up \notin answered \cap Start!H.once
    PROVE  Start!Found # {}
  <1>1. PICK i \in 1..Len(Start!H.order) : up = Start!H.order[i]
    BY DEF Known
  <1>2. i \in Start!Matches
    BY <1>1 DEF Start!Matches
  <1>3. Start!Matches \subseteq 1..4
    BY DEF Start!Matches, Bounds
  <1>4. \E k \in Start!Matches : \A j \in Start!Matches : k <= j
    <2>1. CASE 1 \in Start!Matches BY <2>1, <1>3
    <2>2. CASE 1 \notin Start!Matches /\ 2 \in Start!Matches BY <2>2, <1>3
    <2>3. CASE 1 \notin Start!Matches /\ 2 \notin Start!Matches /\ 3 \in Start!Matches BY <2>3, <1>3
    <2>4. CASE Start!Matches \cap {1, 2, 3} = {} BY <2>4, <1>2, <1>3
    <2> QED BY <2>1, <2>2, <2>3, <2>4
  <1> QED BY <1>4 DEF Start!Found

\* The silence the CLI is allowed, now and after a step.
LEMMA BoundIs ==
    /\ Start!Bound \in Nat /\ Start!Bound <= First /\ Pause <= Start!Bound
    /\ answered = {} /\ cli # "exiting" => Start!Bound = First
    /\ answered # {} \/ cli = "exiting" => Start!Bound = Pause
  BY StartNat DEF Start!Bound

LEMMA BoundWillBe ==
    /\ Start!Bound' \in Nat /\ Start!Bound' <= First /\ Pause <= Start!Bound'
    /\ answered' = {} /\ cli' # "exiting" => Start!Bound' = First
    /\ answered' # {} \/ cli' = "exiting" => Start!Bound' = Pause
  BY StartNat DEF Start!Bound

\* What the CLI does on its own leaves initialize() the polls it needs.
LEMMA PaneOnTime ==
    ASSUME StartupInvariant, StartTyped, OnTime, ~slow, Start!Pane
    PROVE  slow' \/ OnTime'
  <1>b. Bounds /\ Manners
    BY BoundsAndManners DEF StartupInvariant, StartTyped
  <1>p. provider' = provider /\ Start!S' = Start!S /\ Start!H' = Start!H
    <2>1. provider' = provider
      BY DEF Start!Pane, Start!ShellComes, Start!Leaves, Start!Shows, Start!Boots, Start!Prompts, Start!Evicts,
             Start!GateComes, Start!Slows, Start!Acts
    <2> QED BY <2>1 DEF Start!S, Start!H
  <1>i. WhereItIs /\ StillToCome /\ Patient /\ ShellInTime /\ HandlerInTime /\ WholeInTime
    BY DEF OnTime
  <1>k. /\ First \in Nat /\ Pause \in Nat /\ Pause <= First /\ Start!S.ready \in Nat
        /\ polls \in Nat /\ waited \in Nat /\ quiet \in Nat /\ silence \in Nat
    BY <1>b, StartNat DEF StartTyped, Bounds
  <1>c. /\ Len(ahead) \in Nat /\ Cost(Len(ahead)) \in Nat /\ Cost(Len(ahead) + 1) = Cost(Len(ahead)) + Pause + 2
        /\ ahead = <<>> => Cost(Len(ahead)) = 0
        /\ ahead # <<>> => /\ Len(ahead) - 1 \in Nat /\ Cost(Len(ahead) - 1) \in Nat
                           /\ Cost(Len(ahead)) = Cost(Len(ahead) - 1) + Pause + 2
    <2>1. ahead \in Seq(Names(provider))
      BY <1>i DEF StillToCome, Played
    <2>2. Len(ahead) \in Nat /\ (ahead = <<>> => Len(ahead) = 0) /\ (ahead # <<>> => Len(ahead) \in Nat \ {0})
      BY <2>1
    <2>3. Cost(Len(ahead)) \in Nat /\ Cost(Len(ahead) + 1) = Cost(Len(ahead)) + Pause + 2
      BY <2>2, CostGrows
    <2>4. ahead = <<>> => Cost(Len(ahead)) = 0
      BY <2>2, CostGrows
    <2>5. ASSUME ahead # <<>>
          PROVE  /\ Len(ahead) - 1 \in Nat /\ Cost(Len(ahead) - 1) \in Nat
                 /\ Cost(Len(ahead)) = Cost(Len(ahead) - 1) + Pause + 2
      BY <2>2, <2>5, CostGrows
    <2> QED BY <2>2, <2>3, <2>4, <2>5
  <1>w. why' = why /\ strays' = strays
    BY DEF Start!Pane, Start!ShellComes, Start!Leaves, Start!Shows, Start!Boots, Start!Prompts, Start!Evicts,
           Start!GateComes, Start!Slows, Start!Acts, Start!init
  <1>a. Start!Acts => /\ silence' = 0 /\ still' = FALSE /\ pc' = pc /\ polls' = polls /\ waited' = waited
                      /\ quiet' = quiet /\ answered' = answered
    BY DEF Start!Acts
  <1>1. CASE Start!ShellComes
    <2>1. WhereItIs'
      BY <1>1, <1>b, <1>i, <1>p DEF WhereItIs, Playing, Manners, Start!Acts, Start!ShellComes
    <2>2. StillToCome'
      BY <1>1, <1>i, <1>p DEF StillToCome, Playing, BareShell, UpInDialog, StartupInvariant, Start!Acts,
                              WhereItIs, Start!ShellComes
    <2>3. Patient'
      BY <1>1, <1>a, <1>k, BoundWillBe DEF Patient, Start!ShellComes
    <2>4. ShellInTime'
      BY <1>1, <1>a, <1>i, <1>k, BoundIs DEF ShellInTime, WhereItIs, Patient, Start!Owes, Playing,
                                             Start!ShellComes
    <2>5. HandlerInTime'
      BY <1>1, <1>a, <1>i, <1>k, <1>p, BoundIs, BoundWillBe DEF HandlerInTime, Playing, Coming, Pinned,
               WhereItIs, Patient, Start!Owes, Start!ShellComes
    <2>6. WholeInTime'
      BY <1>1, <1>a, <1>c, <1>i, <1>k, <1>p, BoundIs DEF WholeInTime, Playing, Coming, Late, WhereItIs,
                                                         Patient, Start!Owes, Start!ShellComes
    <2> QED BY <1>w, <2>1, <2>2, <2>3, <2>4, <2>5, <2>6 DEF OnTime
  <1>2. CASE Start!Leaves
    <2>1. WhereItIs'
      BY <1>2, <1>b, <1>i, <1>p DEF WhereItIs, Playing, Manners, Start!Acts, Start!Leaves
    <2>2. StillToCome'
      BY <1>2, <1>i, <1>p DEF StillToCome, Playing, BareShell, UpInDialog, StartupInvariant, Start!Acts,
                              WhereItIs, Start!Leaves
    <2>3. Patient'
      BY <1>2, <1>a, <1>k, BoundWillBe DEF Patient, Start!Leaves
    <2>4. ShellInTime'
      BY <1>2, <1>a, <1>i, <1>k, BoundIs DEF ShellInTime, WhereItIs, Patient, Start!Owes, Playing, Start!Leaves
    <2>5. HandlerInTime'
      BY <1>2, <1>a, <1>i, <1>k, <1>p, BoundIs, BoundWillBe DEF HandlerInTime, Playing, Coming, Pinned,
               WhereItIs, Patient, Start!Owes, Start!Leaves
    <2>6. WholeInTime'
      BY <1>2, <1>a, <1>c, <1>i, <1>k, <1>p, BoundIs DEF WholeInTime, Playing, Coming, Late, WhereItIs,
                                                         Patient, Start!Owes, Start!Leaves
    <2> QED BY <1>w, <2>1, <2>2, <2>3, <2>4, <2>5, <2>6 DEF OnTime
  <1>3. CASE Start!Boots
    <2>1. WhereItIs'
      BY <1>3, <1>b, <1>i, <1>p DEF WhereItIs, Playing, Manners, Start!Acts, Start!Boots
    <2>2. StillToCome'
      BY <1>3, <1>i, <1>p DEF StillToCome, Playing, BareShell, UpInDialog, StartupInvariant, Start!Acts,
                              WhereItIs, Start!Boots
    <2>3. Patient'
      BY <1>3, <1>a, <1>k, BoundWillBe DEF Patient, Start!Boots
    <2>4. ShellInTime'
      BY <1>3, <1>a, <1>i, <1>k, BoundIs DEF ShellInTime, WhereItIs, Patient, Start!Owes, Playing, Start!Boots
    <2>5. HandlerInTime'
      BY <1>3, <1>a, <1>i, <1>k, <1>p, BoundIs, BoundWillBe DEF HandlerInTime, Playing, Coming, Pinned,
               WhereItIs, Patient, Start!Owes, Start!Boots
    <2>6. WholeInTime'
      BY <1>3, <1>a, <1>c, <1>i, <1>k, <1>p, BoundIs DEF WholeInTime, Playing, Coming, Late, WhereItIs,
                                                         Patient, Start!Owes, Start!Boots
    <2> QED BY <1>w, <2>1, <2>2, <2>3, <2>4, <2>5, <2>6 DEF OnTime
  <1>4. CASE Start!Prompts
    <2>1. WhereItIs'
      BY <1>4, <1>b, <1>i, <1>p DEF WhereItIs, Playing, Manners, Start!Acts, Start!Prompts
    <2>2. StillToCome'
      BY <1>4, <1>i, <1>p DEF StillToCome, Playing, BareShell, UpInDialog, StartupInvariant, Start!Acts,
                              WhereItIs, Start!Prompts
    <2>3. Patient'
      BY <1>4, <1>a, <1>k, BoundWillBe DEF Patient, Start!Prompts
    <2>4. ShellInTime'
      BY <1>4, <1>a, <1>i, <1>k, BoundIs DEF ShellInTime, WhereItIs, Patient, Start!Owes, Playing, Start!Prompts
    <2>5. HandlerInTime'
      BY <1>4, <1>a, <1>i, <1>k, <1>p, BoundIs, BoundWillBe DEF HandlerInTime, Playing, Coming, Pinned,
               WhereItIs, Patient, Start!Owes, Start!Prompts
    <2>6. WholeInTime'
      BY <1>4, <1>a, <1>c, <1>i, <1>k, <1>p, BoundIs DEF WholeInTime, Playing, Coming, Late, WhereItIs,
                                                         Patient, Start!Owes, Start!Prompts
    <2> QED BY <1>w, <2>1, <2>2, <2>3, <2>4, <2>5, <2>6 DEF OnTime
  <1>5. CASE Start!GateComes
    <2>1. WhereItIs'
      BY <1>5, <1>b, <1>i, <1>p DEF WhereItIs, Playing, Manners, Start!Acts, Start!GateComes
    <2>2. StillToCome'
      BY <1>5, <1>i, <1>p DEF StillToCome, Playing, BareShell, UpInDialog, StartupInvariant, Start!Acts,
                              WhereItIs, Start!GateComes
    <2>3. Patient'
      BY <1>5, <1>a, <1>k, BoundWillBe DEF Patient, Start!GateComes
    <2>4. ShellInTime'
      BY <1>5, <1>a, <1>i, <1>k, BoundIs DEF ShellInTime, WhereItIs, Patient, Start!Owes, Playing,
                                             Start!GateComes
    <2>5. HandlerInTime'
      BY <1>5, <1>a, <1>i, <1>k, <1>p, BoundIs, BoundWillBe DEF HandlerInTime, Playing, Coming, Pinned,
               WhereItIs, Patient, Start!Owes, Start!GateComes
    <2>6. WholeInTime'
      BY <1>5, <1>a, <1>c, <1>i, <1>k, <1>p, BoundIs DEF WholeInTime, Playing, Coming, Late, WhereItIs,
                                                         Patient, Start!Owes, Start!GateComes
    <2> QED BY <1>w, <2>1, <2>2, <2>3, <2>4, <2>5, <2>6 DEF OnTime
  <1>6. CASE Start!Evicts
    <2>1. WhereItIs'
      BY <1>6, <1>b, <1>i, <1>p DEF WhereItIs, Playing, Manners, Start!Acts, Start!Evicts
    <2>2. StillToCome'
      BY <1>6, <1>i, <1>p DEF StillToCome, Playing, BareShell, UpInDialog, StartupInvariant, Start!Acts,
                              WhereItIs, Start!Evicts
    <2>3. Patient'
      BY <1>6, <1>i, <1>k DEF Patient, Start!Owes, Start!Bound, Start!Evicts
    <2>4. ShellInTime'
      BY <1>6, <1>i DEF ShellInTime, BareShell, StartupInvariant, Start!Evicts
    <2>5. HandlerInTime'
      BY <1>6, <1>i, <1>k, <1>p, BoundIs, BoundWillBe DEF HandlerInTime, Playing, Coming, Pinned, WhereItIs,
                                                          Patient, Start!Owes, Start!Evicts
    <2>6. WholeInTime'
      BY <1>6, <1>c, <1>i, <1>k, <1>p, BoundIs DEF WholeInTime, Playing, Coming, Late, WhereItIs, Patient,
                                                   Start!Owes, Start!Evicts
    <2> QED BY <1>w, <2>1, <2>2, <2>3, <2>4, <2>5, <2>6 DEF OnTime
  <1>7. CASE Start!Shows
    <2> DEFINE d == Head(ahead)
               rest == Tail(ahead)
    <2>s. silence <= Start!Bound /\ (answered # {} => silence <= Pause)
      BY <1>7, <1>i, BoundIs DEF Patient, Start!Owes, Start!Shows
    <2>a. /\ ahead # <<>> /\ cli = "loading" /\ cli' = "dialog" /\ up' = d /\ ahead' = rest
          /\ text' = text \cup {d}
          /\ silence' = 0 /\ still' = FALSE /\ pc' = pc /\ polls' = polls /\ waited' = waited
          /\ quiet' = quiet /\ answered' = answered /\ gated' = gated
      BY <1>7 DEF Start!Shows, Start!Acts
    <2>b. Played(provider, ahead) /\ ahead # <<>>
      BY <1>i, <2>a DEF StillToCome
    <2>r. /\ Played(provider, rest) /\ d \in Names(provider)
          /\ Len(ahead) \in Nat \ {0} /\ Len(rest) = Len(ahead) - 1
          /\ \A i \in 1..Len(rest) : rest[i] = ahead[i + 1] /\ i + 1 \in 1..Len(ahead) /\ i + 1 # 1
          /\ d = ahead[1] /\ 1 \in 1..Len(ahead)
          /\ d \in Start!H.last => rest = <<>>
          /\ d \in Start!H.once => \A i \in 1..Len(rest) : rest[i] # d
      BY <2>b, RestIsPlayed
    <2>n. d # Start!NoDialog
      BY <1>b, <2>r, Ways DEF StartupInvariant, Manners
    <2>c. Cost(Len(rest)) = Cost(Len(ahead) - 1) /\ Cost(Len(rest) + 1) = Cost(Len(ahead))
      <3>1. Len(rest) = Len(ahead) - 1 /\ Len(rest) + 1 = Len(ahead)
        BY <2>r
      <3> QED BY <3>1
    <2> HIDE DEF d, rest
    <2>1. WhereItIs'
      BY <1>i, <1>p, <2>a DEF WhereItIs, Playing
    <2>2. StillToCome'
      <3>1. Playing' => Playing
        BY <2>a DEF Playing
      <3>2. Playing =>
                /\ d \notin answered \cap Start!H.once
                /\ \A i \in 1..Len(rest) : rest[i] \notin answered \cap Start!H.once
        BY <1>i, <2>r DEF StillToCome
      <3>3. ~(pc \in {"shell", "launch", "quit"})
        BY <2>a DEF BareShell, StartupInvariant
      <3> QED BY <1>p, <2>a, <2>r, <2>n, <3>1, <3>2, <3>3 DEF StillToCome, Playing
    <2>3. Patient'
      BY <2>a, <1>k, BoundWillBe DEF Patient
    <2>4. ShellInTime'
      BY <2>a DEF ShellInTime
    <2>5. HandlerInTime'
      <3>1. ~Start!S.whole /\ pc \in {"dialogs", "key"} =>
                polls + Cost(Len(rest)) < Start!H.cap /\ waited = 0 /\ (answered # {} => quiet <= Pause + 1)
        <4>1. Cost(Len(ahead) - 1) \in Nat /\ Start!Bound \in Nat /\ Start!H.cap \in Nat
          BY <1>b, <1>c, <2>a, BoundIs DEF Bounds
        <4> QED BY <1>i, <1>k, <2>a, <2>c, <2>s, <4>1 DEF HandlerInTime, Coming, Playing
      <3>2. ~Start!S.whole => pc # "wait"
        BY <1>i, <2>a DEF HandlerInTime
      <3>3. cli' = "dialog" /\ ~Coming' /\ ~Pinned'
        BY <2>a DEF Coming, Pinned
      <3>4. polls' + Cost(Len(ahead')) = polls + Cost(Len(rest))
        BY <2>a
      <3> QED BY <1>p, <2>a, <3>1, <3>2, <3>3, <3>4 DEF HandlerInTime, Playing
    <2>6. WholeInTime'
      <3>1. ASSUME Start!S.whole, Playing, answered = {}
            PROVE  /\ pc \in {"dialogs", "key"} /\ polls <= First /\ waited <= First
                   /\ First + Cost(Len(rest) + 1) + Pause <= Start!S.ready
        BY <1>i, <1>k, <2>a, <2>c, <3>1, BoundIs DEF WholeInTime, Coming, Patient, Start!Owes
      <3>2. ASSUME Start!S.whole, Playing, answered # {}
            PROVE  waited + Cost(Len(rest) + 1) + Pause < Start!S.ready
        <4>1. waited + (Pause - silence) + Cost(Len(ahead)) + Pause < Start!S.ready
          BY <1>i, <2>a, <3>2 DEF WholeInTime
        <4>2. Cost(Len(ahead)) \in Nat
          BY <1>c
        <4> QED BY <1>k, <2>c, <2>s, <3>2, <4>1, <4>2
      <3>3. cli' = "dialog" /\ ~Coming'
        BY <2>a DEF Coming
      <3>4. waited' + Cost(Len(ahead') + 1) = waited + Cost(Len(rest) + 1)
        BY <2>a
      <3>5. First + Cost(Len(ahead') + 1) = First + Cost(Len(rest) + 1)
        BY <2>a
      <3>6. Cost(Len(rest) + 1) \in Nat
        BY <1>c, <2>c
      <3> QED BY <1>k, <1>p, <2>a, <3>1, <3>2, <3>3, <3>4, <3>5, <3>6 DEF WholeInTime, Playing, Late
    <2> QED BY <1>w, <2>1, <2>2, <2>3, <2>4, <2>5, <2>6 DEF OnTime
  <1>8. CASE Start!Slows BY <1>8 DEF Start!Slows
  <1> QED BY <1>1, <1>2, <1>3, <1>4, <1>5, <1>6, <1>7, <1>8 DEF Start!Pane

\* A poll of a CLI that keeps time.
LEMMA PollInTime ==
    ASSUME Start!Poll, ~slow, Patient, StartTyped, UNCHANGED <<provider, answered, cli, text>>
    PROVE  /\ silence' \in Nat /\ silence <= silence'
           /\ Start!Owes => silence' = silence + 1 /\ silence' <= Start!Bound
           /\ Patient'
  <1>1. /\ First \in Nat /\ Pause \in Nat /\ silence \in Nat
        /\ Start!Bound \in Nat /\ Start!Bound <= First
    BY StartNat, BoundIs DEF StartTyped
  <1>2. Start!Owes' = Start!Owes /\ Start!Bound' = Start!Bound
    BY DEF Start!Owes, Start!Bound
  <1>3. Start!Owes => silence < Start!Bound
    BY DEF Start!Poll
  <1>4. silence' = IF silence < First + Pause THEN silence + 1 ELSE silence
    BY DEF Start!Poll
  <1>5. silence' \in Nat /\ silence <= silence'
    BY <1>1, <1>4
  <1>6. Start!Owes => silence' = silence + 1 /\ silence' <= Start!Bound
    BY <1>1, <1>3, <1>4
  <1> QED BY <1>2, <1>5, <1>6 DEF Patient

\* The wait for a ready status is not over before the CLI is ready.
LEMMA WaitIsLong ==
    ASSUME StartupInvariant, StartTyped, OnTime, pc = "wait"
    PROVE  waited < Start!S.ready
  <1>1. /\ Start!S.ready \in Nat /\ 3 * First < Start!S.ready /\ Start!S.whole \in BOOLEAN
        /\ First \in Nat /\ Pause \in Nat /\ Pause <= First /\ waited \in Nat /\ silence \in Nat
    BY BoundsAndManners, StartNat DEF StartupInvariant, StartTyped, Bounds
  <1>2. /\ cli \in {"loading", "dialog", "booting", "prompt"}
        /\ cli \in {"loading", "booting"} => silence <= First
    BY <1>1, BoundIs DEF OnTime, WhereItIs, Playing, Patient, Start!Owes
  <1>3. CASE ~Start!S.whole
    BY <1>1, <1>2, <1>3 DEF OnTime, HandlerInTime, Playing
  <1>4. CASE Start!S.whole /\ answered = {}
    BY <1>1, <1>2, <1>4 DEF OnTime, WholeInTime, Playing
  <1>5. CASE Start!S.whole /\ answered # {}
    <2>1. ahead \in Seq(Names(provider))
      BY DEF OnTime, StillToCome, Played
    <2>2. Len(ahead) \in Nat /\ Len(ahead) + 1 \in Nat
      BY <2>1
    <2>3. Cost(Len(ahead)) \in Nat /\ Cost(Len(ahead) + 1) \in Nat
      BY <2>2, CostGrows
    <2>4. cli \in {"loading", "booting"} => silence <= Pause
      BY <1>5, BoundIs DEF OnTime, Patient, Start!Owes
    <2> QED BY <1>1, <1>2, <1>5, <2>3, <2>4 DEF OnTime, WholeInTime, Playing, Late
  <1> QED BY <1>1, <1>3, <1>4, <1>5

\* A handler that has a bound of its own is not over as long as a dialog is up or to come.
LEMMA HandlerStays ==
    ASSUME StartupInvariant, StartTyped, OnTime, pc = "dialogs", ~Start!S.whole, cli = "dialog" \/ Coming
    PROVE  ~Start!Over
  <1>1. /\ Start!H.cap \in Nat /\ Gap \in Nat /\ Pause + 1 < Gap /\ Pause \in Nat /\ polls \in Nat
        /\ quiet \in Nat
        /\ silence \in Nat
    BY BoundsAndManners, StartNat DEF StartupInvariant, StartTyped, Bounds
  <1>2. ahead \in Seq(Names(provider))
    BY DEF OnTime, StillToCome, Played
  <1>3. Len(ahead) \in Nat /\ (Coming => Len(ahead) \in Nat \ {0})
    BY <1>2 DEF Coming
  <1>4. Cost(Len(ahead)) \in Nat /\ (Coming => Cost(Len(ahead) - 1) \in Nat)
    BY <1>3, CostGrows
  <1>5. Coming => silence <= Start!Bound /\ Start!Bound \in Nat /\ (answered # {} => silence <= Pause)
    BY BoundIs DEF OnTime, Coming, Patient, Start!Owes
  <1>6. polls < Start!H.cap
    BY <1>1, <1>4, <1>5 DEF OnTime, HandlerInTime
  <1>7. answered # {} => quiet < Gap
    BY <1>1, <1>5 DEF OnTime, HandlerInTime, Coming
  <1> QED BY <1>1, <1>6, <1>7 DEF Start!Over

\* A dialog that is up is found, whatever chrome is below it.
LEMMA NoneBelow ==
    ASSUME StartupInvariant, StartTyped, OnTime, pc = "dialogs", cli = "dialog"
    PROVE  Start!Found # {}
  BY BoundsAndManners, UpIsFound DEF StartupInvariant, StartTyped, OnTime, StillToCome, Playing, Manners

\* No chrome and no prompt is drawn while dialogs are to come.
LEMMA NoneToCome ==
    ASSUME StartupInvariant, StartTyped, OnTime, pc = "dialogs", Coming
    PROVE  ~Start!HandlerDone
  <1>1. up = Start!NoDialog /\ cli = "loading" /\ ahead # <<>>
    BY DEF StartupInvariant, UpInDialog, Coming
  <1>2. Start!H.exit # "at once"
    <2>1. ahead \in Seq(Names(provider))
      BY DEF OnTime, StillToCome, Played
    <2>2. ahead[1] \in Names(provider)
      BY <1>1, <2>1
    <2> QED BY <2>2, BoundsAndManners DEF Manners, StartupInvariant, StartTyped
  <1> QED BY <1>1, <1>2 DEF Start!HandlerDone, Start!Chrome, Start!NoDialog

\* No step of initialize() gives up a CLI that keeps time, nor types past it.
LEMMA InitializeOnTime ==
    ASSUME InlineAsLaunched, StartupInvariant, StartTyped, OnTime, ~slow, Start!Initialize
    PROVE  OnTime'
  <1>b. Bounds /\ Manners
    BY BoundsAndManners DEF StartupInvariant, StartTyped
  <1>p. provider' = provider /\ Start!S' = Start!S /\ Start!H' = Start!H
    <2>1. provider' = provider
      BY DEF Start!Initialize, Start!Same, Start!ShellReady, Start!ShellSleeps, Start!ShellTimesOut,
             Start!Launch, Start!HandlerEnds,
             Start!HandlerSees, Start!HandlerRaises, Start!HandlerSleeps, Start!Key, Start!WaitReady,
             Start!WaitAnswers, Start!WaitSleeps,
             Start!WaitTimesOut, Start!SettleSees, Start!SettleSleeps, Start!SettleTimesOut, Start!GateSeen,
             Start!GateClean, Start!Quit,
             Start!FallBack
    <2> QED BY <2>1 DEF Start!S, Start!H
  <1>i. /\ WhereItIs /\ StillToCome /\ Patient /\ ShellInTime /\ HandlerInTime /\ WholeInTime
        /\ why # "timeout" /\ strays = {}
    BY DEF OnTime
  <1>k. /\ First \in Nat /\ Pause \in Nat /\ Pause <= First /\ Start!S.ready \in Nat /\ Start!H.cap \in Nat
        /\ polls \in Nat /\ waited \in Nat /\ quiet \in Nat /\ silence \in Nat
    BY <1>b, StartNat DEF StartTyped, Bounds
  <1>l. Len(ahead) \in Nat /\ (ahead # <<>> => Len(ahead) \in Nat \ {0})
    <2>1. ahead \in Seq(Names(provider))
      BY <1>i DEF StillToCome, Played
    <2> QED BY <2>1
  <1>c. /\ Cost(Len(ahead)) \in Nat /\ Cost(Len(ahead) + 1) = Cost(Len(ahead)) + Pause + 2
        /\ ahead # <<>> => /\ Cost(Len(ahead) - 1) \in Nat
                           /\ Cost(Len(ahead)) = Cost(Len(ahead) - 1) + Pause + 2
    BY <1>l, CostGrows
  <1>1. CASE Start!ShellReady
    <2>a. /\ pc = "shell" /\ pc' = "launch" /\ cli # "blank" /\ polls' = 0 /\ waited' = waited
          /\ quiet' = quiet /\ answered' = answered /\ still' = still /\ silence' = silence
          /\ cli' = cli /\ up' = up /\ ahead' = ahead /\ text' = text /\ gated' = gated /\ why' = why
          /\ strays' = strays
      BY <1>1 DEF Start!ShellReady, Start!ShellSeen, Start!Same, Start!Goes, Start!Fails, Start!pane
    <2>1. WhereItIs'
      BY <2>a, <1>i, <1>p DEF WhereItIs, Playing
    <2>2. StillToCome'
      BY <2>a, <1>i, <1>p DEF StillToCome, Playing
    <2>3. Patient'
      BY <2>a, <1>i, <1>p DEF Patient, Start!Owes, Start!Bound
    <2>4. ShellInTime'
      BY <2>a, <1>i, <1>k DEF ShellInTime, WhereItIs
    <2>5. HandlerInTime'
      BY <2>a, <1>i, <1>k, <1>p DEF HandlerInTime, Playing, Coming, Pinned, Start!Bound
    <2>6. WholeInTime'
      BY <2>a, <1>i, <1>k, <1>p DEF WholeInTime, Playing, Coming, Late
    <2> QED BY <1>i, <2>a, <2>1, <2>2, <2>3, <2>4, <2>5, <2>6 DEF OnTime
  <1>2. CASE Start!ShellSleeps
    <2>a. /\ pc = "shell" /\ pc' = pc /\ polls' = polls + 1 /\ waited' = waited /\ quiet' = quiet
          /\ answered' = answered /\ still' = TRUE
          /\ (cli = "blank" \/ ~still) /\ cli' = cli /\ up' = up /\ ahead' = ahead /\ text' = text
          /\ gated' = gated /\ why' = why /\ strays' = strays
      BY <1>2 DEF Start!ShellSleeps, Start!ShellSeen, Start!Same, Start!Goes, Start!Fails, Start!pane
    <2>t. /\ silence' \in Nat /\ silence <= silence' /\ Patient'
          /\ Start!Owes => silence' = silence + 1 /\ silence' <= Start!Bound
      BY <1>2, <1>i, <1>p, <2>a, PollInTime DEF Start!ShellSleeps
    <2>1. WhereItIs'
      BY <2>a, <1>i, <1>p DEF WhereItIs, Playing
    <2>2. StillToCome'
      BY <2>a, <1>i, <1>p DEF StillToCome, Playing
    <2>3. Patient'
      BY <2>t
    <2>4. ShellInTime'
      BY <2>a, <1>i, <1>k, <2>t DEF ShellInTime, WhereItIs, Start!Owes
    <2>5. HandlerInTime'
      BY <2>a, <1>i, <1>k, <1>p, <1>c, <2>t DEF HandlerInTime, Playing, Coming, Pinned, Start!Owes, Start!Bound
    <2>6. WholeInTime'
      BY <2>a, <1>i, <1>k, <1>p, <1>c, <2>t DEF WholeInTime, Playing, Coming, Late, Start!Owes
    <2> QED BY <1>i, <2>a, <2>1, <2>2, <2>3, <2>4, <2>5, <2>6 DEF OnTime
  <1>3. CASE Start!ShellTimesOut
    <2>1. pc = "shell" /\ polls >= Start!ShellCap
      BY <1>3 DEF Start!ShellTimesOut
    <2>2. Start!ShellCap > First + 1 /\ Start!ShellCap \in Nat
      BY StartNat DEF Start!ShellCap
    <2>3. cli = "blank" => silence <= First
      BY <1>i, <1>k, BoundIs DEF Patient, Start!Owes
    <2>4. polls <= First + 1
      BY <1>i, <1>k, <2>1, <2>3 DEF ShellInTime, WhereItIs
    <2> QED BY <1>k, <2>1, <2>2, <2>4
  <1>4. CASE Start!Launch
    <2>a. /\ pc = "launch" /\ pc' = "dialogs" /\ polls' = 0 /\ waited' = 0 /\ quiet' = 0 /\ answered' = {}
          /\ silence' = 0
          /\ cli = "shell" /\ cli' = "loading" /\ up' = up /\ ahead' = ahead /\ text' = text /\ gated' = gated
          /\ why' = why /\ strays' = strays
      BY <1>4, <1>i DEF Start!Launch, Start!Same, Start!Goes, Start!Fails, Start!pane, WhereItIs
    <2>f. /\ ahead # <<>> /\ Start!S.whole => First + Cost(Len(ahead)) + Pause <= Start!S.ready
          /\ ahead # <<>> /\ ~Start!S.whole => First + Cost(Len(ahead) - 1) < Start!H.cap
      BY <1>i, <2>a, ScriptFits DEF StillToCome, StartTyped
    <2>d. Start!Bound' = First /\ Start!Bound' \in Nat
      BY <2>a, BoundWillBe
    <2>1. WhereItIs'
      BY <2>a, <1>i, <1>p DEF WhereItIs, Playing
    <2>2. StillToCome'
      BY <2>a, <1>i, <1>p DEF StillToCome, Playing
    <2>3. Patient'
      BY <2>a, <1>k, <2>d DEF Patient
    <2>4. ShellInTime'
      BY <2>a, <1>i, <1>k DEF ShellInTime, WhereItIs
    <2>5. HandlerInTime'
      BY <2>a, <1>k, <1>c, <1>p, <2>f, <2>d DEF HandlerInTime, Playing, Coming, Pinned
    <2>6. WholeInTime'
      BY <2>a, <1>k, <1>c, <1>p, <2>f DEF WholeInTime, Playing, Coming, Late
    <2> QED BY <1>i, <2>a, <2>1, <2>2, <2>3, <2>4, <2>5, <2>6 DEF OnTime
  <1>5. CASE Start!HandlerEnds
    <2>a. /\ pc = "dialogs" /\ pc' = "wait" /\ polls' = 0 /\ waited' = waited /\ quiet' = quiet
          /\ answered' = answered /\ still' = still /\ silence' = silence
          /\ cli' = cli /\ up' = up /\ ahead' = ahead /\ text' = text /\ gated' = gated /\ why' = why
          /\ strays' = strays
      BY <1>5 DEF Start!HandlerEnds, Start!Same, Start!Goes, Start!Fails, Start!pane
    <2>o. Start!Over \/ (Start!Found = {} /\ Start!HandlerDone)
      BY <1>5 DEF Start!HandlerEnds
    <2>d. ~Start!S.whole => cli # "dialog" /\ ~Coming
      BY <2>a, <2>o, HandlerStays, NoneBelow, NoneToCome
    <2>n. ~Start!S.whole => ahead = <<>>
      BY <1>i, <2>a, <2>d DEF WhereItIs, Playing, Coming
    <2>w. Start!S.whole /\ (Coming \/ cli = "dialog") => polls >= Start!H.cap /\ (answered = {} => FALSE)
      <3>1. ASSUME Start!S.whole, Coming \/ cli = "dialog"
            PROVE  Start!Over /\ ~Start!H.gap /\ First < Start!H.cap
        BY <1>b, <2>a, <2>o, <3>1, NoneBelow, NoneToCome DEF Manners, Bounds
      <3>2. ASSUME Start!S.whole, Coming \/ cli = "dialog", answered = {}
            PROVE  polls <= First
        BY <1>i, <1>k, <2>a, <3>2, BoundIs DEF WholeInTime, Playing, Coming, Patient, Start!Owes
      <3> QED BY <1>k, <3>1, <3>2 DEF Start!Over
    <2>1. WhereItIs'
      BY <2>a, <1>i, <1>p DEF WhereItIs, Playing
    <2>2. StillToCome'
      BY <2>a, <1>i, <1>p DEF StillToCome, Playing
    <2>3. Patient'
      BY <2>a, <1>i, <1>p DEF Patient, Start!Owes, Start!Bound
    <2>4. ShellInTime'
      BY <2>a, <1>i, <1>k DEF ShellInTime, WhereItIs
    <2>5. HandlerInTime'
      BY <2>a, <1>i, <1>k, <1>p, <2>d, <2>n DEF HandlerInTime, Playing, Coming, Pinned
    <2>6. WholeInTime'
      BY <2>a, <1>i, <1>k, <1>p, <2>w DEF WholeInTime, Playing, Coming, Late
    <2> QED BY <1>i, <2>a, <2>1, <2>2, <2>3, <2>4, <2>5, <2>6 DEF OnTime
  <1>6. CASE Start!HandlerSees
    <2>a. /\ pc = "dialogs" /\ pc' = "key" /\ polls' = polls /\ waited' = waited /\ quiet' = quiet
          /\ answered' = answered /\ still' = still /\ silence' = silence
          /\ cli' = cli /\ up' = up /\ ahead' = ahead /\ text' = text /\ gated' = gated /\ why' = why
          /\ strays' = strays /\ ~Start!Over
      BY <1>6 DEF Start!HandlerSees, Start!Same, Start!Goes, Start!Fails, Start!pane
    <2>1. WhereItIs'
      BY <2>a, <1>i, <1>p DEF WhereItIs, Playing
    <2>2. StillToCome'
      BY <2>a, <1>i, <1>p DEF StillToCome, Playing
    <2>3. Patient'
      BY <2>a, <1>i, <1>p DEF Patient, Start!Owes, Start!Bound
    <2>4. ShellInTime'
      BY <2>a, <1>i, <1>k DEF ShellInTime, WhereItIs
    <2>5. HandlerInTime'
      BY <2>a, <1>i, <1>k, <1>p DEF HandlerInTime, Playing, Coming, Pinned, Start!Bound
    <2>6. WholeInTime'
      BY <2>a, <1>i, <1>k, <1>p DEF WholeInTime, Playing, Coming, Late
    <2> QED BY <1>i, <2>a, <2>1, <2>2, <2>3, <2>4, <2>5, <2>6 DEF OnTime
  <1>7. CASE Start!HandlerRaises
    <2>a. /\ pc = "dialogs" /\ pc' = "failed" /\ why' = "refused" /\ strays' = strays /\ answered' = answered
          /\ silence' = silence /\ cli' = cli /\ up' = up /\ ahead' = ahead /\ text' = text /\ gated' = gated
      BY <1>7 DEF Start!HandlerRaises, Start!Same, Start!Goes, Start!Fails, Start!pane
    <2>1. WhereItIs'
      BY <2>a, <1>i, <1>p DEF WhereItIs, Playing
    <2>2. StillToCome'
      BY <2>a, <1>i, <1>p DEF StillToCome, Playing
    <2>3. Patient'
      BY <2>a, <1>i, <1>p DEF Patient, Start!Owes, Start!Bound
    <2>4. ShellInTime'
      BY <2>a, <1>i, <1>k DEF ShellInTime, WhereItIs
    <2>5. HandlerInTime'
      BY <2>a, <1>i, <1>k, <1>p DEF HandlerInTime, Playing, Coming, Pinned, Start!Bound
    <2>6. WholeInTime'
      BY <2>a, <1>i, <1>k, <1>p DEF WholeInTime, Playing, Coming, Late
    <2> QED BY <1>i, <2>a, <2>1, <2>2, <2>3, <2>4, <2>5, <2>6 DEF OnTime
  <1>8. CASE Start!HandlerSleeps
    <2>a. /\ pc = "dialogs" /\ pc' = pc /\ polls' = polls + 1 /\ quiet' = quiet + 1
          /\ waited' = (IF Start!S.whole THEN waited + 1 ELSE waited)
          /\ answered' = answered /\ still' = still /\ cli' = cli /\ up' = up /\ ahead' = ahead /\ text' = text
          /\ gated' = gated /\ why' = why /\ strays' = strays /\ ~Start!HandlerDone /\ Start!Found = {}
      BY <1>8 DEF Start!HandlerSleeps, Start!Same, Start!Goes, Start!Fails, Start!pane
    <2>t. /\ silence' \in Nat /\ silence <= silence' /\ Patient'
          /\ Start!Owes => silence' = silence + 1 /\ silence' <= Start!Bound
      BY <1>8, <1>i, <1>p, <2>a, PollInTime DEF Start!HandlerSleeps
    <2>d. cli # "dialog"
      BY <2>a, NoneBelow
    <2>e. Start!S.whole => cli # "prompt"
      BY <1>b, <2>a DEF Manners, Start!HandlerDone
    <2>f. /\ Start!Bound' = Start!Bound /\ Start!Bound \in Nat /\ Start!Bound <= First
          /\ answered # {} /\ cli # "exiting" => Start!Bound = Pause
      BY <2>a, BoundIs DEF Start!Bound
    <2>s. cli \in {"loading", "booting"} \/ Pinned => silence' = silence + 1 /\ silence' <= Start!Bound
      BY <2>t DEF Start!Owes, Pinned
    <2>1. WhereItIs'
      BY <2>a, <1>i, <1>p DEF WhereItIs, Playing
    <2>2. StillToCome'
      BY <2>a, <1>i, <1>p DEF StillToCome, Playing
    <2>3. Patient'
      BY <2>t
    <2>4. ShellInTime'
      BY <2>a, <1>i, <1>k, <2>t DEF ShellInTime, WhereItIs, Start!Owes
    <2>5. HandlerInTime'
      <3>1. ASSUME ~Start!S.whole
            PROVE  waited = 0 /\ waited' = 0
        BY <1>i, <2>a, <3>1 DEF HandlerInTime
      <3>2. ASSUME ~Start!S.whole, Coming
            PROVE  polls' + (Start!Bound' - silence') + Cost(Len(ahead') - 1) < Start!H.cap
        <4>1. polls + (Start!Bound - silence) + Cost(Len(ahead) - 1) < Start!H.cap
          BY <1>i, <2>a, <3>2 DEF HandlerInTime
        <4>2. Cost(Len(ahead) - 1) \in Nat /\ Cost(Len(ahead') - 1) = Cost(Len(ahead) - 1)
          BY <1>c, <2>a, <3>2 DEF Coming
        <4> QED BY <1>k, <2>a, <2>f, <2>s, <3>2, <4>1, <4>2 DEF Coming
      <3>3. ASSUME ~Start!S.whole, cli = "loading", answered # {}
            PROVE  quiet' <= silence' + 1
        BY <1>i, <1>k, <2>a, <2>s, <3>3 DEF HandlerInTime
      <3>4. cli' = cli /\ answered' = answered /\ Coming' = Coming /\ pc' = "dialogs" /\ silence' \in Nat
        BY <2>a, <2>t DEF Coming
      <3> QED BY <1>k, <1>p, <2>d, <3>1, <3>2, <3>3, <3>4 DEF HandlerInTime
    <2>6. WholeInTime'
      <3>1. CASE answered = {}
        BY <2>a, <3>1, <1>i, <1>k, <1>c, <1>p, <2>d, <2>e, <2>f, <2>s DEF WholeInTime, Playing, Coming, Late
      <3>2. CASE answered # {}
        BY <2>a, <3>2, <1>i, <1>k, <1>c, <1>p, <2>d, <2>e, <2>f, <2>s DEF WholeInTime, Playing, Coming, Late
      <3> QED BY <3>1, <3>2
    <2> QED BY <1>i, <2>a, <2>1, <2>2, <2>3, <2>4, <2>5, <2>6 DEF OnTime
  <1>9. CASE Start!Key
    <2>a. /\ pc = "key" /\ cli = "dialog" /\ cli' = "loading" /\ up' = Start!NoDialog /\ ahead' = ahead
          /\ gated' = gated /\ silence' = 0
          /\ answered' = answered \cup {up} /\ quiet' = 1
          /\ waited' = (IF Start!S.whole THEN waited + 1 ELSE waited)
          /\ IF up \in Start!H.last THEN pc' = "wait" /\ polls' = 0 ELSE pc' = "dialogs" /\ polls' = polls + 1
          /\ text' \subseteq text /\ why' = why /\ strays' = strays
      BY <1>9 DEF Start!Key, Start!Answer, Start!Same, Start!Goes, Start!Fails, Start!pane, StartupInvariant,
                  TargetIsUp
    <2>d. Start!Bound' = Pause /\ Start!Bound' \in Nat /\ answered' # {}
      BY <2>a, BoundWillBe
    <2>u. /\ up \in Start!H.last => ahead = <<>>
          /\ up \in Start!H.once => \A i \in 1..Len(ahead) : ahead[i] # up
      BY <1>i, <2>a DEF StillToCome, Playing
    <2>h. ASSUME ~Start!S.whole
          PROVE  waited = 0 /\ waited' = 0
      BY <1>i, <2>a, <2>h DEF HandlerInTime
    <2>g. ASSUME ~Start!S.whole, ahead # <<>>
          PROVE  polls + 1 + (Pause - 0) + Cost(Len(ahead) - 1) < Start!H.cap
      <3>1. polls + Cost(Len(ahead)) < Start!H.cap
        BY <1>i, <2>a, <2>g DEF HandlerInTime
      <3> QED BY SMTT(30), <1>k, <1>c, <2>g, <3>1
    <2>1. WhereItIs'
      BY <2>a, <1>i, <1>p DEF WhereItIs, Playing
    <2>2. StillToCome'
      BY <2>a, <1>i, <1>p, <2>u DEF StillToCome, Playing
    <2>3. Patient'
      BY <2>a, <1>k, <2>d DEF Patient
    <2>4. ShellInTime'
      BY <2>a, <1>i, <1>k DEF ShellInTime, WhereItIs
    <2>5. HandlerInTime'
      <3>1. /\ cli' = "loading" /\ quiet' = 1 /\ silence' = 0 /\ Start!Bound' = Pause /\ ~Pinned'
            /\ Coming' => ahead # <<>> /\ pc' = "dialogs" /\ polls' = polls + 1
            /\ ahead' = ahead /\ (pc' = "wait" => ahead = <<>>)
        BY <2>a, <2>d, <2>u DEF Coming, Pinned
      <3>2. ASSUME ~Start!S.whole, Coming'
            PROVE  polls' + (Start!Bound' - silence') + Cost(Len(ahead') - 1) < Start!H.cap
        BY <2>g, <3>1, <3>2
      <3> QED BY <1>k, <1>p, <2>h, <3>1, <3>2 DEF HandlerInTime
    <2>6. WholeInTime'
      <3>1. CASE answered = {}
        BY <2>a, <3>1, <1>i, <1>k, <1>c, <1>p, <2>d DEF WholeInTime, Playing, Late
      <3>2. CASE answered # {}
        BY <2>a, <3>2, <1>i, <1>k, <1>c, <1>p, <2>d DEF WholeInTime, Playing, Late
      <3> QED BY <3>1, <3>2
    <2> QED BY <1>i, <2>a, <2>1, <2>2, <2>3, <2>4, <2>5, <2>6 DEF OnTime
  <1>10. CASE Start!WaitReady
    <2>a. /\ pc = "wait" /\ pc' = Start!S.next /\ polls' = 0 /\ still' = FALSE /\ waited' = waited
          /\ quiet' = quiet /\ answered' = answered /\ silence' = silence
          /\ cli' = cli /\ up' = up /\ ahead' = ahead /\ text' = text /\ gated' = gated /\ why' = why
          /\ strays' = strays /\ Start!LooksReady
      BY <1>10 DEF Start!WaitReady, Start!Same, Start!Goes, Start!Fails, Start!pane
    <2>d. cli = "prompt" \/ (cli = "booting" /\ pc' = "settle")
      BY <1>b, <1>i, <2>a DEF Start!LooksReady, Start!BoxDrawn, Start!FooterBelow, Manners, Bounds,
                              HandlerInTime,
                              StartupInvariant, UpInDialog, WhereItIs, Playing, Start!NoDialog
    <2>e. pc' \in {"settle", "gate", "ready"} /\ (pc' \in {"settle", "ready"} => ~gated)
      BY <1>b, <1>i, <2>a DEF Manners, WhereItIs
    <2>1. WhereItIs'
      BY <2>a, <1>i, <1>p, <2>d, <2>e DEF WhereItIs, Playing
    <2>2. StillToCome'
      BY <2>a, <1>i, <1>p, <2>e DEF StillToCome, Playing
    <2>3. Patient'
      BY <2>a, <1>i, <1>p DEF Patient, Start!Owes, Start!Bound
    <2>4. ShellInTime'
      BY <2>a, <1>k, <2>e DEF ShellInTime
    <2>5. HandlerInTime'
      BY <2>a, <2>e DEF HandlerInTime, Playing
    <2>6. WholeInTime'
      BY <2>a, <2>e DEF WholeInTime, Playing
    <2> QED BY <1>i, <2>a, <2>1, <2>2, <2>3, <2>4, <2>5, <2>6 DEF OnTime
  <1>11. CASE Start!WaitAnswers
    <2>a. /\ pc = "wait" /\ pc' = "dialogs" /\ polls' = 0 /\ waited' = waited + 1 /\ quiet' = quiet
          /\ answered' = answered /\ still' = still /\ silence' = silence
          /\ cli' = cli /\ up' = up /\ ahead' = ahead /\ text' = text /\ gated' = gated /\ why' = why
          /\ strays' = strays /\ Start!S.whole /\ cli = "dialog"
      BY <1>11 DEF Start!WaitAnswers, Start!Same, Start!Goes, Start!Fails, Start!pane, StartupInvariant,
                   UpInDialog
    <2>f. First < Start!H.cap
      BY <1>b, <2>a DEF Bounds
    <2>1. WhereItIs'
      BY <2>a, <1>i, <1>p DEF WhereItIs, Playing
    <2>2. StillToCome'
      BY <2>a, <1>i, <1>p DEF StillToCome, Playing
    <2>3. Patient'
      BY <2>a, <1>i, <1>p DEF Patient, Start!Owes, Start!Bound
    <2>4. ShellInTime'
      BY <2>a, <1>i, <1>k DEF ShellInTime, WhereItIs
    <2>5. HandlerInTime'
      BY <2>a, <1>p DEF HandlerInTime
    <2>6. WholeInTime'
      <3>1. CASE answered = {}
        BY <2>a, <3>1, <1>i, <1>k, <1>c, <1>p, <2>f DEF WholeInTime, Playing, Coming, Late
      <3>2. CASE answered # {}
        BY SMTT(30), <2>a, <3>2, <1>i, <1>k, <1>c, <1>p, <2>f DEF WholeInTime, Playing, Coming, Late
      <3> QED BY <3>1, <3>2
    <2> QED BY <1>i, <2>a, <2>1, <2>2, <2>3, <2>4, <2>5, <2>6 DEF OnTime
  <1>12. CASE Start!WaitSleeps
    <2>a. /\ pc = "wait" /\ pc' = pc /\ waited' = waited + 1 /\ polls' = polls /\ quiet' = quiet
          /\ answered' = answered /\ still' = still
          /\ cli' = cli /\ up' = up /\ ahead' = ahead /\ text' = text /\ gated' = gated /\ why' = why
          /\ strays' = strays /\ ~Start!LooksReady
      BY <1>12 DEF Start!WaitSleeps, Start!Same, Start!Goes, Start!Fails, Start!pane
    <2>t. /\ silence' \in Nat /\ silence <= silence' /\ Patient'
          /\ Start!Owes => silence' = silence + 1 /\ silence' <= Start!Bound
      BY <1>12, <1>i, <1>p, <2>a, PollInTime DEF Start!WaitSleeps
    <2>d. cli # "dialog"
      BY <1>12, <1>i, <2>a DEF Start!WaitSleeps, StillToCome, Playing, HandlerInTime
    <2>e. cli = "prompt" => Pinned /\ ~Start!S.whole
      BY <1>b, <2>a DEF Start!LooksReady, Start!TrustPins, Pinned, Manners
    <2>f. /\ Start!Bound' = Start!Bound /\ Start!Bound \in Nat /\ Start!Bound <= First
          /\ answered # {} /\ cli # "exiting" => Start!Bound = Pause
      BY <2>a, BoundIs DEF Start!Bound
    <2>s. cli \in {"loading", "booting"} \/ Pinned => silence' = silence + 1 /\ silence' <= Start!Bound
      BY <2>t DEF Start!Owes, Pinned
    <2>1. WhereItIs'
      BY <2>a, <1>i, <1>p DEF WhereItIs, Playing
    <2>2. StillToCome'
      BY <2>a, <1>i, <1>p DEF StillToCome, Playing
    <2>3. Patient'
      BY <2>t
    <2>4. ShellInTime'
      BY <2>a, <1>i, <1>k, <2>t DEF ShellInTime, WhereItIs, Start!Owes
    <2>5. HandlerInTime'
      BY <2>a, <1>i, <1>k, <1>p, <2>d, <2>e, <2>f, <2>s DEF HandlerInTime, Playing, Coming, Pinned
    <2>6. WholeInTime'
      <3>1. CASE answered = {}
        BY <2>a, <3>1, <1>i, <1>k, <1>c, <1>p, <2>d, <2>e, <2>f, <2>s DEF WholeInTime, Playing, Coming, Late
      <3>2. CASE answered # {}
        BY SMTT(30), <2>a, <3>2, <1>i, <1>k, <1>c, <1>p, <2>d, <2>e, <2>f, <2>s DEF WholeInTime, Playing, Coming, Late
      <3> QED BY <3>1, <3>2
    <2> QED BY <1>i, <2>a, <2>1, <2>2, <2>3, <2>4, <2>5, <2>6 DEF OnTime
  <1>13. CASE Start!WaitTimesOut
    <2>1. pc = "wait" /\ waited >= Start!S.ready
      BY <1>13 DEF Start!WaitTimesOut
    <2> QED BY <1>k, <2>1, WaitIsLong
  <1>14. CASE Start!SettleSees
    <2>a. /\ pc = "settle" /\ pc' = "ready" /\ polls' = 0 /\ still /\ waited' = waited /\ quiet' = quiet
          /\ answered' = answered /\ still' = still /\ silence' = silence
          /\ cli' = cli /\ up' = up /\ ahead' = ahead /\ text' = text /\ gated' = gated /\ why' = why
          /\ strays' = strays
      BY <1>14 DEF Start!SettleSees, Start!Settled, Start!Same, Start!Goes, Start!Fails, Start!pane
    <2>d. cli = "prompt" /\ ~gated
      BY <1>i, <2>a DEF WhereItIs, ShellInTime
    <2>1. WhereItIs'
      BY <2>a, <1>i, <1>p, <2>d DEF WhereItIs, Playing
    <2>2. StillToCome'
      BY <2>a, <1>i, <1>p DEF StillToCome, Playing
    <2>3. Patient'
      BY <2>a, <1>i, <1>p DEF Patient, Start!Owes, Start!Bound
    <2>4. ShellInTime'
      BY <2>a, <1>i, <1>k DEF ShellInTime, WhereItIs
    <2>5. HandlerInTime'
      BY <2>a, <1>i, <1>k, <1>p DEF HandlerInTime, Playing, Coming, Pinned, Start!Bound
    <2>6. WholeInTime'
      BY <2>a, <1>i, <1>k, <1>p DEF WholeInTime, Playing, Coming, Late
    <2> QED BY <1>i, <2>a, <2>1, <2>2, <2>3, <2>4, <2>5, <2>6 DEF OnTime
  <1>15. CASE Start!SettleSleeps
    <2>a. /\ pc = "settle" /\ pc' = pc /\ polls' = polls + 1 /\ (cli = "booting" => ~still')
          /\ waited' = waited /\ quiet' = quiet /\ answered' = answered
          /\ cli' = cli /\ up' = up /\ ahead' = ahead /\ text' = text /\ gated' = gated /\ why' = why
          /\ strays' = strays
      BY <1>15 DEF Start!SettleSleeps, Start!Same, Start!Goes, Start!Fails, Start!pane
    <2>t. /\ silence' \in Nat /\ silence <= silence' /\ Patient'
          /\ Start!Owes => silence' = silence + 1 /\ silence' <= Start!Bound
      BY <1>15, <1>i, <1>p, <2>a, PollInTime DEF Start!SettleSleeps
    <2>1. WhereItIs'
      BY <2>a, <1>i, <1>p DEF WhereItIs, Playing
    <2>2. StillToCome'
      BY <2>a, <1>i, <1>p DEF StillToCome, Playing
    <2>3. Patient'
      BY <2>t
    <2>4. ShellInTime'
      BY <2>a, <1>i, <1>k, <2>t DEF ShellInTime, WhereItIs, Start!Owes
    <2>5. HandlerInTime'
      BY <2>a, <1>i, <1>k, <1>p, <1>c, <2>t DEF HandlerInTime, Playing, Coming, Pinned, Start!Owes, Start!Bound
    <2>6. WholeInTime'
      BY <2>a, <1>i, <1>k, <1>p, <1>c, <2>t DEF WholeInTime, Playing, Coming, Late, Start!Owes
    <2> QED BY <1>i, <2>a, <2>1, <2>2, <2>3, <2>4, <2>5, <2>6 DEF OnTime
  <1>16. CASE Start!SettleTimesOut
    <2>a. /\ pc = "settle" /\ pc' = "ready" /\ polls' = 0 /\ polls >= SettleCap /\ waited' = waited
          /\ quiet' = quiet /\ answered' = answered /\ still' = still /\ silence' = silence
          /\ cli' = cli /\ up' = up /\ ahead' = ahead /\ text' = text /\ gated' = gated /\ why' = why
          /\ strays' = strays
      BY <1>16 DEF Start!SettleTimesOut, Start!Same, Start!Goes, Start!Fails, Start!pane
    <2>d. cli = "prompt"
      <3>1. cli = "booting" => polls <= First
        BY <1>i, <1>k, <2>a, BoundIs DEF ShellInTime, Patient, Start!Owes
      <3> QED BY <1>i, <1>k, <2>a, <3>1, StartNat DEF WhereItIs
    <2>1. WhereItIs'
      BY <2>a, <1>i, <1>p, <2>d DEF WhereItIs, Playing
    <2>2. StillToCome'
      BY <2>a, <1>i, <1>p DEF StillToCome, Playing
    <2>3. Patient'
      BY <2>a, <1>i, <1>p DEF Patient, Start!Owes, Start!Bound
    <2>4. ShellInTime'
      BY <2>a, <1>i, <1>k DEF ShellInTime, WhereItIs
    <2>5. HandlerInTime'
      BY <2>a, <1>i, <1>k, <1>p DEF HandlerInTime, Playing, Coming, Pinned, Start!Bound
    <2>6. WholeInTime'
      BY <2>a, <1>i, <1>k, <1>p DEF WholeInTime, Playing, Coming, Late
    <2> QED BY <1>i, <2>a, <2>1, <2>2, <2>3, <2>4, <2>5, <2>6 DEF OnTime
  <1>17. CASE Start!GateSeen /\ launches = 1
    <2>a. /\ pc = "gate" /\ pc' = "quit" /\ polls' = 0 /\ waited' = waited /\ quiet' = quiet
          /\ answered' = answered /\ why' = why /\ strays' = strays
          /\ cli' = "exiting" /\ up' = Start!NoDialog /\ gated' = FALSE /\ ahead' \in Scripts[provider]
          /\ silence' = 0
      BY <1>17 DEF Start!GateSeen, Start!Exits, Start!Same, Start!Goes, Start!Fails, Start!pane
    <2>b. Played(provider, ahead')
      BY <2>a, ScriptFits DEF StartTyped
    <2>1. WhereItIs'
      BY <2>a DEF WhereItIs, Playing
    <2>2. StillToCome'
      BY <1>p, <2>a, <2>b DEF StillToCome, Playing
    <2>3. Patient'
      BY <2>a, BoundWillBe DEF Patient
    <2>4. ShellInTime'
      BY <2>a DEF ShellInTime
    <2>5. HandlerInTime'
      BY <2>a DEF HandlerInTime, Playing
    <2>6. WholeInTime'
      BY <2>a DEF WholeInTime, Playing
    <2> QED BY <1>i, <2>a, <2>1, <2>2, <2>3, <2>4, <2>5, <2>6 DEF OnTime
  <1>18. CASE Start!GateSeen /\ launches # 1
    <2>a. /\ pc = "gate" /\ pc' = "failed" /\ why' = "gated" /\ strays' = strays /\ answered' = answered
          /\ silence' = silence /\ cli' = cli /\ up' = up /\ ahead' = ahead /\ text' = text /\ gated' = gated
      BY <1>18 DEF Start!GateSeen, Start!Same, Start!Goes, Start!Fails, Start!pane
    <2>1. WhereItIs'
      BY <2>a, <1>i, <1>p DEF WhereItIs, Playing
    <2>2. StillToCome'
      BY <2>a, <1>i, <1>p DEF StillToCome, Playing
    <2>3. Patient'
      BY <2>a, <1>i, <1>p DEF Patient, Start!Owes, Start!Bound
    <2>4. ShellInTime'
      BY <2>a, <1>i, <1>k DEF ShellInTime, WhereItIs
    <2>5. HandlerInTime'
      BY <2>a, <1>i, <1>k, <1>p DEF HandlerInTime, Playing, Coming, Pinned, Start!Bound
    <2>6. WholeInTime'
      BY <2>a, <1>i, <1>k, <1>p DEF WholeInTime, Playing, Coming, Late
    <2> QED BY <1>i, <2>a, <2>1, <2>2, <2>3, <2>4, <2>5, <2>6 DEF OnTime
  <1>19. CASE Start!GateClean /\ polls >= Watch
    <2>a. /\ pc = "gate" /\ pc' = "ready" /\ polls' = 0 /\ ~gated /\ waited' = waited /\ quiet' = quiet
          /\ answered' = answered /\ still' = still /\ silence' = silence
          /\ cli' = cli /\ up' = up /\ ahead' = ahead /\ text' = text /\ gated' = gated /\ why' = why
          /\ strays' = strays
      BY <1>19 DEF Start!GateClean, Start!Same, Start!Goes, Start!Fails, Start!pane
    <2>1. WhereItIs'
      BY <2>a, <1>i, <1>p DEF WhereItIs, Playing
    <2>2. StillToCome'
      BY <2>a, <1>i, <1>p DEF StillToCome, Playing
    <2>3. Patient'
      BY <2>a, <1>i, <1>p DEF Patient, Start!Owes, Start!Bound
    <2>4. ShellInTime'
      BY <2>a, <1>i, <1>k DEF ShellInTime, WhereItIs
    <2>5. HandlerInTime'
      BY <2>a, <1>i, <1>k, <1>p DEF HandlerInTime, Playing, Coming, Pinned, Start!Bound
    <2>6. WholeInTime'
      BY <2>a, <1>i, <1>k, <1>p DEF WholeInTime, Playing, Coming, Late
    <2> QED BY <1>i, <2>a, <2>1, <2>2, <2>3, <2>4, <2>5, <2>6 DEF OnTime
  <1>20. CASE Start!GateClean /\ ~(polls >= Watch)
    <2>a. /\ pc = "gate" /\ pc' = pc /\ waited' = waited /\ quiet' = quiet /\ answered' = answered
          /\ still' = still
          /\ cli' = cli /\ up' = up /\ ahead' = ahead /\ text' = text /\ gated' = gated /\ why' = why
          /\ strays' = strays
      BY <1>20 DEF Start!GateClean, Start!Same, Start!Goes, Start!Fails, Start!pane
    <2>t. /\ silence' \in Nat /\ silence <= silence' /\ Patient'
          /\ Start!Owes => silence' = silence + 1 /\ silence' <= Start!Bound
      BY <1>20, <1>i, <1>p, <2>a, PollInTime DEF Start!GateClean
    <2>1. WhereItIs'
      BY <2>a, <1>i, <1>p DEF WhereItIs, Playing
    <2>2. StillToCome'
      BY <2>a, <1>i, <1>p DEF StillToCome, Playing
    <2>3. Patient'
      BY <2>t
    <2>4. ShellInTime'
      BY <2>a, <1>i, <1>k, <2>t DEF ShellInTime, WhereItIs, Start!Owes
    <2>5. HandlerInTime'
      BY <2>a, <1>i, <1>k, <1>p, <1>c, <2>t DEF HandlerInTime, Playing, Coming, Pinned, Start!Owes, Start!Bound
    <2>6. WholeInTime'
      BY <2>a, <1>i, <1>k, <1>p, <1>c, <2>t DEF WholeInTime, Playing, Coming, Late, Start!Owes
    <2> QED BY <1>i, <2>a, <2>1, <2>2, <2>3, <2>4, <2>5, <2>6 DEF OnTime
  <1>21. CASE Start!Quit /\ polls >= QuitSleep
    <2>a. /\ pc = "quit" /\ pc' = "launch" /\ polls' = 0 /\ waited' = waited /\ quiet' = quiet
          /\ answered' = answered /\ still' = still /\ silence' = silence
          /\ cli' = cli /\ up' = up /\ ahead' = ahead /\ text' = text /\ gated' = gated /\ why' = why
          /\ strays' = strays
      BY <1>21 DEF Start!Quit, Start!Same, Start!Goes, Start!Fails, Start!pane
    <2>d. cli = "shell"
      <3>1. cli = "exiting" => silence <= Pause
        BY <1>i, BoundIs DEF Patient, Start!Owes
      <3> QED BY <1>21, <1>i, <1>k, <2>a, <3>1, StartNat DEF WhereItIs, ShellInTime
    <2>1. WhereItIs'
      BY <2>a, <1>i, <1>p, <2>d DEF WhereItIs, Playing
    <2>2. StillToCome'
      BY <2>a, <1>i, <1>p DEF StillToCome, Playing
    <2>3. Patient'
      BY <2>a, <1>i, <1>p DEF Patient, Start!Owes, Start!Bound
    <2>4. ShellInTime'
      BY <2>a, <1>i, <1>k DEF ShellInTime, WhereItIs
    <2>5. HandlerInTime'
      BY <2>a, <1>i, <1>k, <1>p DEF HandlerInTime, Playing, Coming, Pinned, Start!Bound
    <2>6. WholeInTime'
      BY <2>a, <1>i, <1>k, <1>p DEF WholeInTime, Playing, Coming, Late
    <2> QED BY <1>i, <2>a, <2>1, <2>2, <2>3, <2>4, <2>5, <2>6 DEF OnTime
  <1>22. CASE Start!Quit /\ ~(polls >= QuitSleep)
    <2>a. /\ pc = "quit" /\ pc' = pc /\ polls' = polls + 1 /\ waited' = waited /\ quiet' = quiet
          /\ answered' = answered /\ still' = still
          /\ cli' = cli /\ up' = up /\ ahead' = ahead /\ text' = text /\ gated' = gated /\ why' = why
          /\ strays' = strays
      BY <1>22 DEF Start!Quit, Start!Same, Start!Goes, Start!Fails, Start!pane
    <2>t. /\ silence' \in Nat /\ silence <= silence' /\ Patient'
          /\ Start!Owes => silence' = silence + 1 /\ silence' <= Start!Bound
      BY <1>22, <1>i, <1>p, <2>a, PollInTime DEF Start!Quit
    <2>1. WhereItIs'
      BY <2>a, <1>i, <1>p DEF WhereItIs, Playing
    <2>2. StillToCome'
      BY <2>a, <1>i, <1>p DEF StillToCome, Playing
    <2>3. Patient'
      BY <2>t
    <2>4. ShellInTime'
      BY <2>a, <1>i, <1>k, <2>t DEF ShellInTime, WhereItIs, Start!Owes
    <2>5. HandlerInTime'
      BY <2>a, <1>i, <1>k, <1>p, <1>c, <2>t DEF HandlerInTime, Playing, Coming, Pinned, Start!Owes, Start!Bound
    <2>6. WholeInTime'
      BY <2>a, <1>i, <1>k, <1>p, <1>c, <2>t DEF WholeInTime, Playing, Coming, Late, Start!Owes
    <2> QED BY <1>i, <2>a, <2>1, <2>2, <2>3, <2>4, <2>5, <2>6 DEF OnTime
  <1>23. CASE Start!FallBack
    <2>1. pc = "wait" /\ waited >= Start!S.ready
      BY <1>23 DEF Start!FallBack
    <2> QED BY <1>k, <2>1, WaitIsLong
  <1> QED BY <1>1, <1>2, <1>3, <1>4, <1>5, <1>6, <1>7, <1>8, <1>9, <1>10, <1>11, <1>12, <1>13, <1>14, <1>15,
             <1>16, <1>17, <1>18, <1>19, <1>20, <1>21, <1>22, <1>23 DEF Start!Initialize

\* A start is on time.
LEMMA StartsOnTime ==
    ASSUME InlineAsLaunched, Start!Init
    PROVE  StartTyped /\ OnTime
  <1>1. StartTyped
    BY DEF StartTyped, Start!Init
  <1>2. Played(provider, ahead)
    BY ScriptFits DEF Start!Init
  <1>3. Patient
    BY BoundIs DEF Patient, Start!Init
  <1>4. WhereItIs /\ StillToCome
    BY <1>2 DEF WhereItIs, StillToCome, Playing, Start!Init
  <1>5. ShellInTime
    BY DEF ShellInTime, Start!Init
  <1>6. HandlerInTime /\ WholeInTime
    BY DEF HandlerInTime, WholeInTime, Playing, Start!Init
  <1> QED BY <1>1, <1>3, <1>4, <1>5, <1>6 DEF OnTime, Start!Init

\* Every step keeps the types.
LEMMA TypedKeeps ==
    ASSUME StartTyped, [Start!Next]_Start!vars
    PROVE  StartTyped'
  <1>n. First \in Nat /\ Pause \in Nat
    BY StartNat
  <1>1. CASE Start!Pane
    <2>1. /\ provider' \in Providers /\ polls' \in Nat /\ waited' \in Nat
          /\ quiet' \in Nat /\ silence' \in Nat
      BY <1>1 DEF StartTyped, Start!Pane, Start!ShellComes, Start!Leaves, Start!Shows, Start!Boots,
                  Start!Prompts, Start!Evicts,
             Start!GateComes, Start!Slows, Start!Acts, Start!init, Start!pane
    <2>2. still' \in {still, FALSE} /\ slow' \in {slow, TRUE}
      BY <1>1 DEF Start!Pane, Start!ShellComes, Start!Leaves, Start!Shows, Start!Boots, Start!Prompts,
                  Start!Evicts,
             Start!GateComes, Start!Slows, Start!Acts, Start!init, Start!pane
    <2> QED BY <2>1, <2>2 DEF StartTyped
  <1>2. CASE Start!ShellReady \/ Start!ShellSleeps \/ Start!ShellTimesOut \/ Start!Launch
    <2>1. /\ provider' \in Providers /\ polls' \in Nat /\ waited' \in Nat
          /\ quiet' \in Nat /\ silence' \in Nat
      BY <1>2, <1>n DEF StartTyped, Start!Poll, Start!ShellReady, Start!ShellSleeps, Start!ShellTimesOut,
                        Start!Launch, Start!Same, Start!Goes,
             Start!Fails, Start!pane
    <2>2. still' \in {still, FALSE, TRUE, slow} /\ slow' = slow
      BY <1>2 DEF Start!ShellReady, Start!ShellSleeps, Start!ShellTimesOut, Start!Launch, Start!Same,
                  Start!Goes,
             Start!Fails, Start!pane
    <2> QED BY <2>1, <2>2 DEF StartTyped
  <1>3. CASE Start!HandlerEnds \/ Start!HandlerSees \/ Start!HandlerRaises \/ Start!HandlerSleeps \/ Start!Key
    <2>1. /\ provider' \in Providers /\ polls' \in Nat /\ waited' \in Nat
          /\ quiet' \in Nat /\ silence' \in Nat
      BY <1>3, <1>n DEF StartTyped, Start!Poll, Start!HandlerEnds, Start!HandlerSees, Start!HandlerRaises,
                        Start!HandlerSleeps, Start!Key, Start!Same, Start!Goes,
             Start!Fails, Start!pane
    <2>2. still' \in {still, FALSE, TRUE, slow} /\ slow' = slow
      BY <1>3 DEF Start!HandlerEnds, Start!HandlerSees, Start!HandlerRaises, Start!HandlerSleeps, Start!Key,
                  Start!Same, Start!Goes,
             Start!Fails, Start!pane
    <2> QED BY <2>1, <2>2 DEF StartTyped
  <1>4. CASE Start!WaitReady \/ Start!WaitAnswers \/ Start!WaitSleeps \/ Start!WaitTimesOut
    <2>1. /\ provider' \in Providers /\ polls' \in Nat /\ waited' \in Nat
          /\ quiet' \in Nat /\ silence' \in Nat
      BY <1>4, <1>n DEF StartTyped, Start!Poll, Start!WaitReady, Start!WaitAnswers, Start!WaitSleeps,
                        Start!WaitTimesOut, Start!Same, Start!Goes,
             Start!Fails, Start!pane
    <2>2. still' \in {still, FALSE, TRUE, slow} /\ slow' = slow
      BY <1>4 DEF Start!WaitReady, Start!WaitAnswers, Start!WaitSleeps, Start!WaitTimesOut, Start!Same,
                  Start!Goes,
             Start!Fails, Start!pane
    <2> QED BY <2>1, <2>2 DEF StartTyped
  <1>5. CASE Start!SettleSees \/ Start!SettleSleeps \/ Start!SettleTimesOut
    <2>1. /\ provider' \in Providers /\ polls' \in Nat /\ waited' \in Nat
          /\ quiet' \in Nat /\ silence' \in Nat
      <3>1. /\ UNCHANGED <<provider, waited, quiet>> /\ (polls' = 0 \/ polls' = polls + 1)
            /\ silence' = silence \/ Start!Poll
        BY <1>5 DEF Start!SettleSees, Start!SettleSleeps, Start!SettleTimesOut, Start!Same, Start!Goes,
                    Start!pane
      <3> QED BY <1>n, <3>1 DEF StartTyped, Start!Poll
    <2>2. still' \in {still, FALSE, TRUE, slow} /\ slow' = slow
      BY <1>5 DEF Start!SettleSees, Start!SettleSleeps, Start!SettleTimesOut, Start!Same, Start!Goes,
             Start!Fails, Start!pane
    <2> QED BY <2>1, <2>2 DEF StartTyped
  <1>6. CASE Start!GateSeen \/ Start!GateClean \/ Start!Quit \/ Start!FallBack
    <2>1. /\ provider' \in Providers /\ polls' \in Nat /\ waited' \in Nat
          /\ quiet' \in Nat /\ silence' \in Nat
      BY <1>6, <1>n DEF StartTyped, Start!Poll, Start!GateSeen, Start!GateClean, Start!Quit, Start!FallBack,
                        Start!Exits, Start!Same, Start!Goes,
             Start!Fails, Start!pane
    <2>2. still' \in {still, FALSE, TRUE, slow} /\ slow' = slow
      BY <1>6 DEF Start!GateSeen, Start!GateClean, Start!Quit, Start!FallBack, Start!Exits, Start!Same,
                  Start!Goes,
             Start!Fails, Start!pane
    <2> QED BY <2>1, <2>2 DEF StartTyped
  <1>7. CASE UNCHANGED Start!vars
    BY <1>7 DEF StartTyped, Start!vars, Start!init
  <1> QED BY <1>1, <1>2, <1>3, <1>4, <1>5, <1>6, <1>7 DEF Start!Next, Start!Initialize

\* A slow CLI remains one.
LEMMA SlowStays ==
    ASSUME slow, [Start!Next]_Start!vars
    PROVE  slow'
  <1>1. CASE Start!Pane
    BY <1>1 DEF Start!Pane, Start!ShellComes, Start!Leaves, Start!Shows, Start!Boots, Start!Prompts,
                Start!Evicts,
                Start!GateComes, Start!Slows, Start!Acts
  <1>2. CASE Start!Initialize
    BY <1>2 DEF Start!Initialize, Start!Same, Start!ShellReady, Start!ShellSleeps, Start!ShellTimesOut,
                Start!Launch, Start!HandlerEnds,
                Start!HandlerSees, Start!HandlerRaises, Start!HandlerSleeps, Start!Key, Start!WaitReady,
                Start!WaitAnswers,
                Start!WaitSleeps, Start!WaitTimesOut, Start!SettleSees, Start!SettleSleeps,
                Start!SettleTimesOut, Start!GateSeen,
                Start!GateClean, Start!Quit, Start!FallBack
  <1>3. CASE UNCHANGED Start!vars
    BY <1>3 DEF Start!vars
  <1> QED BY <1>1, <1>2, <1>3 DEF Start!Next

\* Every step keeps the invariant.
LEMMA StepOnTime ==
    ASSUME InlineAsLaunched, StartInvariant, [Start!Next]_Start!vars
    PROVE  StartInvariant'
  <1>1. StartupInvariant' /\ StartTyped'
    BY StepKeeps, TypedKeeps DEF StartInvariant
  <1>2. slow' \/ OnTime'
    <2>1. CASE slow
      BY <2>1, SlowStays
    <2>2. CASE ~slow /\ Start!Pane
      BY <2>2, PaneOnTime DEF StartInvariant
    <2>3. CASE ~slow /\ Start!Initialize
      BY <2>3, InitializeOnTime DEF StartInvariant
    <2>4. CASE ~slow /\ UNCHANGED Start!vars
      <3>1. /\ UNCHANGED <<pc, polls, waited, quiet, answered, target, still, launches, why>>
            /\ UNCHANGED <<cli, up, ahead, text, gated, provider, silence, slow, strays>>
        BY <2>4 DEF Start!vars, Start!init, Start!pane
      <3>2. OnTime
        BY <2>4 DEF StartInvariant
      <3>3. Start!S' = Start!S /\ Start!H' = Start!H /\ Start!Bound' = Start!Bound /\ Start!Owes' = Start!Owes
        BY <3>1 DEF Start!S, Start!H, Start!Bound, Start!Owes
      <3> QED BY <3>1, <3>2, <3>3 DEF OnTime, WhereItIs, StillToCome, Patient, ShellInTime, HandlerInTime,
                                      WholeInTime,
                 Playing, Coming, Pinned, Late
    <2> QED BY <2>1, <2>2, <2>3, <2>4 DEF Start!Next
  <1> QED BY <1>1, <1>2 DEF StartInvariant

\* A CLI that keeps time is brought up: whatever dialogs it shows and however it uses the time it
\* has, initialize() gives none up, types no command into another, and calls ready only what
\* takes input.
THEOREM SpecStartIsTrue == InlineAsLaunched /\ Start!Spec => []StartIsTrue
  <1> SUFFICES ASSUME InlineAsLaunched PROVE Start!Spec => []StartIsTrue
    OBVIOUS
  <1>1. Start!Init => StartInvariant
    BY InitHolds, StartsOnTime DEF StartInvariant
  <1>2. StartInvariant /\ [Start!Next]_Start!vars => StartInvariant'
    BY StepOnTime
  <1>3. StartInvariant => StartIsTrue
    BY DEF StartInvariant, OnTime, WhereItIs, StartupInvariant, UpInDialog, StartIsTrue, Start!StartIsTrue
  <1> QED BY <1>1, <1>2, <1>3, PTL DEF Start!Spec
=============================================================================
