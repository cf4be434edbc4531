------------------------------ MODULE AgentStep ------------------------------
(* run_agent_step (services/agent_step.py) and its two callers: a step of the      *)
(* YAML engine, with its retries, its one reprompt and its structured output in    *)
(* the step output store, and a call of the run-step route, which may reuse a      *)
(* terminal.  An action is the completion of an await and the block after it.      *)
(*                                                                                *)
(* The agents are the environment; what a terminal shows is what StatusMonitor     *)
(* promises: busy once the turn has been seen to begin, ready again only when it   *)
(* is over, and until then what it showed when the prompt was typed.               *)
EXTENDS Naturals, Sequences, FiniteSets, SequencesExt

CONSTANTS
    Steps,          \* the steps modelled
    Engine,         \* those of the YAML engine; the others are calls of the route
    Schema,         \* engine steps with an output_schema
    Reused,         \* calls with reuse_terminal_id: the terminal bears the call's name
    Others,         \* keys of the store that belong to other runs
    Retries,        \* WORKFLOW_DEFAULT_STEP_RETRIES
    Cap,            \* WORKFLOW_OUTPUT_STORE_MAX_ENTRIES
    StablePolls,    \* _IDLE_STABLE_POLLS
    ReadyLooks,     \* what a terminal may show when it is first ready
    EndLooks,       \* what it may show when a turn is over
    MaxTerms,       \* terminals that may be created
    Faults, MaxFaults,
    NoTerm

FaultKinds == {"create", "send", "output", "teardown", "die", "vanish"}
ReadyStates == {"IDLE", "COMPLETED"}

ASSUME StepAssumption ==
    /\ Engine \subseteq Steps /\ Schema \subseteq Engine /\ Reused \subseteq Steps \ Engine
    /\ Retries \in Nat /\ Cap \in Nat \ {0} /\ StablePolls \in Nat \ {0} /\ MaxTerms \in Nat
    /\ ReadyLooks \subseteq ReadyStates /\ EndLooks \subseteq ReadyStates
    /\ MaxFaults \in Nat /\ Steps \cap Others = {}
    /\ NoTerm \notin (1..MaxTerms) \cup Steps /\ Reused \cap (1..MaxTerms) = {}

VARIABLES
    step,       \* per step: the await it is at, and the locals of its coroutines
    cancelled,  \* steps whose cancel_event is set
    owner,      \* per terminal: the step it was made for
    alive,      \* terminals that exist
    turn,       \* the agent: "none" before a prompt, "asked", "working", "done", "dead"
    status,     \* what get_status returns; the two working states are one
    store,      \* the step output store, oldest first
    last,       \* per step: its workers' last return, "none", "valid" or "invalid"
    since,      \* per step: the other keys returned since
    left,       \* terminals whose step raised, or whose teardown failed
    faults

terminals == <<owner, alive, turn, status>>
outputs == <<store, last, since>>
vars == <<step, cancelled, terminals, outputs, left, faults>>

Created == 1..MaxTerms
Terminals == Created \cup Reused
Keys == Steps \cup Others
Pcs == {"create", "ready", "send", "poll", "extract", "teardown", "over"}
Outcomes == {"none", "completed", "unvalidated", "failed", "skipped", "running", "stray"}
StepType == [pc : Pcs, att : Nat, term : Terminals \cup {NoTerm}, worked : BOOLEAN,
             idle : Nat, reprompted : BOOLEAN, outcome : Outcomes]

TypeOK ==
    /\ step \in [Steps -> StepType]
    /\ cancelled \subseteq Engine
    /\ owner \in [Terminals -> Steps \cup {NoTerm}]
    /\ alive \subseteq Terminals /\ left \subseteq Terminals
    /\ turn \in [Terminals -> {"none", "asked", "working", "done", "dead"}]
    /\ status \in [Terminals -> {"UNKNOWN", "IDLE", "PROCESSING", "COMPLETED", "ERROR"}]
    /\ store \in Seq([key : Keys, valid : BOOLEAN])
    /\ last \in [Steps -> {"none", "valid", "invalid"}]
    /\ since \in [Steps -> SUBSET Keys]
    /\ faults \in Nat

Attempt(pc, t) == [pc |-> pc, att |-> 1, term |-> t, worked |-> FALSE, idle |-> 0,
                   reprompted |-> FALSE, outcome |-> "none"]

Init ==
    /\ step = [k \in Steps |-> IF k \in Reused THEN Attempt("send", k)
                                               ELSE Attempt("create", NoTerm)]
    /\ cancelled = {} /\ left = {} /\ faults = 0
    /\ owner = [t \in Terminals |-> IF t \in Reused THEN t ELSE NoTerm]
    /\ alive = Reused
    /\ turn = [t \in Terminals |-> "none"]
    /\ status \in {s \in [Terminals -> ReadyLooks \cup {"UNKNOWN"}] :
                       \A t \in Terminals : s[t] = "UNKNOWN" <=> t \in Created}
    /\ store = <<>>
    /\ last = [k \in Steps |-> "none"] /\ since = [k \in Steps |-> {}]

Fault(kind) == kind \in Faults /\ faults < MaxFaults /\ faults' = faults + 1

-----------------------------------------------------------------------------
(* The step output store.                                                       *)

\* Mutant: a record replaces the older one of its key where that one stands.
PutInPlace(key, valid) ==
    LET rec == [key |-> key, valid |-> valid]
        new == IF \E i \in 1..Len(store) : store[i].key = key
               THEN [i \in 1..Len(store) |-> IF store[i].key = key THEN rec ELSE store[i]]
               ELSE Append(store, rec)
    IN  IF Len(new) > Cap THEN Tail(new) ELSE new

\* put: the record becomes the newest of its key; over the cap the oldest one goes.
Put(key, valid) ==
    LET older == {i \in 1..Len(store) : store[i].key = key}
        kept == IF older = {} THEN store ELSE RemoveAt(store, CHOOSE i \in older : TRUE)
        new == Append(kept, [key |-> key, valid |-> valid])
    IN  IF Len(new) > Cap THEN Tail(new) ELSE new

\* get, and the test of what it returns.
Validated(k) == \E i \in 1..Len(store) : store[i].key = k /\ store[i].valid

\* record_step_output.
RecordStepOutput(key, valid) ==
    /\ store' = Put(key, valid)
    /\ last' = [k \in Steps |-> IF k # key THEN last[k]
                                ELSE IF valid THEN "valid" ELSE "invalid"]
    /\ since' = [k \in Steps |-> IF k = key THEN {} ELSE since[k] \cup {key}]

-----------------------------------------------------------------------------
(* The agents and what is detected of them.                                     *)

AgentsOnly == UNCHANGED <<step, cancelled, owner, left>>

\* A CLI becomes ready, possibly after a first turn on its system prompt.
Boot(t) ==
    /\ t \in alive /\ turn[t] = "none" /\ status[t] = "UNKNOWN"
    /\ \E look \in ReadyLooks : status' = [status EXCEPT ![t] = look]
    /\ UNCHANGED <<alive, turn, outputs, faults>> /\ AgentsOnly

BeginTurn(t) ==
    /\ t \in alive /\ turn[t] = "asked" /\ turn' = [turn EXCEPT ![t] = "working"]
    /\ UNCHANGED <<alive, status, outputs, faults>> /\ AgentsOnly

EndTurn(t) ==
    /\ t \in alive /\ turn[t] = "working" /\ turn' = [turn EXCEPT ![t] = "done"]
    /\ UNCHANGED <<alive, status, outputs, faults>> /\ AgentsOnly

\* The worker calls workflow_return, under the key in its environment.
Return(t) ==
    /\ t \in alive /\ turn[t] = "working" /\ owner[t] \in Schema
    /\ \E valid \in BOOLEAN : RecordStepOutput(owner[t], valid)
    /\ UNCHANGED <<alive, turn, status, faults>> /\ AgentsOnly

\* So does a worker of another run.
OtherReturn(key) ==
    /\ RecordStepOutput(key, TRUE)
    /\ UNCHANGED <<alive, turn, status, faults>> /\ AgentsOnly

Dies(t) ==
    /\ t \in alive /\ turn[t] \in {"none", "asked", "working"} /\ Fault("die")
    /\ turn' = [turn EXCEPT ![t] = "dead"]
    /\ UNCHANGED <<alive, status, outputs>> /\ AgentsOnly

\* Detection catches up.  A ready look stays until the next turn is seen.
Looks(t) ==
    CASE turn[t] = "working" -> {"PROCESSING"}
      [] turn[t] = "done" -> IF status[t] = "COMPLETED" THEN {} ELSE EndLooks
      [] turn[t] = "dead" -> {"ERROR"}
      [] OTHER -> {}

Detect(t) ==
    /\ t \in alive
    /\ \E look \in Looks(t) \ {status[t]} : status' = [status EXCEPT ![t] = look]
    /\ UNCHANGED <<alive, turn, outputs, faults>> /\ AgentsOnly

\* delete_terminal forgets the status with the terminal.
Gone(t) ==
    /\ alive' = alive \ {t}
    /\ status' = [status EXCEPT ![t] = "UNKNOWN"]
    /\ UNCHANGED <<owner, turn>>

\* Somebody else deletes a terminal.
Vanish(t) ==
    /\ t \in alive /\ Fault("vanish") /\ Gone(t)
    /\ UNCHANGED <<step, cancelled, left, outputs>>

Agents ==
    \/ \E t \in Terminals : \/ Boot(t) \/ BeginTurn(t) \/ EndTurn(t) \/ Return(t)
                            \/ Dies(t) \/ Detect(t) \/ Vanish(t)
    \/ \E key \in Others : OtherReturn(key)

-----------------------------------------------------------------------------
(* How an attempt ends.                                                         *)

At(k, pc) == step[k].pc = pc
Term(k) == step[k].term
created_here(k) == k \notin Reused
Set(k, r) == step' = [step EXCEPT ![k] = r]
Over(k, outcome) == [step[k] EXCEPT !.pc = "over", !.outcome = outcome]
Create(k) == [step[k] EXCEPT !.pc = "create", !.term = NoTerm]

\* _collect_structured_output: an immediate read, one reprompt, and a second read.
Collected(k) ==
    IF k \notin Schema \/ Validated(k) THEN Over(k, "completed")
    ELSE IF step[k].reprompted THEN Over(k, "unvalidated")
    ELSE [Create(k) EXCEPT !.reprompted = TRUE]

\* StepExecutionError.  The route answers it; the engine tries again, unless the run
\* was cancelled, and leaves the step as it is then.
Failed(k) ==
    IF k \notin Engine \/ step[k].att > Retries THEN Over(k, "failed")
    ELSE IF k \in cancelled THEN Over(k, "running")
    ELSE [Create(k) EXCEPT !.att = @ + 1]

\* Neither deletes the terminal.
Leaves(k) == left' = left \cup ({Term(k)} \ {NoTerm})
Raises(k) == Set(k, Failed(k)) /\ Leaves(k)

\* Any other exception passes both callers by, and ends the run or the call.
Strays(k) == Set(k, Over(k, "stray")) /\ Leaves(k)

-----------------------------------------------------------------------------
(* run_agent_step.                                                              *)

StepOnly == UNCHANGED <<cancelled, outputs>>

\* create_terminal returns; the provider's own wait may have been fooled by a shell.
CreateTerminal(k) ==
    /\ At(k, "create")
    /\ \E t \in Created :
          /\ owner[t] = NoTerm /\ \A u \in Created : u < t => owner[u] # NoTerm
          /\ owner' = [owner EXCEPT ![t] = k] /\ alive' = alive \cup {t}
          /\ \E look \in ReadyLooks \cup {"UNKNOWN"} : status' = [status EXCEPT ![t] = look]
          /\ Set(k, [step[k] EXCEPT !.pc = "ready", !.term = t])
    /\ UNCHANGED <<turn, left, faults>> /\ StepOnly

CreateRaises(k) ==
    /\ At(k, "create") /\ Fault("create") /\ Strays(k)
    /\ UNCHANGED terminals /\ StepOnly

\* wait_until_status.
WaitReady(k) ==
    /\ At(k, "ready")
    /\ IF status[Term(k)] \in ReadyStates
       THEN Set(k, [step[k] EXCEPT !.pc = "send"]) /\ UNCHANGED left
       ELSE Raises(k)
    /\ UNCHANGED <<terminals, faults>> /\ StepOnly

SendInput(k) ==
    /\ At(k, "send") /\ Term(k) \in alive
    /\ turn' = [turn EXCEPT ![Term(k)] = IF @ = "dead" THEN "dead" ELSE "asked"]
    /\ Set(k, [step[k] EXCEPT !.pc = "poll", !.worked = FALSE, !.idle = 0])
    /\ UNCHANGED <<owner, alive, status, left, faults>> /\ StepOnly

SendRaises(k) ==
    /\ At(k, "send") /\ Strays(k)
    /\ \/ Term(k) \notin alive /\ UNCHANGED faults
       \/ Fault("send")
    /\ UNCHANGED terminals /\ StepOnly

\* Mutant: any ready look ends the wait.
SettlesUnworked(k) == status[Term(k)] \in ReadyStates

\* What _wait_for_completion takes for the end of the turn.
Settles(k) ==
    \/ status[Term(k)] = "COMPLETED"
    \/ status[Term(k)] = "IDLE" /\ step[k].worked /\ step[k].idle + 1 >= StablePolls

\* What it remembers of a poll otherwise.
Remembers(k) ==
    CASE status[Term(k)] = "PROCESSING" -> [step[k] EXCEPT !.worked = TRUE, !.idle = 0]
      [] status[Term(k)] = "IDLE" -> IF step[k].worked THEN [step[k] EXCEPT !.idle = @ + 1]
                                     ELSE step[k]
      [] OTHER -> [step[k] EXCEPT !.idle = 0]

Poll(k) ==
    /\ At(k, "poll") /\ k \notin cancelled /\ status[Term(k)] # "ERROR"
    /\ Set(k, IF Settles(k) THEN [step[k] EXCEPT !.pc = "extract"] ELSE Remembers(k))
    /\ UNCHANGED <<terminals, left, faults>> /\ StepOnly

\* Mutant: only a crashed worker ends the wait.
ExpiresOnError(k) == status[Term(k)] = "ERROR"

\* An ERROR look, or the deadline at a poll that settles nothing.
Expires(k) == ~Settles(k)

Expire(k) ==
    /\ At(k, "poll") /\ k \notin cancelled /\ Expires(k) /\ Raises(k)
    /\ UNCHANGED <<terminals, faults>> /\ StepOnly

\* Mutant: a cancelled wait keeps its terminal, like a failed one.
AfterCancelKeeps(k) == Over(k, "skipped")

\* StepCancelledError: a terminal made here is torn down, and the engine skips the step.
AfterCancel(k) == [step[k] EXCEPT !.pc = "teardown", !.outcome = "skipped"]

Interrupt(k) ==
    /\ At(k, "poll") /\ k \in cancelled /\ Set(k, AfterCancel(k))
    /\ UNCHANGED <<terminals, left, faults>> /\ StepOnly

Extract(k) ==
    /\ At(k, "extract") /\ Term(k) \in alive
    /\ Set(k, IF created_here(k) THEN [step[k] EXCEPT !.pc = "teardown"] ELSE Collected(k))
    /\ UNCHANGED <<terminals, left, faults>> /\ StepOnly

ExtractRaises(k) ==
    /\ At(k, "extract") /\ Strays(k)
    /\ \/ Term(k) \notin alive /\ UNCHANGED faults
       \/ Fault("output")
    /\ UNCHANGED terminals /\ StepOnly

\* _best_effort_teardown, then what the caller does with the result.
Teardown(k) ==
    /\ At(k, "teardown")
    /\ \/ Gone(Term(k)) /\ UNCHANGED <<left, faults>>
       \/ Fault("teardown") /\ Leaves(k) /\ UNCHANGED terminals
    /\ Set(k, IF step[k].outcome = "skipped" THEN Over(k, "skipped") ELSE Collected(k))
    /\ StepOnly

Drive(k) ==
    \/ CreateTerminal(k) \/ CreateRaises(k) \/ WaitReady(k) \/ SendInput(k) \/ SendRaises(k)
    \/ Poll(k) \/ Expire(k) \/ Interrupt(k) \/ Extract(k) \/ ExtractRaises(k) \/ Teardown(k)

\* cancel_run sets the cancel_event of the run; the route passes none.
CancelRun(k) ==
    /\ k \in Engine /\ ~At(k, "over") /\ cancelled' = cancelled \cup {k}
    /\ UNCHANGED <<step, terminals, outputs, left, faults>>

Next ==
    \/ Agents
    \/ \E k \in Steps : Drive(k) \/ CancelRun(k)

Spec == Init /\ [][Next]_vars

\* The loop resumes a step, deadlines pass; agents, detection and users owe nothing.
FairSpec == Spec /\ \A k \in Steps : WF_vars(Drive(k))

-----------------------------------------------------------------------------
(* Properties.                                                                  *)

\* A step whose wait has ended reads the answer to its own prompt: the turn that the
\* prompt began is over ("a completion signal ... strictly AFTER the prompt has been sent").
AnswersItsPrompt == \A k \in Steps : At(k, "extract") => turn[Term(k)] = "done"

Holds(k, t) == Term(k) = t /\ ~At(k, "over")

\* Only a step that failed, or whose teardown did, leaves its terminal behind; a success
\* and a cancelled wait, of an attempt or of the reprompt, leave none.
OnlyFailuresLeave ==
    \A t \in alive \cap Created : t \in left \/ \E k \in Steps : owner[t] = k /\ Holds(k, t)

\* The verdict over a step's output follows its workers' last return, whoever else returns:
\* COMPLETED only if that was valid, UNVALIDATED only if it was not or the store has since
\* been given as many other keys as it holds.
Verdict(k) ==
    At(k, "over")' /\ ~At(k, "over") =>
       /\ step'[k].outcome = "completed" => last[k] = "valid"
       /\ step'[k].outcome = "unvalidated" =>
             last[k] # "valid" \/ Cardinality(since[k]) >= Cap
VerdictFollowsReturns == [][\A k \in Schema : Verdict(k)]_vars

\* Whatever the agents do, every step ends: its waits have deadlines and its retries a bound.
StepSettles == \A k \in Steps : <>At(k, "over")
=============================================================================
