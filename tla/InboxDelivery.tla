---------------------------- MODULE InboxDelivery ----------------------------
(* Delivery of queued inbox messages (services/inbox_service.py).  Four callers   *)
(* run deliver_pending: the POST endpoint, on the event loop itself, and the      *)
(* status consumer, the OpenCode poller and the reconciliation sweep, each in a   *)
(* worker thread.  Nothing but the message rows coordinates them; an action is    *)
(* one database statement, one status read, or one send_input.                    *)
(*                                                                                *)
(* The agents are the environment.  The status of a terminal is what was last     *)
(* detected and lags the agent.                                                   *)
EXTENDS Naturals, Sequences, FiniteSets, SequencesExt

CONSTANTS
    Terminals,      \* senders and receivers
    Receivers,      \* those whose agent and inbox are modelled
    Routes,         \* pairs of a sender and a receiver
    Caller,         \* caller_id: the terminal that spawned each terminal, or itself
    Accepts,        \* receivers whose provider accepts_input_while_processing
    OpenCode,       \* receivers of the OpenCode provider
    Eager,          \* EAGER_INBOX_DELIVERY
    Overlap,        \* whether deliveries may overlap
    Faults,         \* what may go wrong
    MaxFaults, MaxMessages, MaxEvents

FaultKinds == {"crash", "unresolved", "error", "late", "db", "delete"}

ASSUME InboxAssumption ==
    /\ Receivers \subseteq Terminals /\ Receivers # {} /\ Routes \subseteq Terminals \X Receivers
    /\ Caller \in [Terminals -> Terminals]
    /\ Accepts \subseteq Receivers /\ OpenCode \subseteq Receivers
    /\ Eager \in BOOLEAN /\ Overlap \in BOOLEAN /\ Faults \subseteq FaultKinds
    /\ MaxFaults \in Nat /\ MaxMessages \in Nat /\ MaxEvents \in Nat

VARIABLES
    rows,       \* the inbox table: a status, sender, receiver and age per message
    alive,      \* terminals with a row in the terminals table
    job,        \* a run of deliver_pending per caller
    todo,       \* receivers a poller has listed and not yet visited
    status,     \* the status StatusMonitor reports
    events,     \* ready events the consumer has not taken
    turn,       \* the agent: "ready", "busy", "awaiting" a worker, "asking" its user
    typed,      \* what was typed to it from the inbox
    taken,      \* how much of that it has read
    faults,
    cut         \* messages whose delivery a crash or a failed write has cut off

table == <<rows, alive>>
agent == <<turn, typed, taken>>
vars == <<rows, alive, job, todo, status, events, turn, typed, taken, faults, cut>>

Ids == 1..MaxMessages
Jobs == {"post", "event", "opencode", "sweep"}
Pollers == {"opencode", "sweep"}
Statuses == {"ready", "busy", "asking", "unknown"}
NoRow == [st |-> "NONE", from |-> CHOOSE t \in Terminals : TRUE,
          to |-> CHOOSE t \in Receivers : TRUE, aged |-> FALSE]
NoJob == [pc |-> "idle", on |-> CHOOSE t \in Receivers : TRUE, msg |-> 0]

TypeOK ==
    /\ rows \in [Ids -> [st : {"NONE", "PENDING", "DELIVERED", "FAILED"},
                         from : Terminals, to : Receivers, aged : BOOLEAN]]
    /\ alive \subseteq Terminals
    /\ job \in [Jobs -> [pc : {"idle", "begin", "read", "checked", "send", "reset", "fail"},
                         on : Receivers, msg : 0..MaxMessages]]
    /\ todo \in [Pollers -> SUBSET Receivers]
    /\ status \in [Receivers -> Statuses]
    /\ events \in Seq(Receivers) /\ Len(events) <= MaxEvents
    /\ turn \in [Receivers -> {"ready", "busy", "awaiting", "asking"}]
    /\ typed \in [Receivers -> Seq(Ids)]
    /\ taken \in [Receivers -> Nat]
    /\ faults \in 0..MaxFaults /\ cut \subseteq Ids

Init ==
    /\ rows = [m \in Ids |-> NoRow]
    /\ alive = Terminals
    /\ job = [d \in Jobs |-> NoJob]
    /\ todo = [d \in Pollers |-> {}]
    /\ status = [t \in Receivers |-> "ready"]
    /\ events = <<>>
    /\ turn = [t \in Receivers |-> "ready"]
    /\ typed = [t \in Receivers |-> <<>>]
    /\ taken = [t \in Receivers |-> 0]
    /\ faults = 0 /\ cut = {}

Fault(kind) == kind \in Faults /\ faults < MaxFaults /\ faults' = faults + 1

-----------------------------------------------------------------------------
(* The agents, and the detection of their status.                               *)

AgentOnly == UNCHANGED <<table, job, todo, typed, faults, cut>>

Unread(t) == {i \in Ids : taken[t] < i /\ i <= Len(typed[t])}

\* A turn begins with the next typed message, or with what a user typed.
BeginTurn(t) ==
    /\ turn[t] = "ready" /\ turn' = [turn EXCEPT ![t] = "busy"]
    /\ taken' = [taken EXCEPT ![t] = IF @ < Len(typed[t]) THEN @ + 1 ELSE @]
    /\ UNCHANGED <<status, events>> /\ AgentOnly

\* A busy agent ends its turn, asks its user, or waits for a worker it spawned.
Proceed(t) ==
    /\ turn[t] = "busy"
    /\ \E next \in {"ready", "awaiting", "asking"} :
          /\ next = "awaiting" => \E w \in Terminals \ {t} : Caller[w] = t
          /\ turn' = [turn EXCEPT ![t] = next]
    /\ UNCHANGED <<status, events, taken>> /\ AgentOnly

Answer(t) ==
    /\ turn[t] = "asking" /\ turn' = [turn EXCEPT ![t] = "busy"]
    /\ UNCHANGED <<status, events, taken>> /\ AgentOnly

\* What is typed mid-turn is read at once by a provider that accepts it; the
\* turn goes on when that is the callback of a worker.
ReadMidTurn(t) ==
    /\ turn[t] = "awaiting" /\ t \in Accepts
    /\ \E i \in Unread(t) : Caller[rows[typed[t][i]].from] = t
    /\ taken' = [taken EXCEPT ![t] = Len(typed[t])]
    /\ turn' = [turn EXCEPT ![t] = "busy"]
    /\ UNCHANGED <<status, events>> /\ AgentOnly

Shown(t) ==
    CASE turn[t] = "ready" -> "ready"
      [] turn[t] \in {"busy", "awaiting"} -> "busy"
      [] turn[t] = "asking" -> "asking"

\* The event bus drops what does not fit the queue of the consumer.
WithEvent(t) == IF Len(events) < MaxEvents THEN Append(events, t) ELSE events

\* StatusMonitor detects the change; a ready status is an event.
Report(t) ==
    /\ t \in alive /\ status[t] # Shown(t)
    /\ status' = [status EXCEPT ![t] = Shown(t)]
    /\ events' = IF Shown(t) = "ready" THEN WithEvent(t) ELSE events
    /\ UNCHANGED <<turn, taken>> /\ AgentOnly

Agents == \E t \in Receivers : \/ BeginTurn(t) \/ Proceed(t) \/ Answer(t)
                               \/ ReadMidTurn(t) \/ Report(t)

-----------------------------------------------------------------------------
(* The callers of deliver_pending.                                              *)

\* The endpoint delivers on the loop, which is then free for nobody else.
LoopFree == job["post"].pc = "idle"

Begin(d, t) == job' = [job EXCEPT ![d] = [pc |-> "begin", on |-> t, msg |-> 0]]

\* POST .../inbox/messages: the row, then an immediate attempt.
Post(m, s, t) ==
    /\ LoopFree /\ <<s, t>> \in Routes /\ s \in alive /\ t \in alive
    /\ rows[m].st = "NONE" /\ \A n \in Ids : n < m => rows[n].st # "NONE"
    /\ rows' = [rows EXCEPT ![m] = [st |-> "PENDING", from |-> s, to |-> t, aged |-> FALSE]]
    /\ Begin("post", t)
    /\ UNCHANGED <<alive, todo, status, events, agent, faults, cut>>

\* The consumer of status events.
TakeEvent ==
    /\ LoopFree /\ job["event"].pc = "idle" /\ events # <<>>
    /\ Begin("event", Head(events)) /\ events' = Tail(events)
    /\ UNCHANGED <<table, todo, status, agent, faults, cut>>

\* The grace window has passed.
Age(m) ==
    /\ rows[m].st = "PENDING" /\ ~rows[m].aged
    /\ rows' = [rows EXCEPT ![m].aged = TRUE]
    /\ UNCHANGED <<alive, job, todo, status, events, agent, faults, cut>>

Pending(t) == {m \in Ids : rows[m].st = "PENDING" /\ rows[m].to = t}

\* Mutant: the comparison with the cutoff the wrong way round.
OverdueFresh(m) == ~rows[m].aged

Overdue(m) == rows[m].aged

\* list_pending_receiver_ids_by_provider, list_pending_receiver_ids_older_than.
Listed(d) ==
    IF d = "opencode" THEN {t \in OpenCode \cap alive : Pending(t) # {}}
    ELSE {t \in alive \cap Receivers : \E m \in Pending(t) : Overdue(m)}

ListReceivers(d) ==
    /\ LoopFree /\ job[d].pc = "idle" /\ todo[d] = {} /\ Listed(d) # {}
    /\ todo' = [todo EXCEPT ![d] = Listed(d)]
    /\ UNCHANGED <<table, job, status, events, agent, faults, cut>>

NextReceiver(d) ==
    /\ job[d].pc = "idle"
    /\ \E t \in todo[d] : Begin(d, t) /\ todo' = [todo EXCEPT ![d] = @ \ {t}]
    /\ UNCHANGED <<table, status, events, agent, faults, cut>>

-----------------------------------------------------------------------------
(* deliver_pending.                                                             *)

At(d, pc) == job[d].pc = pc
GoTo(d, pc) == job' = [job EXCEPT ![d].pc = pc]
Done(d) == job' = [job EXCEPT ![d] = NoJob]
SetStatus(m, st) == rows' = [rows EXCEPT ![m].st = st]

DeliverOnly == UNCHANGED <<alive, todo, status, events, turn, taken>>

\* Deliveries that never overlap, as "the grace window keeps the sweep from
\* overlapping the fast paths in practice" has it.
Alone(d) == \A e \in Jobs \ {d} : job[e].pc \in {"idle", "begin"}

\* Mutant: the newest message first.
FirstNewest(m, t) == m \in Pending(t) /\ \A n \in Pending(t) : n <= m

\* get_pending_messages with limit 1: the oldest.
First(m, t) == m \in Pending(t) /\ \A n \in Pending(t) : m <= n

ReadPending(d) ==
    /\ At(d, "begin") /\ (Overlap \/ Alone(d))
    /\ LET t == job[d].on
       IN  \/ Pending(t) = {} /\ Done(d)
           \/ \E m \in Ids :
                 /\ First(m, t)
                 /\ job' = [job EXCEPT ![d] = [pc |-> "read", on |-> t, msg |-> m]]
    /\ UNCHANGED <<rows, typed, faults, cut>> /\ DeliverOnly

\* Mutant: no exemption, a busy terminal waits.
AwaitedNever(m, t) == FALSE

\* _is_awaited_worker_callback: the sender was spawned by the receiver, and
\* still has a row that says so.
AwaitedCallback(m, t) ==
    /\ t \in Accepts
    /\ rows[m].from \in alive /\ Caller[rows[m].from] = t /\ rows[m].from # t

Admitted(m, t) ==
    \/ status[t] = "ready"
    \/ Eager /\ status[t] \in {"busy", "asking"} /\ t \in Accepts
    \/ status[t] = "busy" /\ AwaitedCallback(m, t)

CheckGate(d) ==
    /\ At(d, "read")
    /\ IF Admitted(job[d].msg, job[d].on) THEN GoTo(d, "checked") ELSE Done(d)
    /\ UNCHANGED <<rows, typed, faults, cut>> /\ DeliverOnly

MarkDelivered(d) ==
    /\ At(d, "checked")
    /\ SetStatus(job[d].msg, "DELIVERED") /\ GoTo(d, "send")
    /\ UNCHANGED <<typed, faults, cut>> /\ DeliverOnly

TypeKeys(d) == typed' = [typed EXCEPT ![job[d].on] = Append(@, job[d].msg)]

\* send_input types the message and returns.
SendInput(d) ==
    /\ At(d, "send") /\ job[d].on \in alive
    /\ TypeKeys(d) /\ Done(d)
    /\ UNCHANGED <<rows, faults, cut>> /\ DeliverOnly

\* Mutant: an unresolved pane ends the attempt without a reset.
AfterUnresolvedNothing == "idle"

\* TerminalNotFoundError is transient.
AfterUnresolved == "reset"

\* Any other exception is final.
AfterError == "fail"

\* send_input raises: the pane cannot be resolved, the window is gone, or a step
\* after the keys were typed fails.
SendInputRaises(d) ==
    /\ At(d, "send")
    /\ \/ Fault("unresolved") /\ GoTo(d, AfterUnresolved) /\ UNCHANGED typed
       \/ Fault("error") /\ GoTo(d, AfterError) /\ UNCHANGED typed
       \/ Fault("late") /\ job[d].on \in alive /\ GoTo(d, AfterError) /\ TypeKeys(d)
       \/ job[d].on \notin alive /\ GoTo(d, AfterError) /\ UNCHANGED <<typed, faults>>
    /\ UNCHANGED <<rows, cut>> /\ DeliverOnly

ResetPending(d) ==
    /\ At(d, "reset") /\ SetStatus(job[d].msg, "PENDING") /\ Done(d)
    /\ UNCHANGED <<typed, faults, cut>> /\ DeliverOnly

MarkFailed(d) ==
    /\ At(d, "fail") /\ SetStatus(job[d].msg, "FAILED") /\ Done(d)
    /\ UNCHANGED <<typed, faults, cut>> /\ DeliverOnly

\* A database statement raises out of deliver_pending, whose caller logs it.
DatabaseRaises(d) ==
    /\ job[d].pc \in {"begin", "checked", "reset", "fail"}
    /\ Fault("db") /\ Done(d)
    /\ cut' = IF job[d].pc \in {"reset", "fail"} THEN cut \cup {job[d].msg} ELSE cut
    /\ UNCHANGED <<rows, typed>> /\ DeliverOnly

Deliver(d) ==
    \/ ReadPending(d) \/ CheckGate(d) \/ MarkDelivered(d) \/ SendInput(d)
    \/ SendInputRaises(d) \/ ResetPending(d) \/ MarkFailed(d) \/ DatabaseRaises(d)

-----------------------------------------------------------------------------

\* delete_terminal.
DeleteTerminal(t) ==
    /\ t \in alive /\ Fault("delete")
    /\ alive' = alive \ {t}
    /\ status' = [r \in Receivers |-> IF r = t THEN "unknown" ELSE status[r]]
    /\ UNCHANGED <<rows, job, todo, events, agent, cut>>

\* Marked DELIVERED by a delivery that has not typed or settled it yet.
InFlight(m) ==
    \E d \in Jobs : job[d].msg = m /\ job[d].pc \in {"send", "reset", "fail"}

\* The server dies and starts again; rows and agents survive it.
Crash ==
    /\ Fault("crash")
    /\ job' = [d \in Jobs |-> NoJob] /\ todo' = [d \in Pollers |-> {}]
    /\ status' = [t \in Receivers |-> "unknown"] /\ events' = <<>>
    /\ cut' = cut \cup {m \in Ids : InFlight(m)}
    /\ UNCHANGED <<table, agent>>

Next ==
    \/ Agents
    \/ \E m \in Ids : Age(m) \/ \E r \in Routes : Post(m, r[1], r[2])
    \/ TakeEvent
    \/ \E d \in Pollers : ListReceivers(d) \/ NextReceiver(d)
    \/ \E d \in Jobs : Deliver(d)
    \/ \E t \in Terminals : DeleteTerminal(t)
    \/ Crash

Spec == Init /\ [][Next]_vars

\* Threads and the loop run, the daemons wake, and detection catches up; agents,
\* senders and faults owe nothing.
FairSpec ==
    /\ Spec
    /\ \A d \in Jobs : WF_vars(Deliver(d))
    /\ \A d \in Pollers : WF_vars(ListReceivers(d)) /\ WF_vars(NextReceiver(d))
    /\ \A m \in Ids : WF_vars(Age(m))
    /\ \A t \in Receivers : WF_vars(Report(t))
    /\ WF_vars(TakeEvent)

-----------------------------------------------------------------------------
(* Properties.                                                                  *)

WasTyped(m) == \E i \in 1..Len(typed[rows[m].to]) : typed[rows[m].to][i] = m

\* However deliveries overlap, a row that says DELIVERED was typed or is being typed: no
\* path marks a message and forgets it, but where a crash or a failed write cut it off.
DeliveredWasTyped ==
    \A m \in Ids \ cut : rows[m].st = "DELIVERED" => WasTyped(m) \/ InFlight(m)

\* Delivery that never overlaps implements the abstract mailbox.
Fate == [m \in Ids |->
    IF rows[m].st = "NONE" THEN "none"
    ELSE IF WasTyped(m) THEN "typed"
    ELSE IF rows[m].st = "PENDING" \/ InFlight(m) THEN "queued"
    ELSE IF rows[m].st = "FAILED" THEN "failed"
    ELSE "lost"]
Mail == INSTANCE Mailbox WITH
    Messages <- Ids, Boxes <- Receivers,
    fate <- Fate, box <- [m \in Ids |-> rows[m].to], got <- typed
MailboxSpec == Mail!MailSpec

Waits(m, t) == rows[m].st = "PENDING" /\ rows[m].to = t /\ t \in alive

\* A message for an idle terminal is adopted, whatever the immediate attempt and
\* the events missed ("Those messages would otherwise stay PENDING forever").
Orphan(m, t) == Waits(m, t) /\ turn[t] = "ready"
OrphanAdopted == \A m \in Ids : \A t \in Receivers : Orphan(m, t) ~> ~Orphan(m, t)

\* A supervisor that waits for a worker receives its callback ("that deadlocks a
\* supervisor which stays PROCESSING because it is waiting"), where none but other callbacks
\* of its workers are older: deliver_pending looks at the oldest message alone, and one from
\* anybody else holds all that is behind it until the supervisor is idle.
IsCallback(m, t) == rows[m].from \in alive /\ Caller[rows[m].from] = t /\ rows[m].from # t
Awaited(m, t) ==
    /\ turn[t] = "awaiting" /\ Waits(m, t) /\ t \in Accepts
    /\ \A n \in 1..m : Waits(n, t) => IsCallback(n, t)
AwaitedCallbackArrives ==
    \A m \in Ids : \A t \in Receivers : Awaited(m, t) ~> ~Awaited(m, t)
=============================================================================
