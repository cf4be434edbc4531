---------------------------- MODULE StatusMonitor ----------------------------
(* The status of one tmux terminal (services/status_monitor.py): output chunks   *)
(* are detected on two edges, rising and quiescence, and latched.  The chunk     *)
(* worker, the quiescence tasks, the HTTP polls and the input senders run on     *)
(* threads of their own and share the state under one lock; an action is one     *)
(* section under that lock, or one callback of the event loop.                   *)
(*                                                                               *)
(* A chunk is abstracted to what the provider's detector answers once it is the  *)
(* last thing on the screen.  The agent is the environment: it takes one typed   *)
(* input per turn and queues what is typed during a turn.                        *)
EXTENDS Naturals, Sequences, SequencesExt

CONSTANTS
    Senders,        \* callers of send_input
    Gate,           \* what they await: "cycle", "status" or "none"
    Screen,         \* detection on the rendered screen rather than on raw bytes
    Rendered,       \* provider.supports_rendered_pane_status
    Lags,           \* whether detections overlap other work and output lags the pane
    EndLooks,       \* how a finished turn may look
    Redraws,        \* how a redraw of a ready terminal may look
    MaxInputs,      \* bound on inputs sent
    MaxQueue,       \* bound on chunks waiting
    MaxTasks        \* bound on detections in flight

Sticky == {"IDLE", "COMPLETED", "WAITING_USER_ANSWER", "ERROR"}
Looks == Sticky \cup {"PROCESSING", "UNKNOWN"}

ASSUME MonitorAssumption ==
    /\ Gate \in {"cycle", "status", "none"}
    /\ Screen \in BOOLEAN /\ Rendered \in BOOLEAN
    /\ Lags \in BOOLEAN
    /\ EndLooks \subseteq Sticky /\ EndLooks # {} /\ Redraws \subseteq Looks
    /\ MaxInputs \in Nat /\ MaxQueue \in Nat /\ MaxTasks \in Nat

VARIABLES
    \* the agent
    turn,       \* "ready" or "busy"
    blink,      \* a turn that has just begun still shows the ready footer
    typed,      \* inputs that reached the terminal
    begun,      \* of those, the inputs whose turn has begun
    chunks,     \* output not yet processed
    \* the monitor
    buffer,     \* what the rolling buffer looks like, "empty" when cleared
    screen,     \* what the composited screen looks like
    last,       \* _last_status, "none" without an entry
    armed,      \* _allow_processing_revert
    input_gen, ready_gen,
    cand,       \* _rendered_ready_candidate: a generation and a look, or <<>>
    bursting,
    timer,      \* "none", "set", or "popped": no longer ours, its cancel queued
    arming,     \* an _arm closure is queued on the loop
    worker,     \* the chunk worker: the step it is at, its buffer, its generation
    tasks,      \* detections in flight: look ("unread"), generation, whether polled
    \* the callers of send_input
    sender

agent == <<turn, blink, typed, begun>>
debounce == <<bursting, timer, arming>>
seen == <<buffer, screen>>
latch == <<last, armed, ready_gen>>
vars == <<agent, chunks, seen, latch, input_gen, cand, debounce, worker, tasks, sender>>

Idle == [pc |-> "idle", look |-> "empty", gen |-> 0]

TypeOK ==
    /\ turn \in {"ready", "busy"} /\ blink \in BOOLEAN
    /\ typed \in 0..MaxInputs /\ begun \in 0..typed
    /\ chunks \in BoundedSeq(Looks, MaxQueue)
    /\ buffer \in Looks \cup {"empty"} /\ screen \in Looks \cup {"empty"}
    /\ last \in Looks \cup {"none"} /\ armed \in BOOLEAN
    /\ input_gen \in 0..MaxInputs /\ ready_gen \in 0..input_gen
    /\ cand \in {<<>>} \cup (0..input_gen) \X Sticky
    /\ bursting \in BOOLEAN /\ timer \in {"none", "set", "popped"} /\ arming \in BOOLEAN
    /\ worker \in [pc : {"idle", "edge", "detect", "arm"},
                   look : Looks \cup {"empty"}, gen : 0..input_gen]
    /\ \A i \in 1..Len(tasks) :
          tasks[i] \in [look : Looks \cup {"empty", "unread"}, gen : 0..input_gen,
                        polled : BOOLEAN]
    /\ Len(tasks) <= MaxTasks
    /\ sender \in [Senders -> {"idle", "checked", "notified", "cleared"}]

\* A new terminal, or one found at startup, seeded by restore_snapshot from its
\* pane as it was.
Init ==
    /\ \/ turn = "ready" /\ buffer = "empty" /\ last = "none"
       \/ turn = "ready" /\ buffer \in EndLooks /\ last = buffer
       \/ turn = "busy" /\ buffer \in {"PROCESSING", "UNKNOWN"} /\ last = buffer
    /\ blink = FALSE /\ typed = 0 /\ begun = 0 /\ chunks = <<>>
    /\ screen = "empty" /\ armed = FALSE /\ input_gen = 0 /\ ready_gen = 0
    /\ cand = <<>> /\ bursting = FALSE /\ timer = "none" /\ arming = FALSE
    /\ worker = Idle /\ tasks = <<>> /\ sender = [s \in Senders |-> "idle"]

-----------------------------------------------------------------------------
(* The agent and its output.                                                    *)

Emit(l) == Len(chunks) < MaxQueue /\ chunks' = Append(chunks, l)

AgentOnly == UNCHANGED <<seen, latch, input_gen, cand, debounce, worker, tasks, sender>>

BeginTurn ==
    /\ turn = "ready" /\ begun < typed
    /\ turn' = "busy" /\ begun' = begun + 1 /\ blink' = Rendered
    /\ Emit("PROCESSING")
    /\ UNCHANGED typed /\ AgentOnly

\* Output of a busy agent: its spinner, or a frame that shows nothing telling.
Work ==
    /\ turn = "busy"
    /\ \E l \in {"PROCESSING", "UNKNOWN"} : Emit(l)
    /\ UNCHANGED agent /\ AgentOnly

EndTurn ==
    /\ turn = "busy"
    /\ turn' = "ready" /\ blink' = FALSE
    /\ \E l \in EndLooks : Emit(l)
    /\ UNCHANGED <<typed, begun>> /\ AgentOnly

Redraw ==
    /\ turn = "ready"
    /\ \E l \in Redraws : Emit(l)
    /\ UNCHANGED agent /\ AgentOnly

Agent == BeginTurn \/ Work \/ EndTurn \/ Redraw

-----------------------------------------------------------------------------
(* The latch.                                                                   *)

\* UNKNOWN is no signal once anything is known.
NoSignal(l) == l = "UNKNOWN" /\ last # "none"

\* Mutant: a ready terminal is believed to work again at once.
LatchedCompleted(l) == ~armed /\ last = "COMPLETED" /\ l = "IDLE"

\* The downgrades the latch refuses.
Latched(l) ==
    /\ ~armed
    /\ \/ last \in Sticky /\ l \in {"PROCESSING", "UNKNOWN"}
       \/ last = "COMPLETED" /\ l = "IDLE"

\* The arm is consumed by PROCESSING or a non-ready -> ready upgrade.
Disarms(l) == l = "PROCESSING" \/ (l \in Sticky /\ last \notin Sticky)

\* The generation that PROCESSING -> ready settles.
Answered == input_gen

\* _apply_detection.
ApplyDetection(l, g) ==
    IF g # input_gen \/ NoSignal(l) \/ Latched(l) \/ l = last
    THEN UNCHANGED latch
    ELSE /\ last' = l
         /\ armed' = (armed /\ ~Disarms(l))
         /\ ready_gen' = IF last = "PROCESSING" /\ l \in Sticky THEN Answered ELSE ready_gen

\* What the detector makes of an empty buffer or screen.
Detect(l) == IF l = "empty" THEN "UNKNOWN" ELSE l

-----------------------------------------------------------------------------
(* The chunk worker.                                                            *)

\* _process_chunk: the chunk joins the buffer and, in screen mode, the screen.
TakeChunk ==
    /\ worker.pc = "idle" /\ chunks # <<>>
    /\ chunks' = Tail(chunks)
    /\ buffer' = Head(chunks)
    /\ screen' = IF Screen THEN Head(chunks) ELSE screen
    /\ worker' = [pc |-> "edge", look |-> Head(chunks), gen |-> input_gen]
    /\ UNCHANGED <<agent, latch, input_gen, cand, debounce, tasks, sender>>

\* Mutant: the screen path's edges for the raw path too.
RisingOnly == ~bursting

\* A chunk is detected at once on the rising edge and, in raw mode, as long as
\* PROCESSING is not what is latched.
DetectsNow == ~bursting \/ (~Screen /\ last \in Sticky \cup {"none"})

Edge ==
    /\ worker.pc = "edge"
    /\ bursting' = TRUE
    /\ timer' = IF timer = "set" THEN "popped" ELSE timer
    /\ worker' = [worker EXCEPT !.pc = IF DetectsNow THEN "detect" ELSE "arm"]
    /\ UNCHANGED <<agent, chunks, seen, latch, input_gen, cand, arming, tasks, sender>>

DetectEdge ==
    /\ worker.pc = "detect"
    /\ ApplyDetection(Detect(IF Screen THEN screen ELSE worker.look), worker.gen)
    /\ worker' = [worker EXCEPT !.pc = "arm"]
    /\ UNCHANGED <<agent, chunks, seen, input_gen, cand, debounce, tasks, sender>>

\* Mutant: no timer while the terminal works.
ArmWhenReady ==
    /\ worker.pc = "arm"
    /\ arming' = (arming \/ last # "PROCESSING") /\ worker' = Idle
    /\ UNCHANGED <<agent, chunks, seen, latch, input_gen, cand, bursting, timer, tasks, sender>>

Arm ==
    /\ worker.pc = "arm"
    /\ arming' = TRUE /\ worker' = Idle
    /\ UNCHANGED <<agent, chunks, seen, latch, input_gen, cand, bursting, timer, tasks, sender>>

Worker == TakeChunk \/ Edge \/ DetectEdge \/ Arm

-----------------------------------------------------------------------------
(* The event loop and the detections it spawns.                                 *)

MonitorOnly == UNCHANGED <<agent, chunks, seen, input_gen, sender, worker>>

\* The queued cancel of a popped timer.
CancelTimer ==
    /\ timer = "popped" /\ timer' = "none"
    /\ UNCHANGED <<latch, cand, bursting, arming, tasks>> /\ MonitorOnly

\* The queued _arm, which comes after the cancel: one timer, the latest.
RunArm ==
    /\ arming /\ arming' = FALSE /\ timer' = "set"
    /\ UNCHANGED <<latch, cand, bursting, tasks>> /\ MonitorOnly

\* A detection of look l begins: it ends at once, or overlaps what follows.
Spawn(l, polled) ==
    IF Lags
    THEN /\ Len(tasks) < MaxTasks
         /\ tasks' = Append(tasks, [look |-> l, gen |-> input_gen, polled |-> polled])
         /\ UNCHANGED latch
    ELSE /\ ApplyDetection(Detect(IF l = "unread" THEN screen ELSE l), input_gen)
         /\ UNCHANGED tasks

\* A poll that found a ready buffer drops the candidate of the rendered pane.
DropCandidate(g) == cand' = IF g = input_gen THEN <<>> ELSE cand

\* _on_raw_quiescent, _on_screen_quiescent.
Quiescent ==
    /\ timer # "none" /\ timer' = "none"
    /\ bursting' = FALSE
    /\ Spawn(IF Screen THEN "unread" ELSE buffer, FALSE)
    /\ UNCHANGED <<cand, arming>> /\ MonitorOnly

\* A screen detection reads the screen when its thread gets to run.
ReadScreen ==
    /\ \E i \in 1..Len(tasks) :
          tasks[i].look = "unread" /\ tasks' = [tasks EXCEPT ![i].look = screen]
    /\ UNCHANGED <<latch, cand, debounce>> /\ MonitorOnly

EndDetection ==
    /\ \E i \in 1..Len(tasks) :
          /\ tasks[i].look # "unread"
          /\ ApplyDetection(Detect(tasks[i].look), tasks[i].gen)
          /\ IF tasks[i].polled THEN DropCandidate(tasks[i].gen) ELSE UNCHANGED cand
          /\ tasks' = RemoveAt(tasks, i)
    /\ UNCHANGED debounce /\ MonitorOnly

Loop == CancelTimer \/ RunArm \/ Quiescent

\* get_status while PROCESSING is latched: a fresh detection of the buffer.
Poll ==
    /\ last = "PROCESSING" /\ buffer \in Sticky
    /\ Spawn(buffer, TRUE)
    /\ IF Lags THEN UNCHANGED cand ELSE DropCandidate(input_gen)
    /\ UNCHANGED debounce /\ MonitorOnly

\* Mutant: the first capture that looks ready is believed.
ConfirmedAtOnce(l) == TRUE

\* Two captures, apart by the cooldown, agree.
Confirmed(l) == cand = <<input_gen, l>>

\* get_status: the buffer still looks busy, so the pane is captured.  A footer
\* without a spinner is gone when the cooldown permits the next capture, and,
\* unless the monitor lags, so is output not yet processed.
Probe ==
    /\ Rendered /\ last = "PROCESSING" /\ buffer = "PROCESSING"
    /\ Lags \/ (chunks = <<>> /\ worker.pc = "idle")
    /\ blink' = FALSE
    /\ \/ /\ turn = "ready" \/ blink
          /\ \E l \in EndLooks \ {"IDLE"} :
                IF Confirmed(l)
                THEN cand' = <<>> /\ Spawn(l, FALSE)
                ELSE cand' = <<input_gen, l>> /\ UNCHANGED <<latch, tasks>>
       \/ cand' = <<>> /\ UNCHANGED <<latch, tasks>>
    /\ UNCHANGED <<turn, typed, begun, chunks, seen, input_gen, sender, worker, debounce>>

-----------------------------------------------------------------------------
(* send_input: notify_input_sent, clear_rolling_buffer, send_keys.              *)

SenderOnly == UNCHANGED <<turn, blink, begun, chunks, latch, debounce, worker, tasks>>

\* What the caller awaits: that the last input was answered (the web chat), a
\* ready status (the inbox), or nothing (a client of the API).
Admits ==
    CASE Gate = "cycle" -> last \in Sticky /\ ready_gen = input_gen
      [] Gate = "status" -> last \in {"IDLE", "COMPLETED"}
      [] Gate = "none" -> TRUE

CheckStatus(s) ==
    /\ sender[s] = "idle" /\ Admits
    /\ sender' = [sender EXCEPT ![s] = "checked"]
    /\ UNCHANGED <<typed, seen, input_gen, cand>> /\ SenderOnly

NotifyInputSent(s) ==
    /\ sender[s] = "checked" /\ input_gen < MaxInputs
    /\ input_gen' = input_gen + 1 /\ armed' = TRUE /\ cand' = <<>>
    /\ sender' = [sender EXCEPT ![s] = "notified"]
    /\ UNCHANGED <<agent, chunks, seen, last, ready_gen, debounce, worker, tasks>>

ClearRollingBuffer(s) ==
    /\ sender[s] = "notified"
    /\ buffer' = "empty"
    /\ sender' = [sender EXCEPT ![s] = "cleared"]
    /\ UNCHANGED <<typed, screen, input_gen, cand>> /\ SenderOnly

SendKeys(s) ==
    /\ sender[s] = "cleared"
    /\ typed' = typed + 1
    /\ sender' = [sender EXCEPT ![s] = "idle"]
    /\ UNCHANGED <<seen, input_gen, cand>> /\ SenderOnly

Next ==
    \/ Agent \/ Worker \/ Loop \/ ReadScreen \/ EndDetection \/ Poll \/ Probe
    \/ \E s \in Senders : \/ CheckStatus(s) \/ NotifyInputSent(s)
                          \/ ClearRollingBuffer(s) \/ SendKeys(s)

Spec == Init /\ [][Next]_vars

\* Threads are scheduled and the loop runs its callbacks; neither the agent, the
\* senders nor the pollers owe anything.
FairSpec ==
    /\ Spec
    /\ WF_vars(Worker) /\ WF_vars(CancelTimer) /\ WF_vars(RunArm)
    /\ WF_vars(Quiescent) /\ WF_vars(ReadScreen) /\ WF_vars(EndDetection)

-----------------------------------------------------------------------------
(* Properties.                                                                  *)

\* The inputs whose turn is over.
Ended == IF turn = "busy" /\ begun > 0 THEN begun - 1 ELSE begun

\* A generation is ready only once the turn of its input is over: a reply is
\* never taken for complete before it is ("A ready generation is recorded only
\* after that turn was observed PROCESSING and then reached a sticky ready state").
ReadyMeansTurnEnded == ready_gen <= Ended

\* Nothing left to process, detect or fire.
Quiet == chunks = <<>> /\ worker.pc = "idle" /\ timer = "none" /\ ~arming /\ tasks = <<>>

\* When all output has been detected a busy agent does not read ready ("reads
\* ready for the entire busy turn - exactly what InboxService must never paste
\* into"), unless it showed nothing since the server found it.
BusyNeverReadsReady == Quiet /\ turn = "busy" => last \notin Sticky

\* In screen mode, where a turn that begins within a burst has no edge of its own,
\* the latch is then at least open for the next frame that tells.
BusyNeverLatchedReady ==
    Quiet /\ turn = "busy" /\ last \in Sticky => armed

\* A revert is armed only for an input that is not answered: the arm of a turn
\* never outlives it, to let a redraw of a later one revert the status.
ArmIsForUnanswered == armed => ready_gen < input_gen

\* A ready terminal goes back to PROCESSING only for an input sent after the turn
\* it is ready for, whatever its redraws look like.
NoUnpromptedRevert ==
    [][(last \in Sticky /\ last' = "PROCESSING") => ready_gen < input_gen]_vars

\* COMPLETED is not lost to IDLE while nothing has been sent since ("COMPLETED ->
\* IDLE: the response marker evicts before the user marker").
CompletedIsKept ==
    [][(last = "COMPLETED" /\ last' = "IDLE") => ready_gen < input_gen]_vars

\* No input is on its way.
Unsent == \A s \in Senders : sender[s] \in {"idle", "checked"}

\* The turns of all inputs are over, one of them still unseen.
EndUnseen == turn = "ready" /\ begun = typed /\ Unsent /\ last = "PROCESSING"

\* The end of a turn is seen, unless another input is sent first.
EndIsSeen == EndUnseen ~> ~EndUnseen

\* When the agent stops redrawing, the quiescence timer alone sees the end: a
\* cancel that is queued on the loop while the worker arms anew never leaves a
\* burst without a timer.
TimerSeesEnd == <>[][~Redraw]_vars => EndIsSeen
=============================================================================
