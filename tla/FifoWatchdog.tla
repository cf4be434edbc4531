----------------------------- MODULE FifoWatchdog -----------------------------
(* The output path of tmux terminals: what a pane draws is piped to a FIFO, a     *)
(* reader thread batches it onto the event bus, and one watchdog thread compares  *)
(* the live pane with what the FIFO delivered (services/fifo_reader.py), re-arms  *)
(* a pipe that stalled and replays the screen (services/event_bus.py carries both *)
(* to the status monitor).  An action of a thread is one section under the lock,  *)
(* or one call outside it.                                                        *)
(*                                                                                *)
(* A screen is one of a few contents, 0 the blank one; output is the screen it    *)
(* draws, and the last output is all a later observer can tell.  What a capture   *)
(* of the pane returns is a screen as it is wrapped, which a client that attaches *)
(* or resizes changes without any output.  The pane, tmux's forwarder and the     *)
(* calls on tmux that fail are the environment.  What it may do beyond what the   *)
(* watchdog is made for is its roughness: a delivering pipe stalls in the         *)
(* interval in which it still delivered, or before the re-arm that worked was     *)
(* noted ("burst"), the pane changes while its own                                *)
(* check is under way ("mid_check"), a re-arm of a pipe that had delivered leaves *)
(* it silent ("dead"), the loop falls behind the bus ("load").                    *)
EXTENDS Naturals, Sequences, FiniteSets, Functions

CONSTANTS
    Terminals,
    Environments,       \* the sets of roughness considered
    Screens,            \* how many screens a pane may show
    Widths,             \* how many widths a pane may be wrapped to
    MaxDraws,           \* bound on screens drawn and resizes per terminal
    MaxFaults,          \* bound on stalls and failed calls
    BusSize,            \* event_bus_max_queue_size
    StallChecks,        \* PIPE_LIVENESS_STALL_CHECKS
    MaxColdStarts,      \* PIPE_LIVENESS_MAX_COLD_START_ATTEMPTS
    MaxProbeFailures,   \* PIPE_LIVENESS_MAX_PROBE_FAILURES
    MaxRearmFailures    \* PIPE_LIVENESS_MAX_REARM_FAILURES

ASSUME WatchdogAssumption ==
    /\ IsFiniteSet(Terminals)
    /\ Environments \subseteq SUBSET {"burst", "mid_check", "dead", "load"}
    /\ Screens \in Nat \ {0} /\ Widths \in Nat \ {0} /\ MaxDraws \in Nat /\ MaxFaults \in Nat
    /\ BusSize \in Nat \ {0} /\ StallChecks \in Nat \ {0}
    /\ MaxColdStarts \in Nat /\ MaxProbeFailures \in Nat \ {0}
    /\ MaxRearmFailures \in Nat \ {0}

VARIABLES
    rough,      \* what this environment may do
    \* tmux
    pane,       \* what a capture of each pane returns
    alive,      \* panes whose window exists
    pipe,       \* "off", "on", or "stalled": attached and forwarding nothing
    draws, faults,
    resized,    \* panes resized since a check last took what they show for good
    \* the FIFO and its reader thread
    fifo,       \* what the FIFO holds, 0 when it is empty
    batch,      \* what the reader has read and not published, 0 for nothing
    reader,     \* "none", "reading", "stopping" or "gone"
    readers,    \* _readers: the terminals registered
    late,       \* output unpublished since the watchdog went to sleep
    \* the dictionaries of the watchdog
    enrolled,           \* _pane_probe and _rearm
    fresh,              \* _last_data_at, as: at or after the last check
    aged,               \* _registered_at, as: the grace period is over
    ever_delivered, cold_start_attempts, liveness, rearm_failures, probe_failures,
    wd,         \* the watchdog thread: what it does, to whom, with what content
    todo,       \* the terminals left of its round
    bus,        \* what was published and the status monitor has not taken
    seen        \* the screen the status monitor last saw

tmux == <<pane, alive, pipe>>
env == <<rough, draws, faults, resized>>
thread == <<fifo, batch, reader, late>>
books == <<enrolled, fresh, aged, ever_delivered, cold_start_attempts, liveness,
           rearm_failures, probe_failures>>
vars == <<tmux, env, thread, readers, books, wd, todo, bus, seen>>

Frames == 0..Screens
Captures == [screen : Frames, wrap : 1..Widths]
Resting == [pc |-> "rest"]
Sleeping == [pc |-> "sleep"]

\* A Python dictionary: a function on the keys that are present.
Dict(S) == UNION {[K -> S] : K \in SUBSET Terminals}
Keys(d) == DOMAIN d
Put(d, t, v) == [x \in Keys(d) \cup {t} |-> IF x = t THEN v ELSE d[x]]
Pop(d, t) == Restrict(d, Keys(d) \ {t})
Get(d, t, default) == IF t \in Keys(d) THEN d[t] ELSE default
NoKeys == [t \in {} |-> 0]

TypeOK ==
    /\ rough \in Environments /\ faults \in 0..MaxFaults
    /\ pane \in [Terminals -> Captures] /\ alive \subseteq Terminals
    /\ resized \subseteq Terminals
    /\ pipe \in [Terminals -> {"off", "on", "stalled"}]
    /\ draws \in [Terminals -> 0..MaxDraws]
    /\ fifo \in [Terminals -> Frames] /\ batch \in [Terminals -> Frames]
    /\ reader \in [Terminals -> {"none", "reading", "stopping", "gone"}]
    /\ readers \subseteq Terminals /\ late \subseteq Terminals
    /\ enrolled \subseteq Terminals
    /\ fresh \in Dict(BOOLEAN) /\ aged \in Dict(BOOLEAN) /\ ever_delivered \in Dict(BOOLEAN)
    /\ cold_start_attempts \in Dict(1..MaxColdStarts)
    /\ liveness \in Dict([baseline : Captures, strikes : 0..(StallChecks - 1)])
    /\ rearm_failures \in Dict(1..(MaxRearmFailures - 1))
    /\ probe_failures \in Dict(1..(MaxProbeFailures - 1))
    /\ wd \in {Resting, Sleeping}
           \cup [pc : {"probe", "failed"}, t : Terminals]
           \cup [pc : {"judge", "rearm", "replay", "failed_rearm", "publish"},
                 t : Terminals, content : Captures]
    /\ todo \subseteq Terminals
    /\ bus \in Seq(Terminals \X Frames) /\ Len(bus) <= BusSize
    /\ seen \in [Terminals -> Frames]

\* No reader yet; the shells may have drawn their prompts.
Init ==
    /\ rough \in Environments /\ faults = 0 /\ resized = {}
    /\ pane \in [Terminals -> [screen : {0, 1}, wrap : {1}]] /\ alive = Terminals
    /\ pipe = [t \in Terminals |-> "off"] /\ draws = [t \in Terminals |-> 0]
    /\ fifo = [t \in Terminals |-> 0] /\ batch = [t \in Terminals |-> 0]
    /\ reader = [t \in Terminals |-> "none"] /\ readers = {} /\ late = {}
    /\ enrolled = {} /\ fresh = NoKeys /\ aged = NoKeys /\ ever_delivered = NoKeys
    /\ cold_start_attempts = NoKeys /\ liveness = NoKeys
    /\ rearm_failures = NoKeys /\ probe_failures = NoKeys
    /\ wd = Sleeping /\ todo = {} /\ bus = <<>>
    /\ seen = [t \in Terminals |-> 0]

-----------------------------------------------------------------------------
(* The event bus: order kept, dropped when the queue of the subscriber is full.   *)

Publish(t, c) ==
    \/ Len(bus) < BusSize /\ bus' = Append(bus, <<t, c>>)
    \/ Len(bus) = BusSize /\ UNCHANGED bus

\* The monitor takes the next event.
Consume ==
    /\ bus # <<>>
    /\ seen' = [seen EXCEPT ![Head(bus)[1]] = Head(bus)[2]]
    /\ bus' = Tail(bus)
    /\ UNCHANGED <<tmux, env, thread, readers, books, wd, todo>>

-----------------------------------------------------------------------------
(* tmux.                                                                          *)

UnderCheck(t) == wd \notin {Resting, Sleeping} /\ wd.t = t

Fault == faults < MaxFaults /\ faults' = faults + 1

NotTmux == UNCHANGED <<rough, resized, readers, books, wd, todo, bus, seen>>

Draw(t) ==
    /\ t \in alive /\ draws[t] < MaxDraws
    /\ "mid_check" \in rough \/ ~UnderCheck(t)
    /\ "load" \in rough \/ bus = <<>>
    /\ \E c \in 1..Screens :
          /\ c # pane[t].screen /\ pane' = [pane EXCEPT ![t].screen = c]
          /\ fifo' = IF pipe[t] = "on" THEN [fifo EXCEPT ![t] = c] ELSE fifo
    /\ draws' = [draws EXCEPT ![t] = @ + 1]
    /\ UNCHANGED <<alive, pipe, faults, batch, reader, late>> /\ NotTmux

\* A client attaches or is resized, and tmux wraps what stands in the pane anew.
Resize(t) ==
    /\ t \in alive /\ draws[t] < MaxDraws /\ pane[t].screen # 0
    /\ "mid_check" \in rough \/ ~UnderCheck(t)
    /\ \E w \in 1..Widths : w # pane[t].wrap /\ pane' = [pane EXCEPT ![t].wrap = w]
    /\ draws' = [draws EXCEPT ![t] = @ + 1] /\ resized' = resized \cup {t}
    /\ UNCHANGED <<alive, pipe, rough, faults, thread, readers, books, wd, todo, bus, seen>>

\* The forwarder stops forwarding; nothing reports it.
Stall(t) ==
    /\ pipe[t] = "on" /\ Fault
    /\ \/ "burst" \in rough
       \/ /\ fifo[t] = 0 /\ (Get(ever_delivered, t, FALSE) => ~Get(fresh, t, TRUE))
          /\ ~(wd.pc = "replay" /\ wd.t = t)
    /\ pipe' = [pipe EXCEPT ![t] = "stalled"]
    /\ UNCHANGED <<pane, alive, draws, thread>> /\ NotTmux

KillWindow(t) ==
    /\ t \in alive
    /\ alive' = alive \ {t} /\ pipe' = [pipe EXCEPT ![t] = "off"]
    /\ UNCHANGED <<pane, draws, faults, thread>> /\ NotTmux

\* pipe_pane, called after create_reader; the pipe may never start to forward.
Attach(t) ==
    /\ t \in readers \cap alive /\ pipe[t] = "off"
    /\ \/ pipe' = [pipe EXCEPT ![t] = "on"] /\ UNCHANGED faults
       \/ pipe' = [pipe EXCEPT ![t] = "stalled"] /\ Fault
    /\ UNCHANGED <<pane, alive, draws, thread>> /\ NotTmux

-----------------------------------------------------------------------------
(* create_reader and stop_reader.                                                 *)

\* A new terminal, or one restored at startup, whose screen seeds the monitor.
CreateReader(t, restored) ==
    /\ reader[t] = "none" /\ t \notin readers /\ t \in alive
    /\ readers' = readers \cup {t} /\ reader' = [reader EXCEPT ![t] = "reading"]
    /\ fresh' = Put(fresh, t, TRUE) /\ aged' = Put(aged, t, FALSE)
    /\ ever_delivered' = Put(ever_delivered, t, FALSE)
    /\ enrolled' = enrolled \cup {t}
    /\ seen' = IF restored THEN [seen EXCEPT ![t] = pane[t].screen] ELSE seen
    /\ UNCHANGED <<tmux, env, fifo, batch, late, cold_start_attempts, liveness,
                   rearm_failures, probe_failures, wd, todo, bus>>

\* Every dictionary forgets the terminal.  Those of the watchdog only:
Unwatch(t) ==
    /\ enrolled' = enrolled \ {t} /\ liveness' = Pop(liveness, t)
    /\ rearm_failures' = Pop(rearm_failures, t)
    /\ aged' = Pop(aged, t) /\ ever_delivered' = Pop(ever_delivered, t)
    /\ cold_start_attempts' = Pop(cold_start_attempts, t)

StopReader(t) ==
    /\ t \in readers
    /\ readers' = readers \ {t} /\ reader' = [reader EXCEPT ![t] = "stopping"]
    /\ Unwatch(t)
    /\ fresh' = Pop(fresh, t) /\ probe_failures' = Pop(probe_failures, t)
    /\ UNCHANGED <<tmux, env, fifo, batch, late, wd, todo, bus, seen>>

-----------------------------------------------------------------------------
(* _reader_loop.                                                                  *)

\* Mutant: data is noted whether or not the terminal is registered.
NotedAlways(t) ==
    fresh' = Put(fresh, t, TRUE) /\ ever_delivered' = Put(ever_delivered, t, TRUE)

NoteData(t) ==
    IF t \in readers
    THEN fresh' = Put(fresh, t, TRUE) /\ ever_delivered' = Put(ever_delivered, t, TRUE)
    ELSE UNCHANGED <<fresh, ever_delivered>>

\* Bytes are pulled off the FIFO, also by a reader that is being stopped.
Read(t) ==
    /\ reader[t] \in {"reading", "stopping"} /\ fifo[t] # 0
    /\ batch' = [batch EXCEPT ![t] = fifo[t]] /\ fifo' = [fifo EXCEPT ![t] = 0]
    /\ NoteData(t)
    /\ UNCHANGED <<tmux, env, reader, late, readers, enrolled, aged, cold_start_attempts, liveness,
                   rearm_failures, probe_failures, wd, todo, bus, seen>>

\* The window of a batch is over.
Flush(t) ==
    /\ reader[t] \in {"reading", "stopping"} /\ batch[t] # 0
    /\ Publish(t, batch[t]) /\ batch' = [batch EXCEPT ![t] = 0]
    /\ late' = IF fifo[t] = 0 THEN late \ {t} ELSE late
    /\ UNCHANGED <<tmux, env, fifo, reader, readers, books, wd, todo, seen>>

\* The stop flag is seen; what is pending is published still.
ReaderExits(t) ==
    /\ reader[t] = "stopping"
    /\ reader' = [reader EXCEPT ![t] = "gone"] /\ batch' = [batch EXCEPT ![t] = 0]
    /\ fifo' = [fifo EXCEPT ![t] = 0] /\ late' = late \ {t}
    /\ IF batch[t] = 0 THEN UNCHANGED bus ELSE Publish(t, batch[t])
    /\ UNCHANGED <<tmux, env, readers, books, wd, todo, seen>>

-----------------------------------------------------------------------------
(* _watchdog_loop and _check_pipe_liveness.                                       *)

NotWatchdog == UNCHANGED <<pane, alive, draws, rough, thread, readers, seen>>

\* Between two rounds the watchdog sleeps for an interval, far longer than a reader
\* needs to publish what is there, and, unless it falls behind, than the loop needs to
\* follow.
Sleep ==
    /\ wd = Resting /\ todo = {}
    /\ wd' = Sleeping
    /\ late' = {t \in Terminals : reader[t] \in {"reading", "stopping"}
                                /\ (fifo[t] # 0 \/ batch[t] # 0)}
    /\ UNCHANGED <<tmux, env, fifo, batch, reader, readers, books, todo, bus, seen>>

\* A round: the terminals enrolled now.
Wake ==
    /\ wd = Sleeping /\ late = {}
    /\ "load" \in rough \/ bus = <<>>
    /\ wd' = Resting /\ todo' = enrolled
    /\ UNCHANGED <<tmux, env, thread, readers, books, bus, seen>>

\* The grace period of a registration, or of a cold-start attempt, passes.
GracePasses(t) ==
    /\ t \in Keys(aged) /\ ~aged[t]
    /\ aged' = [aged EXCEPT ![t] = TRUE]
    /\ UNCHANGED <<tmux, env, thread, readers, enrolled, fresh, ever_delivered,
                   cold_start_attempts, liveness, rearm_failures, probe_failures, wd, todo,
                   bus, seen>>

\* The callbacks are read without the lock.
NextTerminal(t) ==
    /\ wd = Resting /\ t \in todo
    /\ todo' = todo \ {t}
    /\ wd' = IF t \in enrolled THEN [pc |-> "probe", t |-> t] ELSE Resting
    /\ UNCHANGED <<tmux, env, thread, readers, books, bus, seen>>

\* capture-pane, outside the lock.
Probe ==
    /\ wd.pc = "probe"
    /\ \/ /\ wd.t \in alive
          /\ wd' = [pc |-> "judge", t |-> wd.t, content |-> pane[wd.t]]
          /\ UNCHANGED faults
       \/ /\ wd.t \in alive /\ Fault
          /\ wd' = [pc |-> "failed", t |-> wd.t]
       \/ /\ wd.t \notin alive
          /\ wd' = [pc |-> "failed", t |-> wd.t]
          /\ UNCHANGED faults
    /\ UNCHANGED <<pipe, resized, books, todo, bus>> /\ NotWatchdog

NoteProbeFailure ==
    /\ wd.pc = "failed"
    /\ LET t == wd.t
           failures == Get(probe_failures, t, 0) + 1
       IN  IF t \notin enrolled THEN UNCHANGED books
           ELSE /\ IF failures >= MaxProbeFailures
                   THEN Unwatch(t) /\ probe_failures' = Pop(probe_failures, t)
                   ELSE /\ probe_failures' = Put(probe_failures, t, failures)
                        /\ UNCHANGED <<enrolled, liveness, rearm_failures, aged,
                                       ever_delivered, cold_start_attempts>>
                /\ UNCHANGED fresh
    /\ wd' = Resting
    /\ UNCHANGED <<pipe, faults, resized, todo, bus>> /\ NotWatchdog

\* Nothing has come through since the registration, and the pane shows something.
ColdStart(t, content) ==
    /\ t \in Keys(aged) /\ aged[t]
    /\ ~Get(ever_delivered, t, TRUE) /\ content.screen # 0

\* Mutant: the first diverging check is believed.
StalledAtOnce(strikes) == strikes >= 1

Stalled(strikes) == strikes >= StallChecks

\* Mutant: a silent check is compared with the check before it.
RebasedEntry(entry, content) == [baseline |-> content,
                                 strikes |-> IF content = entry.baseline THEN 0
                                             ELSE entry.strikes + 1]

\* A silent check: the baseline stays what it was when the pipe delivered.
SilentEntry(entry, content) == [entry EXCEPT !.strikes =
                                   IF content = entry.baseline THEN 0 ELSE @ + 1]

\* What a check does with a content, under the lock.  The first disjunct: the
\* terminal was unenrolled while its pane was probed.
Judged(t, content) ==
    LET attempts == Get(cold_start_attempts, t, 0) + 1
        unseen == t \notin Keys(liveness)
        entry == SilentEntry(liveness[t], content)
    IN  \/ /\ t \notin enrolled
           /\ wd' = Resting
           /\ UNCHANGED <<enrolled, fresh, aged, ever_delivered, cold_start_attempts, liveness,
                          rearm_failures, resized>>
        \/ /\ t \in enrolled /\ ColdStart(t, content) /\ attempts > MaxColdStarts
           /\ Unwatch(t) /\ wd' = Resting
           /\ UNCHANGED <<fresh, resized>>
        \/ /\ t \in enrolled /\ ColdStart(t, content) /\ attempts <= MaxColdStarts
           /\ cold_start_attempts' = Put(cold_start_attempts, t, attempts)
           /\ aged' = Put(aged, t, FALSE)
           /\ liveness' = Put(liveness, t, [baseline |-> content, strikes |-> 0])
           /\ fresh' = Put(fresh, t, FALSE) /\ resized' = resized \ {t}
           /\ wd' = [pc |-> "rearm", t |-> t, content |-> content]
           /\ UNCHANGED <<enrolled, ever_delivered, rearm_failures>>
        \/ /\ t \in enrolled /\ ~ColdStart(t, content) /\ (unseen \/ Get(fresh, t, FALSE))
           /\ liveness' = Put(liveness, t, [baseline |-> content, strikes |-> 0])
           /\ fresh' = Put(fresh, t, FALSE) /\ resized' = resized \ {t}
           /\ wd' = Resting
           /\ UNCHANGED <<enrolled, aged, ever_delivered, cold_start_attempts, rearm_failures>>
        \/ /\ t \in enrolled /\ ~ColdStart(t, content) /\ ~unseen /\ ~Get(fresh, t, FALSE)
           /\ liveness' = Put(liveness, t, IF Stalled(entry.strikes)
                                           THEN [entry EXCEPT !.strikes = 0] ELSE entry)
           /\ wd' = IF Stalled(entry.strikes)
                    THEN [pc |-> "rearm", t |-> t, content |-> content]
                    ELSE Resting
           /\ UNCHANGED <<enrolled, fresh, aged, ever_delivered, cold_start_attempts,
                          rearm_failures, resized>>

Judge ==
    /\ wd.pc = "judge"
    /\ Judged(wd.t, wd.content)
    /\ probe_failures' = Pop(probe_failures, wd.t)
    /\ UNCHANGED <<pipe, faults, todo, bus>> /\ NotWatchdog

\* stop_pipe_pane and pipe_pane, outside the lock.  A pipe that never delivered may
\* stay silent after it.
Rearm ==
    /\ wd.pc = "rearm"
    /\ \/ /\ wd.t \in alive
          /\ pipe' = [pipe EXCEPT ![wd.t] = "on"]
          /\ wd' = [wd EXCEPT !.pc = "replay"] /\ UNCHANGED faults
       \/ /\ wd.t \in alive /\ Fault
          /\ "dead" \in rough \/ (fifo[wd.t] = 0 /\ ~Get(ever_delivered, wd.t, TRUE))
          /\ pipe' = [pipe EXCEPT ![wd.t] = "stalled"]
          /\ wd' = [wd EXCEPT !.pc = "replay"]
       \/ /\ wd.t \in alive /\ Fault
          /\ wd' = [wd EXCEPT !.pc = "failed_rearm"] /\ UNCHANGED pipe
       \/ /\ wd.t \notin alive
          /\ wd' = [wd EXCEPT !.pc = "failed_rearm"] /\ UNCHANGED <<pipe, faults>>
    /\ UNCHANGED <<resized, books, todo, bus>> /\ NotWatchdog

NoteRearmFailure ==
    /\ wd.pc = "failed_rearm"
    /\ LET t == wd.t
           failures == Get(rearm_failures, t, 0) + 1
       IN  IF t \notin enrolled THEN UNCHANGED books
           ELSE /\ IF failures >= MaxRearmFailures THEN Unwatch(t)
                   ELSE /\ rearm_failures' = Put(rearm_failures, t, failures)
                        /\ UNCHANGED <<enrolled, liveness, aged, ever_delivered,
                                       cold_start_attempts>>
                /\ UNCHANGED <<fresh, probe_failures>>
    /\ wd' = Resting
    /\ UNCHANGED <<pipe, faults, resized, todo, bus>> /\ NotWatchdog

\* A successful re-arm counts as data.
NoteRearm ==
    /\ wd.pc = "replay"
    /\ IF wd.t \in enrolled
       THEN /\ fresh' = Put(fresh, wd.t, TRUE)
            /\ rearm_failures' = Pop(rearm_failures, wd.t)
            /\ wd' = [wd EXCEPT !.pc = "publish"]
       ELSE wd' = Resting /\ UNCHANGED <<fresh, rearm_failures>>
    /\ UNCHANGED <<enrolled, aged, ever_delivered, cold_start_attempts, liveness,
                   probe_failures, pipe, faults, resized, todo, bus>>
    /\ NotWatchdog

\* The screen that was probed is replayed, outside the lock.
Replay ==
    /\ wd.pc = "publish"
    /\ Publish(wd.t, wd.content.screen) /\ wd' = Resting
    /\ UNCHANGED <<pipe, faults, resized, books, todo>> /\ NotWatchdog

-----------------------------------------------------------------------------
Reader(t) == Read(t) \/ Flush(t) \/ ReaderExits(t)

Watchdog ==
    \/ Sleep \/ Wake \/ (\E t \in Terminals : NextTerminal(t))
    \/ Probe \/ NoteProbeFailure \/ Judge
    \/ Rearm \/ NoteRearmFailure \/ NoteRearm \/ Replay

Next ==
    \/ \E t \in Terminals :
          \/ Draw(t) \/ Resize(t) \/ Stall(t) \/ KillWindow(t) \/ Attach(t)
          \/ (\E restored \in BOOLEAN : CreateReader(t, restored)) \/ StopReader(t)
          \/ Reader(t) \/ GracePasses(t)
    \/ Consume \/ Watchdog

Spec == Init /\ [][Next]_vars

\* The threads run, the loop serves its queue, and a clock moves on.
FairSpec ==
    /\ Spec
    /\ \A t \in Terminals : WF_vars(Reader(t)) /\ WF_vars(GracePasses(t)) /\ WF_vars(Attach(t))
    /\ WF_vars(Consume) /\ WF_vars(Watchdog)

-----------------------------------------------------------------------------
(* Properties.                                                                    *)

\* No dictionary keeps an entry of a terminal that is not registered, although the
\* reader thread and the watchdog write to them after stop_reader may have run.
NoGhost ==
    UNION {enrolled, Keys(fresh), Keys(aged), Keys(ever_delivered), Keys(cold_start_attempts),
           Keys(liveness), Keys(rearm_failures), Keys(probe_failures)} \subseteq readers

\* Unless the environment is rough a screen that stays is seen, also when the pipe stalled or
\* never started: the watchdog re-arms it and replays the screen, unless it has
\* given the terminal up or the terminal is gone.
ScreenIsSeen ==
    \A t \in Terminals :
       rough = {} => <>[](t \in enrolled /\ t \in alive => seen[t] = pane[t].screen)

\* Unless the environment is rough, a pipe that has delivered and still forwards is left
\* alone, but where its pane was resized since a check last took it for good: what "an
\* attached client resizing the pane" changes is taken for a stall, "a stop/start on an
\* otherwise-idle pipe plus one snapshot replay".  Nothing else is, and once the re-arm
\* has succeeded the same resize is not again.
HealthyPipeLeftAlone ==
    [][\A t \in Terminals :
          rough = {} /\ wd.pc = "judge" /\ wd.t = t /\ wd'.pc = "rearm"
             => pipe[t] # "on" \/ ~Get(ever_delivered, t, TRUE) \/ t \in resized]_vars
-----------------------------------------------------------------------------
(* What HealthyPipeLeftAlone rests on, in an environment that is not rough.       *)

\* A pipe that has delivered, forwards, and has been silent since the last check, and
\* whose pane has kept its size; one that has just been re-armed is about to count as heard.
Silent(t) ==
    /\ t \in enrolled /\ Get(ever_delivered, t, TRUE) /\ pipe[t] = "on"
    /\ t \in Keys(liveness) /\ ~Get(fresh, t, FALSE) /\ t \notin resized
    /\ ~(UnderCheck(t) /\ wd.pc = "replay")

\* Its check of this round is still to come, or under way.
ToBeJudged(t) == t \in todo \/ (UnderCheck(t) /\ wd.pc \in {"probe", "judge"})

\* The pane of a silent pipe is as it was when it last delivered, or what has changed
\* is still in the FIFO.  It has a strike only for the latter, and no check judges it
\* again before the reader has come to it.
Trusted(t) ==
    Silent(t) =>
       /\ liveness[t].baseline = pane[t] \/ fifo[t] # 0
       /\ liveness[t].strikes # 0 =>
             fifo[t] # 0 /\ ~ToBeJudged(t) /\ (wd = Sleeping => t \in late)

\* A window without a pipe has delivered nothing, and has nothing to deliver.
NothingYet(t) ==
    pipe[t] = "off" /\ t \in alive => ~Get(ever_delivered, t, FALSE) /\ fifo[t] = 0

\* The terminal under check has left the round; it is judged by the screen it shows.
CheckedOnce == wd \notin {Resting, Sleeping} => wd.t \notin todo
JudgedAsShown == wd.pc = "judge" => wd.content = pane[wd.t]

\* Who is enrolled is registered and has a reader that reads.
Registered ==
    /\ NoGhost
    /\ \A t \in Terminals : t \in readers <=> reader[t] = "reading"
    /\ enrolled \subseteq Keys(ever_delivered)

Watched ==
    /\ Registered /\ CheckedOnce
    /\ \A t \in Terminals : NothingYet(t)
    /\ rough = {} => JudgedAsShown /\ \A t \in Terminals : Trusted(t)
=============================================================================
