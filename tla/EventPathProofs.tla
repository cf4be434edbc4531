---------------------------- MODULE EventPathProofs ----------------------------
(* Theorems about FifoWatchdog: what holds for every number of terminals, every   *)
(* bound and every environment; and, in sections of their own, about EventFeed:   *)
(* where every event is that the page has not shown; and about HerdrInbox: whose  *)
(* row an event of herdr may take.                                                *)
EXTENDS FifoWatchdog, FeedSide, HerdrInbox, FiniteSetTheorems, SequenceTheorems,
        WellFoundedInduction, TLAPS

\* Writing and forgetting a key.
LEMMA PutKeys ==
    ASSUME NEW d, NEW t, NEW v, NEW R, Keys(d) \subseteq R, t \in R
    PROVE  Keys(Put(d, t, v)) \subseteq R
BY DEF Put, Keys

LEMMA PopKeys ==
    ASSUME NEW d, NEW t, NEW R, Keys(d) \subseteq R
    PROVE  Keys(Pop(d, t)) \subseteq R /\ Keys(Pop(d, t)) \subseteq R \ {t}
BY DEF Pop, Keys, Restrict

\* NoGhost, dictionary by dictionary, for a given set of registered terminals.
Within(R) ==
    /\ enrolled \subseteq R /\ Keys(fresh) \subseteq R /\ Keys(aged) \subseteq R
    /\ Keys(ever_delivered) \subseteq R /\ Keys(cold_start_attempts) \subseteq R
    /\ Keys(liveness) \subseteq R /\ Keys(rearm_failures) \subseteq R
    /\ Keys(probe_failures) \subseteq R

LEMMA NoGhostIsWithin == NoGhost <=> Within(readers)
BY DEF NoGhost, Within

LEMMA UnwatchWithin ==
    ASSUME NEW t, Within(readers), Unwatch(t)
    PROVE  /\ enrolled' \subseteq readers \ {t} /\ Keys(aged)' \subseteq readers \ {t}
           /\ Keys(ever_delivered)' \subseteq readers \ {t}
           /\ Keys(cold_start_attempts)' \subseteq readers \ {t}
           /\ Keys(liveness)' \subseteq readers \ {t}
           /\ Keys(rearm_failures)' \subseteq readers \ {t}
BY PopKeys DEF Unwatch, Within

\* A reader that registers.
LEMMA CreateWithin ==
    ASSUME NEW t \in Terminals, NEW restored \in BOOLEAN, Within(readers),
           CreateReader(t, restored)
    PROVE  Within(readers)'
<1>1. Within(readers')
  BY DEF Within, CreateReader
<1>2. t \in readers'
  BY DEF CreateReader
<1> QED
  BY <1>1, <1>2, PutKeys DEF Within, CreateReader

LEMMA StopWithin ==
    ASSUME NEW t \in Terminals, Within(readers), StopReader(t)
    PROVE  Within(readers)'
BY UnwatchWithin, PopKeys DEF Within, StopReader

LEMMA ReadWithin ==
    ASSUME NEW t \in Terminals, Within(readers), Read(t)
    PROVE  Within(readers)'
BY PutKeys DEF Within, Read, NoteData

LEMMA ProbeFailureWithin ==
    ASSUME Within(readers), NoteProbeFailure
    PROVE  Within(readers)'
<1>1. CASE wd.t \notin enrolled
  BY <1>1 DEF Within, NoteProbeFailure, NotWatchdog, books
<1>2. CASE wd.t \in enrolled /\ Unwatch(wd.t)
           /\ probe_failures' = Pop(probe_failures, wd.t) /\ UNCHANGED <<fresh, readers>>
  BY <1>2, UnwatchWithin, PopKeys DEF Within
<1>3. CASE wd.t \in enrolled
           /\ (\E n : probe_failures' = Put(probe_failures, wd.t, n))
           /\ UNCHANGED <<enrolled, liveness, rearm_failures, aged, ever_delivered,
                          cold_start_attempts, fresh, readers>>
  BY <1>3, PutKeys DEF Within
<1> QED
  BY <1>1, <1>2, <1>3 DEF NoteProbeFailure, NotWatchdog

LEMMA RearmFailureWithin ==
    ASSUME Within(readers), NoteRearmFailure
    PROVE  Within(readers)'
<1>1. CASE wd.t \notin enrolled
  BY <1>1 DEF Within, NoteRearmFailure, NotWatchdog, books
<1>2. CASE wd.t \in enrolled /\ Unwatch(wd.t) /\ UNCHANGED <<fresh, probe_failures, readers>>
  BY <1>2, UnwatchWithin DEF Within
<1>3. CASE wd.t \in enrolled
           /\ (\E n : rearm_failures' = Put(rearm_failures, wd.t, n))
           /\ UNCHANGED <<enrolled, liveness, probe_failures, aged, ever_delivered,
                          cold_start_attempts, fresh, readers>>
  BY <1>3, PutKeys DEF Within
<1> QED
  BY <1>1, <1>2, <1>3 DEF NoteRearmFailure, NotWatchdog

LEMMA JudgeWithin ==
    ASSUME Within(readers), Judge
    PROVE  Within(readers)'
<1> DEFINE t == wd.t
<1>1. readers' = readers /\ Keys(probe_failures)' \subseteq readers
  BY PopKeys DEF Judge, NotWatchdog, Within
<1>2. CASE UNCHANGED <<enrolled, fresh, aged, ever_delivered, cold_start_attempts, liveness,
                       rearm_failures>>
  BY <1>1, <1>2 DEF Within
<1>3. CASE Unwatch(t) /\ UNCHANGED fresh
  BY <1>1, <1>3, UnwatchWithin DEF Within
<1>4. CASE /\ t \in enrolled
           /\ \E a, b, e, f : /\ cold_start_attempts' = Put(cold_start_attempts, t, a)
                              /\ aged' = Put(aged, t, b) /\ liveness' = Put(liveness, t, e)
                              /\ fresh' = Put(fresh, t, f)
           /\ UNCHANGED <<enrolled, ever_delivered, rearm_failures>>
  BY <1>1, <1>4, PutKeys DEF Within
<1>5. CASE /\ t \in enrolled
           /\ \E e, f : liveness' = Put(liveness, t, e) /\ fresh' = Put(fresh, t, f)
           /\ UNCHANGED <<enrolled, aged, ever_delivered, cold_start_attempts, rearm_failures>>
  BY <1>1, <1>5, PutKeys DEF Within
<1>6. CASE /\ t \in enrolled
           /\ \E e : liveness' = Put(liveness, t, e)
           /\ UNCHANGED <<enrolled, fresh, aged, ever_delivered, cold_start_attempts,
                          rearm_failures>>
  BY <1>1, <1>6, PutKeys DEF Within
<1>7. Judged(t, wd.content)
  BY DEF Judge
<1> QED
  BY <1>2, <1>3, <1>4, <1>5, <1>6, <1>7 DEF Judged

LEMMA NoteRearmWithin ==
    ASSUME Within(readers), NoteRearm
    PROVE  Within(readers)'
<1>1. CASE wd.t \in enrolled
  <2>1. /\ fresh' = Put(fresh, wd.t, TRUE) /\ rearm_failures' = Pop(rearm_failures, wd.t)
        /\ UNCHANGED <<enrolled, aged, ever_delivered, cold_start_attempts, liveness,
                       probe_failures, readers>>
    BY <1>1 DEF NoteRearm, NotWatchdog
  <2>2. wd.t \in readers
    BY <1>1 DEF Within
  <2> QED
    BY <2>1, <2>2, PutKeys, PopKeys DEF Within
<1>2. CASE wd.t \notin enrolled
  BY <1>2 DEF Within, NoteRearm, NotWatchdog
<1> QED
  BY <1>1, <1>2

\* Every step of the readers, of the watchdog and of their environment keeps the
\* dictionaries of fifo_reader.py within the registered terminals.
LEMMA NoGhostStep == Within(readers) /\ [Next]_vars => Within(readers)'
<1> SUFFICES ASSUME Within(readers), [Next]_vars
             PROVE  Within(readers)'
  OBVIOUS
<1> USE DEF Within
<1>1. CASE UNCHANGED vars
  BY <1>1 DEF vars, books
<1>2. ASSUME NEW t \in Terminals,
             Draw(t) \/ Resize(t) \/ Stall(t) \/ KillWindow(t) \/ Attach(t)
      PROVE  Within(readers)'
  BY <1>2 DEF Draw, Resize, Stall, KillWindow, Attach, NotTmux, books
<1>3. ASSUME NEW t \in Terminals, NEW restored \in BOOLEAN, CreateReader(t, restored)
      PROVE  Within(readers)'
  BY <1>3, CreateWithin
<1>4. ASSUME NEW t \in Terminals, StopReader(t)
      PROVE  Within(readers)'
  BY <1>4, StopWithin
<1>5. ASSUME NEW t \in Terminals, Reader(t)
      PROVE  Within(readers)'
  BY <1>5, ReadWithin DEF Reader, Flush, ReaderExits, books
<1>6. ASSUME NEW t \in Terminals, GracePasses(t)
      PROVE  Within(readers)'
  BY <1>6 DEF GracePasses, Keys
<1>7. CASE Consume
  BY <1>7 DEF Consume, books
<1>8. CASE Watchdog
  BY <1>8, ProbeFailureWithin, RearmFailureWithin, JudgeWithin, NoteRearmWithin
     DEF Watchdog, Sleep, Wake, NextTerminal, Probe, Rearm, Replay, NotWatchdog, books
<1> QED
  BY <1>1, <1>2, <1>3, <1>4, <1>5, <1>6, <1>7, <1>8 DEF Next

\* No dictionary of the FIFO manager outlives the registration of its terminal.
THEOREM SpecNoGhost == Spec => []NoGhost
<1>1. Init => Within(readers)
  BY DEF Init, Within, Keys, NoKeys
<1> QED
  BY <1>1, NoGhostStep, NoGhostIsWithin, PTL DEF Spec
-----------------------------------------------------------------------------
(* The types.                                                                     *)

LEMMA DictPut ==
    ASSUME NEW S, NEW d \in Dict(S), NEW t \in Terminals, NEW v \in S
    PROVE  Put(d, t, v) \in Dict(S)
<1>1. PICK K \in SUBSET Terminals : d \in [K -> S]
  BY DEF Dict
<1>2. Put(d, t, v) \in [K \cup {t} -> S]
  BY <1>1 DEF Put, Keys
<1> QED
  BY <1>2 DEF Dict

LEMMA DictPop ==
    ASSUME NEW S, NEW d \in Dict(S), NEW t
    PROVE  Pop(d, t) \in Dict(S)
<1>1. PICK K \in SUBSET Terminals : d \in [K -> S]
  BY DEF Dict
<1>2. Pop(d, t) \in [K \ {t} -> S]
  BY <1>1 DEF Pop, Keys, Restrict
<1> QED
  BY <1>2 DEF Dict

LEMMA DictHas ==
    ASSUME NEW S, NEW d \in Dict(S), NEW t \in Keys(d)
    PROVE  d[t] \in S /\ t \in Terminals
BY DEF Dict, Keys

LEMMA DictGet ==
    ASSUME NEW S, NEW d \in Dict(S), NEW t, NEW v, v \in S \/ t \in Keys(d)
    PROVE  Get(d, t, v) \in S
BY DictHas DEF Get

LEMMA NoKeysInDict ==
    ASSUME NEW S
    PROVE  NoKeys \in Dict(S)
<1>1. NoKeys \in [{} -> S]
  BY DEF NoKeys
<1> QED
  BY <1>1 DEF Dict

\* What is published is an event of the bus.
LEMMA PublishType ==
    ASSUME bus \in Seq(Terminals \X Frames), Len(bus) <= BusSize,
           NEW t \in Terminals, NEW c \in Frames, Publish(t, c)
    PROVE  bus' \in Seq(Terminals \X Frames) /\ Len(bus') <= BusSize
<1>1. <<t, c>> \in Terminals \X Frames
  OBVIOUS
<1>2. CASE Len(bus) < BusSize /\ bus' = Append(bus, <<t, c>>)
  BY <1>1, <1>2, WatchdogAssumption
<1>3. CASE UNCHANGED bus
  BY <1>3
<1> QED
  BY <1>2, <1>3 DEF Publish

\* What the watchdog is doing, by kind.
Probing == [pc : {"probe", "failed"}, t : Terminals]
Checking == [pc : {"judge", "rearm", "replay", "failed_rearm", "publish"},
             t : Terminals, content : Captures]

\* The types, for the books of the watchdog and for the rest.
BooksOK ==
    /\ enrolled \subseteq Terminals
    /\ fresh \in Dict(BOOLEAN) /\ aged \in Dict(BOOLEAN) /\ ever_delivered \in Dict(BOOLEAN)
    /\ cold_start_attempts \in Dict(1..MaxColdStarts)
    /\ liveness \in Dict([baseline : Captures, strikes : 0..(StallChecks - 1)])
    /\ rearm_failures \in Dict(1..(MaxRearmFailures - 1))
    /\ probe_failures \in Dict(1..(MaxProbeFailures - 1))

RestOK ==
    /\ rough \in Environments /\ faults \in 0..MaxFaults
    /\ pane \in [Terminals -> Captures] /\ alive \subseteq Terminals
    /\ resized \subseteq Terminals
    /\ pipe \in [Terminals -> {"off", "on", "stalled"}]
    /\ draws \in [Terminals -> 0..MaxDraws]
    /\ fifo \in [Terminals -> Frames] /\ batch \in [Terminals -> Frames]
    /\ reader \in [Terminals -> {"none", "reading", "stopping", "gone"}]
    /\ readers \subseteq Terminals /\ late \subseteq Terminals
    /\ wd \in {Resting, Sleeping} \cup Probing \cup Checking
    /\ todo \subseteq Terminals
    /\ bus \in Seq(Terminals \X Frames) /\ Len(bus) <= BusSize
    /\ seen \in [Terminals -> Frames]

LEMMA TypesSplit == TypeOK <=> BooksOK /\ RestOK
BY DEF TypeOK, BooksOK, RestOK, Probing, Checking

LEMMA UnwatchType ==
    ASSUME BooksOK, NEW t, Unwatch(t)
    PROVE  /\ enrolled' \subseteq Terminals /\ aged' \in Dict(BOOLEAN)
           /\ ever_delivered' \in Dict(BOOLEAN)
           /\ cold_start_attempts' \in Dict(1..MaxColdStarts)
           /\ liveness' \in Dict([baseline : Captures, strikes : 0..(StallChecks - 1)])
           /\ rearm_failures' \in Dict(1..(MaxRearmFailures - 1))
BY DictPop DEF Unwatch, BooksOK

\* A capture of a pane has a screen, and stays one when another is drawn or wrapped anew.
LEMMA CaptureType ==
    ASSUME NEW c \in Captures
    PROVE  /\ c.screen \in Frames
           /\ \A s \in Frames : [c EXCEPT !.screen = s] \in Captures
           /\ \A w \in 1..Widths : [c EXCEPT !.wrap = w] \in Captures
BY DEF Captures

LEMMA BooksKept == BooksOK /\ UNCHANGED books => BooksOK'
BY DEF BooksOK, books

LEMMA CreateType ==
    ASSUME BooksOK, RestOK, NEW t \in Terminals, NEW restored \in BOOLEAN,
           CreateReader(t, restored)
    PROVE  BooksOK' /\ RestOK'
<1>1. BooksOK'
  BY DictPut DEF CreateReader, BooksOK
<1>2. pane[t].screen \in Frames
  BY CaptureType DEF RestOK
<1>3. RestOK'
  BY <1>2 DEF CreateReader, RestOK, tmux, env
<1> QED
  BY <1>1, <1>3

LEMMA StopType ==
    ASSUME BooksOK, RestOK, NEW t \in Terminals, StopReader(t)
    PROVE  BooksOK' /\ RestOK'
<1>1. BooksOK'
  BY UnwatchType, DictPop DEF StopReader, BooksOK
<1>2. RestOK'
  BY DEF StopReader, RestOK, tmux, env
<1> QED
  BY <1>1, <1>2

LEMMA ReadType ==
    ASSUME BooksOK, RestOK, NEW t \in Terminals, Read(t)
    PROVE  BooksOK' /\ RestOK'
<1>1. BooksOK'
  BY DictPut DEF Read, NoteData, BooksOK
<1>2. RestOK'
  BY WatchdogAssumption DEF Read, RestOK, tmux, env, Frames
<1> QED
  BY <1>1, <1>2

LEMMA FlushType ==
    ASSUME BooksOK, RestOK, NEW t \in Terminals, Flush(t) \/ ReaderExits(t)
    PROVE  BooksOK' /\ RestOK'
<1>1. BooksOK'
  BY BooksKept DEF Flush, ReaderExits
<1>2. bus' \in Seq(Terminals \X Frames) /\ Len(bus') <= BusSize
  <2>1. batch[t] \in Frames
    BY DEF RestOK
  <2> QED
    BY <2>1, PublishType DEF Flush, ReaderExits, RestOK
<1>3. 0 \in Frames
  BY WatchdogAssumption DEF Frames
<1>4. CASE Flush(t)
  <2>1. batch' \in [Terminals -> Frames] /\ late' \subseteq Terminals
    BY <1>3, <1>4 DEF Flush, RestOK
  <2> QED
    BY <1>1, <1>2, <1>4, <2>1 DEF Flush, RestOK, tmux, env
<1>5. CASE ReaderExits(t)
  <2>1. /\ batch' \in [Terminals -> Frames] /\ fifo' \in [Terminals -> Frames]
        /\ late' \subseteq Terminals
        /\ reader' \in [Terminals -> {"none", "reading", "stopping", "gone"}]
    BY <1>3, <1>5 DEF ReaderExits, RestOK
  <2> QED
    BY <1>1, <1>2, <1>5, <2>1 DEF ReaderExits, RestOK, tmux, env
<1> QED
  BY <1>1, <1>4, <1>5

LEMMA TmuxType ==
    ASSUME BooksOK, RestOK, NEW t \in Terminals,
           Draw(t) \/ Resize(t) \/ Stall(t) \/ KillWindow(t) \/ Attach(t)
    PROVE  BooksOK' /\ RestOK'
<1>1. BooksOK'
  BY BooksKept DEF Draw, Resize, Stall, KillWindow, Attach, NotTmux
<1>2. CASE Draw(t)
  <2>1. PICK c \in 1..Screens : /\ pane' = [pane EXCEPT ![t].screen = c]
                                /\ fifo' = IF pipe[t] = "on" THEN [fifo EXCEPT ![t] = c] ELSE fifo
    BY <1>2 DEF Draw
  <2>2. c \in Frames
    BY WatchdogAssumption DEF Frames
  <2>3. draws' \in [Terminals -> 0..MaxDraws]
    <3>1. draws[t] < MaxDraws /\ draws' = [draws EXCEPT ![t] = draws[t] + 1]
      BY <1>2 DEF Draw
    <3>2. draws \in [Terminals -> 0..MaxDraws] /\ MaxDraws \in Nat
      BY WatchdogAssumption DEF RestOK
    <3>3. draws[t] + 1 \in 0..MaxDraws
      BY <3>1, <3>2
    <3> QED
      BY <3>1, <3>2, <3>3
  <2>4. pane' \in [Terminals -> Captures]
    <3>1. [pane[t] EXCEPT !.screen = c] \in Captures
      BY <2>2, CaptureType DEF RestOK
    <3>2. pane' = [pane EXCEPT ![t] = [pane[t] EXCEPT !.screen = c]]
      BY <2>1
    <3> QED
      BY <3>1, <3>2 DEF RestOK
  <2> QED
    BY <1>1, <1>2, <2>1, <2>2, <2>3, <2>4 DEF Draw, NotTmux, RestOK
<1>7. CASE Resize(t)
  <2>1. PICK w \in 1..Widths : pane' = [pane EXCEPT ![t].wrap = w]
    BY <1>7 DEF Resize
  <2>2. pane' \in [Terminals -> Captures]
    <3>1. [pane[t] EXCEPT !.wrap = w] \in Captures
      BY <2>1, CaptureType DEF RestOK
    <3>2. pane' = [pane EXCEPT ![t] = [pane[t] EXCEPT !.wrap = w]]
      BY <2>1
    <3> QED
      BY <3>1, <3>2 DEF RestOK
  <2>3. draws' \in [Terminals -> 0..MaxDraws]
    <3>1. draws[t] < MaxDraws /\ draws' = [draws EXCEPT ![t] = draws[t] + 1]
      BY <1>7 DEF Resize
    <3>2. draws \in [Terminals -> 0..MaxDraws] /\ MaxDraws \in Nat
      BY WatchdogAssumption DEF RestOK
    <3>3. draws[t] + 1 \in 0..MaxDraws
      BY <3>1, <3>2
    <3> QED
      BY <3>1, <3>2, <3>3
  <2> QED
    BY <1>1, <1>7, <2>2, <2>3 DEF Resize, RestOK, thread
<1>3. Fault => faults' \in 0..MaxFaults
  BY WatchdogAssumption DEF Fault, RestOK
<1>4. CASE Stall(t)
  BY <1>1, <1>3, <1>4 DEF Stall, NotTmux, RestOK, thread
<1>5. CASE KillWindow(t)
  BY <1>1, <1>5 DEF KillWindow, NotTmux, RestOK, thread
<1>6. CASE Attach(t)
  BY <1>1, <1>3, <1>6 DEF Attach, NotTmux, RestOK, thread
<1> QED
  BY <1>2, <1>4, <1>5, <1>6, <1>7

LEMMA QuietType ==
    ASSUME BooksOK, RestOK
    PROVE  /\ Consume \/ Sleep \/ Wake => BooksOK' /\ RestOK'
           /\ \A t \in Terminals : GracePasses(t) \/ NextTerminal(t) => BooksOK' /\ RestOK'
<1>1. Consume => BooksOK' /\ RestOK'
  <2> SUFFICES ASSUME Consume PROVE BooksOK' /\ RestOK'
    OBVIOUS
  <2>1. Head(bus) \in Terminals \X Frames /\ Tail(bus) \in Seq(Terminals \X Frames)
        /\ Len(Tail(bus)) <= BusSize
    BY WatchdogAssumption DEF Consume, RestOK
  <2>2. seen' \in [Terminals -> Frames]
    BY <2>1 DEF Consume, RestOK
  <2> QED
    BY <2>1, <2>2, BooksKept DEF Consume, RestOK, tmux, env, thread
<1>2. Sleep \/ Wake => BooksOK' /\ RestOK'
  BY BooksKept DEF Sleep, Wake, RestOK, BooksOK, tmux, env, thread
<1>3. ASSUME NEW t \in Terminals, GracePasses(t) PROVE BooksOK' /\ RestOK'
  <2>1. aged' \in Dict(BOOLEAN)
    BY <1>3 DEF GracePasses, BooksOK, Dict, Keys
  <2> QED
    BY <1>3, <2>1 DEF GracePasses, BooksOK, RestOK, tmux, env, thread
<1>4. ASSUME NEW t \in Terminals, NextTerminal(t) PROVE BooksOK' /\ RestOK'
  <2>1. [pc |-> "probe", t |-> t] \in Probing
    BY DEF Probing
  <2> QED
    BY <1>4, <2>1, BooksKept DEF NextTerminal, RestOK, tmux, env, thread
<1> QED
  BY <1>1, <1>2, <1>3, <1>4
\* The watchdog's own steps: what it does next is again one of its kinds.
LEMMA ProbeType ==
    ASSUME BooksOK, RestOK, Probe
    PROVE  BooksOK' /\ RestOK'
<1>1. wd \in Probing
  BY DEF Probe, RestOK, Resting, Sleeping, Checking
<1>2. wd.t \in Terminals /\ pane[wd.t] \in Captures
  BY <1>1 DEF Probing, RestOK
<1>3. wd' \in Probing \cup Checking
  BY <1>2 DEF Probe, Probing, Checking
<1>4. faults' \in 0..MaxFaults
  BY WatchdogAssumption DEF Probe, Fault, RestOK
<1> QED
  BY <1>3, <1>4, BooksKept DEF Probe, NotWatchdog, RestOK, thread

LEMMA FailedProbeType ==
    ASSUME BooksOK, RestOK, NoteProbeFailure
    PROVE  BooksOK' /\ RestOK'
<1> DEFINE t == wd.t
           failures == Get(probe_failures, t, 0) + 1
<1>1. t \in Terminals
  BY DEF NoteProbeFailure, RestOK, Resting, Sleeping, Checking, Probing
<1>2. RestOK'
  BY DEF NoteProbeFailure, NotWatchdog, RestOK, thread
<1>3. CASE t \notin enrolled
  BY <1>2, <1>3, BooksKept DEF NoteProbeFailure
<1>4. CASE t \in enrolled /\ failures >= MaxProbeFailures
  BY <1>2, <1>4, UnwatchType, DictPop DEF NoteProbeFailure, BooksOK
<1>5. CASE t \in enrolled /\ ~(failures >= MaxProbeFailures)
  <2>1. Get(probe_failures, t, 0) \in 0..(MaxProbeFailures - 1)
    BY DictHas, WatchdogAssumption DEF Get, BooksOK
  <2>2. failures \in 1..(MaxProbeFailures - 1)
    BY <1>5, <2>1, WatchdogAssumption
  <2>3. probe_failures' = Put(probe_failures, t, failures)
        /\ UNCHANGED <<enrolled, liveness, rearm_failures, aged, ever_delivered,
                       cold_start_attempts, fresh>>
    BY <1>5 DEF NoteProbeFailure
  <2>4. probe_failures' \in Dict(1..(MaxProbeFailures - 1))
    BY <1>1, <2>2, <2>3, DictPut DEF BooksOK
  <2> QED
    BY <1>2, <2>3, <2>4 DEF BooksOK
<1> QED
  BY <1>3, <1>4, <1>5

LEMMA FailedRearmType ==
    ASSUME BooksOK, RestOK, NoteRearmFailure
    PROVE  BooksOK' /\ RestOK'
<1> DEFINE t == wd.t
           failures == Get(rearm_failures, t, 0) + 1
<1>1. t \in Terminals
  BY DEF NoteRearmFailure, RestOK, Resting, Sleeping, Checking, Probing
<1>2. RestOK'
  BY DEF NoteRearmFailure, NotWatchdog, RestOK, thread
<1>3. CASE t \notin enrolled
  BY <1>2, <1>3, BooksKept DEF NoteRearmFailure
<1>4. CASE t \in enrolled /\ failures >= MaxRearmFailures
  BY <1>2, <1>4, UnwatchType DEF NoteRearmFailure, BooksOK
<1>5. CASE t \in enrolled /\ ~(failures >= MaxRearmFailures)
  <2>1. Get(rearm_failures, t, 0) \in 0..(MaxRearmFailures - 1)
    BY DictHas, WatchdogAssumption DEF Get, BooksOK
  <2>2. failures \in 1..(MaxRearmFailures - 1)
    BY <1>5, <2>1, WatchdogAssumption
  <2>3. rearm_failures' = Put(rearm_failures, t, failures)
        /\ UNCHANGED <<enrolled, liveness, probe_failures, aged, ever_delivered,
                       cold_start_attempts, fresh>>
    BY <1>5 DEF NoteRearmFailure
  <2>4. rearm_failures' \in Dict(1..(MaxRearmFailures - 1))
    BY <1>1, <2>2, <2>3, DictPut DEF BooksOK
  <2> QED
    BY <1>2, <2>3, <2>4 DEF BooksOK
<1> QED
  BY <1>3, <1>4, <1>5

LEMMA RearmType ==
    ASSUME BooksOK, RestOK, Rearm \/ NoteRearm \/ Replay
    PROVE  BooksOK' /\ RestOK'
<1>1. wd \in Checking
  <2>1. wd.pc \in {"rearm", "replay", "publish"}
    BY DEF Rearm, NoteRearm, Replay
  <2> QED
    BY <2>1 DEF RestOK, Resting, Sleeping, Probing
<1>2. wd.t \in Terminals /\ wd.content.screen \in Frames
  BY <1>1, CaptureType DEF Checking
<1>3. \A p \in {"replay", "failed_rearm", "publish"} : [wd EXCEPT !.pc = p] \in Checking
  BY <1>1 DEF Checking
<1>4. CASE Rearm
  <2>1. wd' \in Checking
    BY <1>3, <1>4 DEF Rearm
  <2>2. faults' \in 0..MaxFaults
    <3>1. Fault \/ UNCHANGED faults
      BY <1>4 DEF Rearm
    <3> QED
      BY <3>1, WatchdogAssumption DEF Fault, RestOK
  <2>3. pipe' \in [Terminals -> {"off", "on", "stalled"}]
    BY <1>4 DEF Rearm, RestOK
  <2> QED
    BY <1>4, <2>1, <2>2, <2>3, BooksKept DEF Rearm, NotWatchdog, RestOK, thread
<1>5. CASE NoteRearm
  <2>1. wd' \in Checking \cup {Resting}
    BY <1>3, <1>5 DEF NoteRearm
  <2>2. /\ fresh' = Put(fresh, wd.t, TRUE) \/ fresh' = fresh
        /\ rearm_failures' = Pop(rearm_failures, wd.t) \/ rearm_failures' = rearm_failures
    BY <1>5 DEF NoteRearm
  <2>3. fresh' \in Dict(BOOLEAN) /\ rearm_failures' \in Dict(1..(MaxRearmFailures - 1))
    BY <1>2, <2>2, DictPut, DictPop DEF BooksOK
  <2> QED
    BY <1>5, <2>1, <2>3 DEF NoteRearm, NotWatchdog, BooksOK, RestOK, thread
<1>6. CASE Replay
  <2>1. bus' \in Seq(Terminals \X Frames) /\ Len(bus') <= BusSize
    BY <1>2, <1>6, PublishType DEF Replay, RestOK
  <2> QED
    BY <1>6, <2>1, BooksKept DEF Replay, NotWatchdog, RestOK, thread
<1> QED
  BY <1>4, <1>5, <1>6

\* What a silent check leaves of an entry keeps its type, and its baseline.
LEMMA EntryType ==
    ASSUME NEW entry \in [baseline : Captures, strikes : 0..(StallChecks - 1)],
           NEW content \in Captures,
           NEW e, e = SilentEntry(entry, content)
    PROVE  /\ e.baseline = entry.baseline
           /\ e.strikes = IF content = entry.baseline THEN 0 ELSE entry.strikes + 1
           /\ [e EXCEPT !.strikes = 0] \in [baseline : Captures, strikes : 0..(StallChecks - 1)]
           /\ ~Stalled(e.strikes) => e \in [baseline : Captures, strikes : 0..(StallChecks - 1)]
<1> DEFINE n == IF content = entry.baseline THEN 0 ELSE entry.strikes + 1
<1>1. e = [entry EXCEPT !.strikes = n]
  BY DEF SilentEntry
<1>2. n \in Nat /\ entry.baseline \in Captures
  OBVIOUS
<1>3. e = [baseline |-> entry.baseline, strikes |-> n]
  BY <1>1
<1>4. e.baseline = entry.baseline /\ e.strikes = n
  BY <1>3
<1>5. ~Stalled(n) => n \in 0..(StallChecks - 1)
  BY <1>2, WatchdogAssumption DEF Stalled
<1>6. [e EXCEPT !.strikes = 0] = [baseline |-> entry.baseline, strikes |-> 0]
  BY <1>3
<1> QED
  BY <1>2, <1>3, <1>4, <1>5, <1>6, WatchdogAssumption

LEMMA JudgeType ==
    ASSUME BooksOK, RestOK, Judge
    PROVE  BooksOK' /\ RestOK'
<1> DEFINE t == wd.t
           content == wd.content
           attempts == Get(cold_start_attempts, t, 0) + 1
           entry == SilentEntry(liveness[t], content)
           Entries == [baseline : Captures, strikes : 0..(StallChecks - 1)]
<1>1. wd \in Checking
  BY DEF Judge, RestOK, Resting, Sleeping, Probing
<1>2. t \in Terminals /\ content \in Captures
  BY <1>1 DEF Checking
<1>3. Judged(t, content) /\ probe_failures' \in Dict(1..(MaxProbeFailures - 1))
  BY DictPop DEF Judge, BooksOK
<1>0. resized' \subseteq Terminals
  BY <1>3 DEF Judged, RestOK
<1>4. ASSUME wd' \in Checking \cup {Resting} PROVE RestOK'
  BY <1>0, <1>4 DEF Judge, NotWatchdog, RestOK, thread
<1>5. [pc |-> "rearm", t |-> t, content |-> content] \in Checking
  BY <1>2 DEF Checking
<1>6. [baseline |-> content, strikes |-> 0] \in Entries
  BY <1>2, WatchdogAssumption
<1>7. CASE wd' = Resting /\ UNCHANGED <<enrolled, fresh, aged, ever_delivered,
                                        cold_start_attempts, liveness, rearm_failures>>
  BY <1>3, <1>4, <1>7 DEF BooksOK
<1>8. CASE Unwatch(t) /\ wd' = Resting /\ UNCHANGED fresh
  BY <1>3, <1>4, <1>8, UnwatchType DEF BooksOK
<1>9. CASE /\ attempts <= MaxColdStarts
           /\ cold_start_attempts' = Put(cold_start_attempts, t, attempts)
           /\ aged' = Put(aged, t, FALSE)
           /\ liveness' = Put(liveness, t, [baseline |-> content, strikes |-> 0])
           /\ fresh' = Put(fresh, t, FALSE)
           /\ wd' = [pc |-> "rearm", t |-> t, content |-> content]
           /\ UNCHANGED <<enrolled, ever_delivered, rearm_failures>>
  <2>1. Get(cold_start_attempts, t, 0) \in 0..MaxColdStarts
    BY DictHas, WatchdogAssumption DEF Get, BooksOK
  <2>2. attempts \in 1..MaxColdStarts
    BY <1>9, <2>1, WatchdogAssumption
  <2> HIDE DEF attempts
  <2> QED
    BY <1>2, <1>3, <1>4, <1>5, <1>6, <1>9, <2>2, DictPut DEF BooksOK
<1>10. CASE /\ liveness' = Put(liveness, t, [baseline |-> content, strikes |-> 0])
            /\ fresh' = Put(fresh, t, FALSE) /\ wd' = Resting
            /\ UNCHANGED <<enrolled, aged, ever_delivered, cold_start_attempts, rearm_failures>>
  BY <1>2, <1>3, <1>4, <1>6, <1>10, DictPut DEF BooksOK
<1>11. CASE /\ t \in Keys(liveness)
            /\ liveness' = Put(liveness, t, IF Stalled(entry.strikes)
                                            THEN [entry EXCEPT !.strikes = 0] ELSE entry)
            /\ wd' \in {Resting, [pc |-> "rearm", t |-> t, content |-> content]}
            /\ UNCHANGED <<enrolled, fresh, aged, ever_delivered, cold_start_attempts,
                           rearm_failures>>
  <2>1. liveness[t] \in Entries
    BY <1>11, DictHas DEF BooksOK
  <2>2. (IF Stalled(entry.strikes) THEN [entry EXCEPT !.strikes = 0] ELSE entry) \in Entries
    BY <1>2, <2>1, EntryType
  <2> HIDE DEF entry
  <2> QED
    BY <1>2, <1>3, <1>4, <1>5, <1>11, <2>2, DictPut DEF BooksOK
<1> QED
  BY <1>3, <1>7, <1>8, <1>9, <1>10, <1>11 DEF Judged

LEMMA TypeStep == TypeOK /\ [Next]_vars => TypeOK'
<1> SUFFICES ASSUME BooksOK, RestOK, [Next]_vars
             PROVE  BooksOK' /\ RestOK'
  BY TypesSplit DEF TypeOK, BooksOK, RestOK, Probing, Checking
<1>1. CASE UNCHANGED vars
  BY <1>1, BooksKept DEF vars, RestOK, tmux, env, thread
<1>2. ASSUME NEW t \in Terminals,
             Draw(t) \/ Resize(t) \/ Stall(t) \/ KillWindow(t) \/ Attach(t)
      PROVE  BooksOK' /\ RestOK'
  BY <1>2, TmuxType
<1>3. ASSUME NEW t \in Terminals,
             (\E restored \in BOOLEAN : CreateReader(t, restored)) \/ StopReader(t)
      PROVE  BooksOK' /\ RestOK'
  BY <1>3, CreateType, StopType
<1>4. ASSUME NEW t \in Terminals, Reader(t)
      PROVE  BooksOK' /\ RestOK'
  BY <1>4, ReadType, FlushType DEF Reader
<1>5. CASE Consume \/ \E t \in Terminals : GracePasses(t)
  BY <1>5, QuietType
<1>6. CASE Watchdog
  BY <1>6, QuietType, ProbeType, FailedProbeType, FailedRearmType, RearmType, JudgeType
     DEF Watchdog
<1> QED
  BY <1>1, <1>2, <1>3, <1>4, <1>5, <1>6 DEF Next

\* What the FIFO readers, the bus and the watchdog of fifo_reader.py keep has its type:
\* every dictionary is one of terminals, and its counters stay below their limits.
THEOREM SpecTypeOK == Spec => []TypeOK
<1>1. Init => TypeOK
  <2> SUFFICES ASSUME Init PROVE BooksOK /\ RestOK
    BY TypesSplit
  <2>1. 0 \in Frames /\ 0 \in 0..MaxFaults /\ 0 \in 0..MaxDraws /\ {0, 1} \subseteq Frames
    BY WatchdogAssumption DEF Frames, Init
  <2>2. [screen : {0, 1}, wrap : {1}] \subseteq Captures
    BY <2>1, WatchdogAssumption DEF Captures
  <2>3. pane \in [Terminals -> Captures]
    BY <2>2 DEF Init
  <2> QED
    BY <2>1, <2>3, NoKeysInDict, WatchdogAssumption DEF Init, BooksOK, RestOK
<1> QED
  BY <1>1, TypeStep, PTL DEF Spec

-----------------------------------------------------------------------------
(* A pipe that forwards is left alone.                                            *)

LEMMA GetPut ==
    ASSUME NEW d, NEW t, NEW v, NEW s, NEW x
    PROVE  /\ s \in Keys(Put(d, t, v)) <=> s = t \/ s \in Keys(d)
           /\ s = t => Put(d, t, v)[s] = v /\ Get(Put(d, t, v), s, x) = v
           /\ s # t => Get(Put(d, t, v), s, x) = Get(d, s, x)
           /\ s # t /\ s \in Keys(d) => Put(d, t, v)[s] = d[s]
BY DEF Get, Put, Keys

LEMMA GetPop ==
    ASSUME NEW d, NEW t, NEW s, NEW x
    PROVE  /\ s \in Keys(Pop(d, t)) <=> s # t /\ s \in Keys(d)
           /\ s # t => Get(Pop(d, t), s, x) = Get(d, s, x)
           /\ s # t /\ s \in Keys(d) => Pop(d, t)[s] = d[s]
           /\ s = t => Get(Pop(d, t), s, x) = x
BY DEF Get, Pop, Keys, Restrict

\* What the watchdog is at, by its step.
LEMMA AtWork ==
    ASSUME TypeOK
    PROVE  /\ wd = Resting <=> wd.pc = "rest"
           /\ wd = Sleeping <=> wd.pc = "sleep"
           /\ wd.pc \notin {"rest", "sleep"} => wd.t \in Terminals
           /\ wd.pc \in {"judge", "rearm", "replay", "failed_rearm", "publish"} =>
                 wd = [pc |-> wd.pc, t |-> wd.t, content |-> wd.content]
<1>1. CASE wd = Resting \/ wd = Sleeping
  BY <1>1 DEF Resting, Sleeping
<1>2. CASE wd \in Probing
  BY <1>2 DEF Resting, Sleeping, Probing
<1>3. CASE wd \in Checking
  <2>1. wd = [pc |-> wd.pc, t |-> wd.t, content |-> wd.content]
    BY <1>3 DEF Checking
  <2> QED
    BY <1>3, <2>1 DEF Resting, Sleeping, Checking
<1> QED
  BY <1>1, <1>2, <1>3, TypesSplit DEF RestOK

\* Registrations, readers and what the reader has noted.
LEMMA RegisteredStep == TypeOK /\ Registered /\ [Next]_vars => Registered'
<1> SUFFICES ASSUME TypeOK, Registered, [Next]_vars
             PROVE  /\ \A t \in Terminals : t \in readers' <=> reader'[t] = "reading"
                    /\ enrolled' \subseteq Keys(ever_delivered')
  <2>1. TypeOK /\ Registered /\ [Next]_vars => NoGhost'
    BY NoGhostStep DEF Registered, NoGhost, Within
  <2> QED
    BY <2>1 DEF Registered, Keys
<1> DEFINE Goal == /\ \A t \in Terminals : t \in readers' <=> reader'[t] = "reading"
                   /\ enrolled' \subseteq Keys(ever_delivered')
<1>1. CASE UNCHANGED <<readers, reader, enrolled, ever_delivered>>
  BY <1>1 DEF Registered
<1>2. ASSUME NEW t \in Terminals, NEW restored \in BOOLEAN, CreateReader(t, restored)
      PROVE  Goal
  BY ZenonT(60), <1>2, GetPut DEF CreateReader, Registered, TypeOK
<1>3. ASSUME NEW t \in Terminals, StopReader(t) PROVE Goal
  BY <1>3, GetPop DEF StopReader, Unwatch, Registered, TypeOK
<1>4. ASSUME NEW t \in Terminals, Read(t) PROVE Goal
  <2>1. UNCHANGED <<readers, reader, enrolled>>
    BY <1>4 DEF Read
  <2>2. Keys(ever_delivered) \subseteq Keys(ever_delivered')
    BY <1>4 DEF Read, NoteData, Put, Keys
  <2> QED
    BY <2>1, <2>2 DEF Registered
<1>5. ASSUME NEW t \in Terminals, ReaderExits(t) PROVE Goal
  BY <1>5 DEF ReaderExits, books, Registered, TypeOK
<1>6. ASSUME NEW t, Unwatch(t), UNCHANGED <<readers, reader>> PROVE Goal
  BY <1>6, GetPop DEF Unwatch, Registered
<1>7. CASE Judge \/ NoteProbeFailure \/ NoteRearmFailure
  <2>1. UNCHANGED <<readers, reader>>
    BY <1>7 DEF Judge, NoteProbeFailure, NoteRearmFailure, NotWatchdog, thread
  <2>2. Unwatch(wd.t) \/ UNCHANGED <<enrolled, ever_delivered>>
    BY <1>7 DEF Judge, Judged, NoteProbeFailure, NoteRearmFailure, books
  <2> QED
    BY <1>1, <1>6, <2>1, <2>2
<1>8. CASE UNCHANGED vars \/ Consume \/ Sleep \/ Wake \/ Probe \/ Rearm \/ NoteRearm \/ Replay
           \/ \E t \in Terminals : NextTerminal(t)
  BY <1>1, <1>8 DEF vars, Consume, Sleep, Wake, Probe, Rearm, NoteRearm, Replay, NextTerminal,
                    NotWatchdog, books, thread
<1>9. ASSUME NEW t \in Terminals,
             \/ Draw(t) \/ Resize(t) \/ Stall(t) \/ KillWindow(t) \/ Attach(t)
             \/ Flush(t) \/ GracePasses(t)
      PROVE  Goal
  BY <1>1, <1>9 DEF Draw, Resize, Stall, KillWindow, Attach, Flush, GracePasses, NotTmux, books,
                    thread
<1> QED
  BY <1>2, <1>3, <1>4, <1>5, <1>7, <1>8, <1>9 DEF Next, Reader, Watchdog

LEMMA CheckedOnceStep == TypeOK /\ CheckedOnce /\ [Next]_vars => CheckedOnce'
<1> SUFFICES ASSUME TypeOK, CheckedOnce, [Next]_vars PROVE CheckedOnce'
  OBVIOUS
<1>1. CASE UNCHANGED <<wd, todo>>
  BY <1>1 DEF CheckedOnce
<1>2. CASE wd' \in {Resting, Sleeping}
  BY <1>2 DEF CheckedOnce
<1>3. ASSUME wd.pc \notin {"rest", "sleep"}, wd'.t = wd.t, UNCHANGED todo PROVE CheckedOnce'
  BY <1>3, AtWork DEF CheckedOnce
<1>4. ASSUME NEW t \in Terminals, NextTerminal(t) PROVE CheckedOnce'
  BY <1>4 DEF NextTerminal, CheckedOnce
<1>5. CASE Consume \/ UNCHANGED vars
  BY <1>1, <1>5 DEF Consume, vars
<1>6. ASSUME NEW t \in Terminals,
             \/ Draw(t) \/ Resize(t) \/ Stall(t) \/ KillWindow(t) \/ Attach(t)
             \/ Reader(t) \/ GracePasses(t)
             \/ (\E restored \in BOOLEAN : CreateReader(t, restored)) \/ StopReader(t)
      PROVE  CheckedOnce'
  BY <1>1, <1>6 DEF Draw, Resize, Stall, KillWindow, Attach, Reader, Read, Flush, ReaderExits, GracePasses,
                    CreateReader, StopReader, NotTmux
<1>7. CASE Sleep \/ Wake \/ Replay \/ NoteProbeFailure \/ NoteRearmFailure
  BY <1>2, <1>7 DEF Sleep, Wake, Replay, NoteProbeFailure, NoteRearmFailure
<1>8. CASE Probe \/ Judge
  <2>1. wd.pc \notin {"rest", "sleep"} /\ UNCHANGED todo
    BY <1>8 DEF Probe, Judge
  <2>2. wd' = Resting \/ \/ wd' = [pc |-> "failed", t |-> wd.t]
                        \/ \E p, c : wd' = [pc |-> p, t |-> wd.t, content |-> c]
    BY <1>8 DEF Probe, Judge, Judged
  <2>3. wd' = Resting \/ wd'.t = wd.t
    BY <2>2
  <2> QED
    BY <1>2, <1>3, <2>1, <2>3
<1>9. CASE Rearm \/ NoteRearm
  <2>1. wd = [pc |-> wd.pc, t |-> wd.t, content |-> wd.content]
    BY <1>9, AtWork DEF Rearm, NoteRearm
  <2>2. \A p : [wd EXCEPT !.pc = p].t = wd.t
    BY <2>1
  <2> QED
    BY <1>2, <1>3, <1>9, <2>2 DEF Rearm, NoteRearm
<1> QED
  BY <1>4, <1>5, <1>6, <1>7, <1>8, <1>9 DEF Next, Watchdog

LEMMA NothingYetStep ==
    ASSUME TypeOK, Registered, [Next]_vars, NEW t \in Terminals, NothingYet(t)
    PROVE  NothingYet(t)'
<1>1. CASE pipe[t] = "off" /\ t \in alive /\ UNCHANGED <<pipe, alive>>
  <2>1. fifo[t] = 0 /\ ~Get(ever_delivered, t, FALSE)
    BY <1>1 DEF NothingYet
  <2>0. /\ \A s : ~Get(Pop(ever_delivered, s), t, FALSE)
        /\ \A s : ~Get(Put(ever_delivered, s, FALSE), t, FALSE)
        /\ \A s : s # t => ~Get(Put(ever_delivered, s, TRUE), t, FALSE)
    BY <2>1 DEF Get, Put, Pop, Keys, Restrict
  <2>2. ASSUME UNCHANGED <<fifo, ever_delivered>> PROVE NothingYet(t)'
    BY <2>1, <2>2 DEF NothingYet, Get, Keys
  <2>3. ASSUME UNCHANGED fifo, Unwatch(wd.t) PROVE NothingYet(t)'
    BY <2>0, <2>1, <2>3 DEF NothingYet, Unwatch
  <2>4. ASSUME NEW s \in Terminals, Draw(s) PROVE NothingYet(t)'
    <3>1. fifo' = fifo \/ (pipe[s] = "on" /\ \E c : fifo' = [fifo EXCEPT ![s] = c])
      BY <2>4 DEF Draw
    <3>2. fifo'[t] = 0
      BY <1>1, <2>1, <3>1 DEF TypeOK
    <3> QED
      BY <2>1, <2>4, <3>2 DEF Draw, NotTmux, books, NothingYet, Get, Keys
  <2>5. ASSUME NEW s \in Terminals, NEW restored \in BOOLEAN, CreateReader(s, restored)
        PROVE  NothingYet(t)'
    BY <2>0, <2>1, <2>5 DEF CreateReader, NothingYet
  <2>6. ASSUME NEW s \in Terminals, StopReader(s) PROVE NothingYet(t)'
    BY <2>0, <2>1, <2>6 DEF StopReader, Unwatch, NothingYet
  <2>7. ASSUME NEW s \in Terminals, Read(s) PROVE NothingYet(t)'
    <3>1. s # t /\ fifo'[t] = 0
      BY <2>1, <2>7 DEF Read, TypeOK
    <3> QED
      BY <2>0, <2>1, <2>7, <3>1 DEF Read, NoteData, NothingYet
  <2>8. ASSUME NEW s \in Terminals, ReaderExits(s) PROVE NothingYet(t)'
    <3>1. fifo'[t] = 0
      BY <2>1, <2>8 DEF ReaderExits, TypeOK
    <3> QED
      BY <2>1, <2>8, <3>1 DEF ReaderExits, books, NothingYet, Get, Keys
  <2>9. CASE Judge \/ NoteProbeFailure \/ NoteRearmFailure
    <3>1. UNCHANGED fifo
      BY <2>9 DEF Judge, NoteProbeFailure, NoteRearmFailure, NotWatchdog, thread
    <3>2. Unwatch(wd.t) \/ UNCHANGED ever_delivered
      BY <2>9 DEF Judge, Judged, NoteProbeFailure, NoteRearmFailure, books
    <3> QED
      BY <2>2, <2>3, <3>1, <3>2
  <2>10. CASE UNCHANGED vars \/ Consume \/ Sleep \/ Wake \/ Probe \/ Rearm \/ NoteRearm \/ Replay
              \/ \E s \in Terminals : NextTerminal(s)
    BY <2>2, <2>10 DEF vars, Consume, Sleep, Wake, Probe, Rearm, NoteRearm, Replay, NextTerminal,
                       NotWatchdog, books, thread
  <2>11. ASSUME NEW s \in Terminals,
                \/ Resize(s) \/ Stall(s) \/ KillWindow(s) \/ Attach(s)
                \/ Flush(s) \/ GracePasses(s)
         PROVE  NothingYet(t)'
    BY <2>2, <2>11 DEF Resize, Stall, KillWindow, Attach, Flush, GracePasses, NotTmux, books,
                       thread
  <2> QED
    BY <2>4, <2>5, <2>6, <2>7, <2>8, <2>9, <2>10, <2>11 DEF Next, Reader, Watchdog
<1>2. ASSUME pipe'[t] = "off", t \in alive' PROVE pipe[t] = "off" /\ t \in alive
  <2>1. UNCHANGED <<pipe, alive>>
        \/ Rearm \/ \E s \in Terminals : Stall(s) \/ KillWindow(s) \/ Attach(s)
    BY DEF Next, vars, tmux, Draw, Resize, CreateReader, StopReader, Reader, Read, Flush, ReaderExits,
           GracePasses, Consume, Watchdog, Sleep, Wake, NextTerminal, Probe, NoteProbeFailure,
           Judge, NoteRearmFailure, NoteRearm, Replay, NotWatchdog
  <2>2. ASSUME NEW s \in Terminals, Stall(s) \/ KillWindow(s) \/ Attach(s)
        PROVE  pipe[t] = "off" /\ t \in alive
    BY <1>2, <2>2 DEF Stall, KillWindow, Attach, TypeOK
  <2>3. CASE Rearm
    BY <1>2, <2>3 DEF Rearm, NotWatchdog, TypeOK
  <2> QED
    BY <1>2, <2>1, <2>2, <2>3
<1> QED
  <2>1. CASE ~(pipe'[t] = "off" /\ t \in alive')
    BY <2>1 DEF NothingYet
  <2>2. CASE pipe[t] = "off" /\ t \in alive /\ pipe'[t] = "off" /\ t \in alive'
            /\ ~UNCHANGED <<pipe, alive>>
    <3>1. UNCHANGED <<fifo, ever_delivered>>
      BY ZenonT(40), <2>2
      DEF Next, vars, tmux, Draw, Resize, Stall, KillWindow, Attach, CreateReader, StopReader, Reader,
           Read, Flush, ReaderExits, GracePasses, Consume, Watchdog, Sleep, Wake, NextTerminal,
           Probe, NoteProbeFailure, Judge, Rearm, NoteRearmFailure, NoteRearm, Replay,
           NotWatchdog, NotTmux, thread, books
    <3> QED
      BY <2>2, <3>1 DEF NothingYet, Get, Keys
  <2> QED
    BY <1>1, <1>2, <2>1, <2>2

LEMMA ShownStep == TypeOK /\ rough = {} /\ JudgedAsShown /\ [Next]_vars => JudgedAsShown'
<1> SUFFICES ASSUME TypeOK, rough = {}, JudgedAsShown, [Next]_vars PROVE JudgedAsShown'
  OBVIOUS
<1>1. CASE UNCHANGED <<wd, pane>>
  BY <1>1 DEF JudgedAsShown
<1>2. CASE wd'.pc # "judge"
  BY <1>2 DEF JudgedAsShown
<1>3. ASSUME NEW t \in Terminals, Draw(t) \/ Resize(t) PROVE JudgedAsShown'
  <2>1. ~UnderCheck(t) /\ UNCHANGED wd /\ \A s \in Terminals \ {t} : pane'[s] = pane[s]
    BY <1>3 DEF Draw, Resize, NotTmux, TypeOK
  <2>2. ASSUME wd.pc = "judge" PROVE wd.content = pane'[wd.t]
    <3>1. wd.t \in Terminals \ {t} /\ wd.content = pane[wd.t]
      BY <2>1, <2>2, AtWork DEF UnderCheck, JudgedAsShown
    <3> QED
      BY <2>1, <3>1
  <2> QED
    BY <2>1, <2>2 DEF JudgedAsShown
<1>4. CASE Probe
  BY <1>4 DEF Probe, NotWatchdog, JudgedAsShown
<1>5. ASSUME NEW t \in Terminals,
             \/ Stall(t) \/ KillWindow(t) \/ Attach(t) \/ Reader(t) \/ GracePasses(t)
             \/ (\E restored \in BOOLEAN : CreateReader(t, restored)) \/ StopReader(t)
      PROVE  JudgedAsShown'
  BY <1>1, <1>5 DEF Stall, KillWindow, Attach, Reader, Read, Flush, ReaderExits, GracePasses,
                    CreateReader, StopReader, NotTmux, tmux
<1>6. CASE UNCHANGED vars \/ Consume
  BY <1>1, <1>6 DEF vars, Consume, tmux
<1>7. CASE \/ Sleep \/ Wake \/ (\E t \in Terminals : NextTerminal(t))
           \/ NoteProbeFailure \/ Judge \/ NoteRearmFailure \/ Replay
  <2>1. wd' \in {Resting, Sleeping} \/ \E t, c : wd' \in {[pc |-> "probe", t |-> t],
                                                        [pc |-> "rearm", t |-> t, content |-> c]}
    BY <1>7 DEF Sleep, Wake, NextTerminal, NoteProbeFailure, Judge, Judged, NoteRearmFailure, Replay
  <2> QED
    BY <1>2, <2>1 DEF Resting, Sleeping
<1>8. CASE Rearm \/ NoteRearm
  <2>1. wd = [pc |-> wd.pc, t |-> wd.t, content |-> wd.content]
    BY <1>8, AtWork DEF Rearm, NoteRearm
  <2>2. CASE wd' = Resting
    BY <1>2, <2>2 DEF Resting
  <2>3. ASSUME NEW p \in {"replay", "failed_rearm", "publish"}, wd' = [wd EXCEPT !.pc = p]
        PROVE  JudgedAsShown'
    <3>1. wd' = [pc |-> p, t |-> wd.t, content |-> wd.content]
      BY <2>1, <2>3
    <3> QED
      BY <1>2, <3>1
  <2> QED
    BY <1>8, <2>2, <2>3 DEF Rearm, NoteRearm
<1> QED
  BY <1>3, <1>4, <1>5, <1>6, <1>7, <1>8 DEF Next, Watchdog

\* Dictionaries d and e agree on t.
Agree(d, e, t) == (t \in Keys(e) <=> t \in Keys(d)) /\ (t \in Keys(d) => e[t] = d[t])

LEMMA AgreeElsewhere ==
    ASSUME NEW d, NEW t, NEW s, s # t
    PROVE  (\A v : Agree(d, Put(d, s, v), t)) /\ Agree(d, Pop(d, s), t) /\ Agree(d, d, t)
BY DEF Agree, Put, Pop, Keys, Restrict

\* What a step must leave alone to keep a silent pipe trusted.
LEMMA TrustedKept ==
    ASSUME NEW t, Trusted(t), t \in enrolled' => t \in enrolled, t \in resized => t \in resized',
           Agree(liveness, liveness', t), Agree(fresh, fresh', t),
           Agree(ever_delivered, ever_delivered', t),
           pipe'[t] = "on" => pipe[t] = "on",
           \/ pane'[t] = pane[t] /\ fifo'[t] = fifo[t]
           \/ fifo'[t] # 0,
           (UnderCheck(t) /\ wd.pc = "replay") => (UnderCheck(t) /\ wd.pc = "replay")',
           ToBeJudged(t)' => ToBeJudged(t),
           wd' = Sleeping => wd = Sleeping /\ (t \in late /\ fifo[t] # 0 => t \in late')
    PROVE  Trusted(t)'
<1> SUFFICES ASSUME Silent(t)'
             PROVE  /\ liveness'[t].baseline = pane'[t] \/ fifo'[t] # 0
                    /\ liveness'[t].strikes # 0 =>
                          fifo'[t] # 0 /\ ~ToBeJudged(t)' /\ (wd' = Sleeping => t \in late')
  BY DEF Trusted
<1>1. Silent(t) /\ liveness'[t] = liveness[t]
  BY DEF Silent, Agree, Get, Keys
<1> QED
  BY <1>1 DEF Trusted

\* The same, of a step that leaves the watchdog where it is.
LEMMA TrustedAside ==
    ASSUME NEW t, Trusted(t), UNCHANGED <<wd, todo>>, t \in enrolled' => t \in enrolled,
           t \in resized => t \in resized',
           Agree(liveness, liveness', t), Agree(fresh, fresh', t),
           Agree(ever_delivered, ever_delivered', t),
           pipe'[t] = "on" => pipe[t] = "on",
           \/ pane'[t] = pane[t] /\ fifo'[t] = fifo[t]
           \/ fifo'[t] # 0,
           t \in late /\ fifo[t] # 0 => t \in late'
    PROVE  Trusted(t)'
BY TrustedKept DEF UnderCheck, ToBeJudged

\* The check of a terminal: the screen it is judged by is the one it shows, so a pipe
\* with nothing in the FIFO gets no strike, and one with a strike has waited for its
\* reader since.
LEMMA JudgeTrusts ==
    ASSUME TypeOK, JudgedAsShown, CheckedOnce, StallChecks > 1, Judge,
           NEW t \in Terminals, t = wd.t, Trusted(t)
    PROVE  /\ Trusted(t)'
           /\ wd'.pc = "rearm" => pipe[t] # "on" \/ ~Get(ever_delivered, t, TRUE) \/ t \in resized
<1> DEFINE content == wd.content
           entry == SilentEntry(liveness[t], content)
<1>0. entry = SilentEntry(liveness[t], content)
  OBVIOUS
<1> HIDE DEF entry
<1>1. wd.pc = "judge" /\ Judged(t, content) /\ UNCHANGED <<todo, pipe, pane, fifo>>
  BY DEF Judge, NotWatchdog, thread
<1>2. t \in Terminals /\ t \notin todo /\ content = pane[t] /\ content \in Captures
  <2>1. wd = [pc |-> wd.pc, t |-> wd.t, content |-> wd.content] /\ t \in Terminals
    BY <1>1, AtWork
  <2> QED
    BY <1>1, <2>1, AtWork DEF CheckedOnce, JudgedAsShown, TypeOK
<1>3. CASE t \notin enrolled /\ wd' = Resting /\ UNCHANGED enrolled
  BY <1>3 DEF Trusted, Silent, Resting
<1>4. CASE Unwatch(t) /\ wd' = Resting
  BY <1>4 DEF Unwatch, Trusted, Silent, Resting
<1>5. CASE /\ ColdStart(t, content)
           /\ wd' = [pc |-> "rearm", t |-> t, content |-> content]
           /\ UNCHANGED ever_delivered
  <2>1. ~Get(ever_delivered, t, TRUE)
    BY <1>5 DEF ColdStart
  <2> QED
    BY <1>5, <2>1 DEF Trusted, Silent, Get, Keys
<1>6. CASE /\ liveness' = Put(liveness, t, [baseline |-> content, strikes |-> 0])
           /\ wd' = Resting
  <2>1. liveness'[t] = [baseline |-> content, strikes |-> 0]
    BY <1>6, GetPut
  <2> QED
    BY <1>1, <1>2, <1>6, <2>1 DEF Trusted, Resting
<1>7. CASE /\ t \in enrolled /\ t \in Keys(liveness) /\ ~Get(fresh, t, FALSE)
           /\ liveness' = Put(liveness, t, IF Stalled(entry.strikes)
                                           THEN [entry EXCEPT !.strikes = 0] ELSE entry)
           /\ wd' = IF Stalled(entry.strikes)
                    THEN [pc |-> "rearm", t |-> t, content |-> content]
                    ELSE Resting
           /\ UNCHANGED <<enrolled, fresh, aged, ever_delivered, cold_start_attempts,
                          rearm_failures, resized>>
  <2>1. CASE pipe[t] = "on" /\ Get(ever_delivered, t, TRUE) /\ t \notin resized
    <3>1. Silent(t) /\ ToBeJudged(t)
      BY <1>1, <1>7, <2>1, AtWork DEF Silent, UnderCheck, ToBeJudged
    <3>2. liveness[t].strikes = 0 /\ (liveness[t].baseline = pane[t] \/ fifo[t] # 0)
      BY <3>1 DEF Trusted
    <3>3. liveness[t] \in [baseline : Captures, strikes : 0..(StallChecks - 1)]
      BY <1>7, DictHas DEF TypeOK
    <3>4. entry.baseline = liveness[t].baseline
          /\ entry.strikes = IF content = liveness[t].baseline THEN 0 ELSE liveness[t].strikes + 1
      BY <1>0, <1>2, <3>3 DEF SilentEntry
    <3>5. ~Stalled(entry.strikes)
      BY <3>2, <3>4, WatchdogAssumption DEF Stalled
    <3>6. liveness'[t] = entry /\ wd' = Resting
      BY <1>7, <3>5 DEF Put
    <3>7. /\ liveness'[t].baseline = pane'[t] \/ fifo'[t] # 0
          /\ liveness'[t].strikes # 0 => fifo'[t] # 0
      BY <1>1, <1>2, <3>2, <3>4, <3>6
    <3>8. ~ToBeJudged(t)' /\ wd' # Sleeping /\ wd'.pc # "rearm"
      BY <1>1, <1>2, <3>6 DEF ToBeJudged, UnderCheck, Resting, Sleeping
    <3> QED
      BY <3>6, <3>7, <3>8 DEF Trusted
  <2>2. CASE ~(pipe[t] = "on" /\ Get(ever_delivered, t, TRUE) /\ t \notin resized)
    <3>1. ~Silent(t)' \/ wd'.t # t
      BY <1>1, <1>7, <2>2 DEF Silent, Get, Keys
    <3> QED
      BY <1>1, <1>7, <2>2, <3>1 DEF Trusted, Silent, Get, Keys
  <2> QED
    BY <2>1, <2>2
<1> QED
  BY <1>0, <1>1, <1>3, <1>4, <1>5, <1>6, <1>7 DEF Judged

\* Steps of tmux, of the calls on a reader and of the reader thread.
LEMMA OutsideTrusts ==
    ASSUME TypeOK, Registered, NEW s \in Terminals, NEW t \in Terminals,
           Trusted(t), NothingYet(t),
           \/ Draw(s) \/ Resize(s) \/ Stall(s) \/ KillWindow(s) \/ Attach(s)
           \/ (\E restored \in BOOLEAN : CreateReader(s, restored)) \/ StopReader(s)
           \/ Reader(s) \/ GracePasses(s)
    PROVE  Trusted(t)'
<1>1. t \in enrolled => t \in readers /\ t \in Keys(ever_delivered) /\ reader[t] = "reading"
  BY DEF Registered, NoGhost
<1>2. CASE Draw(s)
  <2>1. PICK c \in 1..Screens : pane' = [pane EXCEPT ![s].screen = c]
                                /\ fifo' = IF pipe[s] = "on" THEN [fifo EXCEPT ![s] = c] ELSE fifo
    BY <1>2 DEF Draw
  <2>2. UNCHANGED <<wd, todo, late, pipe, resized, enrolled, liveness, fresh, ever_delivered>>
    BY <1>2 DEF Draw, NotTmux, books
  <2>3. CASE pipe[t] = "on"
    <3>1. CASE s = t
      <4>1. fifo' = [fifo EXCEPT ![t] = c] /\ c # 0
        BY <2>1, <2>3, <3>1, WatchdogAssumption
      <4>2. fifo'[t] # 0
        BY <4>1 DEF TypeOK
      <4> QED
        BY <2>2, <4>2, TrustedAside DEF Agree
    <3>2. CASE s # t
      <4>1. pane'[t] = pane[t] /\ fifo'[t] = fifo[t]
        BY <2>1, <3>2 DEF TypeOK
      <4> QED
        BY <2>2, <4>1, TrustedAside DEF Agree
    <3> QED
      BY <3>1, <3>2
  <2>4. CASE pipe[t] # "on"
    BY <2>2, <2>4 DEF Trusted, Silent
  <2> QED
    BY <2>3, <2>4
<1>3. CASE Stall(s) \/ KillWindow(s)
  <2>1. UNCHANGED <<wd, todo, late, pane, fifo, resized, enrolled, liveness, fresh,
                    ever_delivered>>
    BY <1>3 DEF Stall, KillWindow, NotTmux, thread, books
  <2>2. pipe'[t] = "on" => pipe[t] = "on"
    BY <1>3 DEF Stall, KillWindow, TypeOK
  <2> QED
    BY <2>1, <2>2, TrustedAside DEF Agree
<1>4. CASE Attach(s)
  <2>1. UNCHANGED <<wd, todo, late, pane, fifo, resized, enrolled, liveness, fresh,
                    ever_delivered>>
    BY <1>4 DEF Attach, NotTmux, thread, books
  <2>2. CASE s # t
    <3>1. pipe'[t] = pipe[t]
      BY <1>4, <2>2 DEF Attach, TypeOK
    <3> QED
      BY <2>1, <3>1, TrustedAside DEF Agree
  <2>3. CASE s = t
    <3>1. ~Get(ever_delivered, t, FALSE)
      BY <1>4, <2>3 DEF Attach, NothingYet
    <3>2. t \in enrolled => ~Get(ever_delivered, t, TRUE)
      BY <1>1, <3>1 DEF Get
    <3> QED
      BY <2>1, <3>2 DEF Trusted, Silent, Get, Keys
  <2> QED
    BY <2>2, <2>3
<1>5. ASSUME NEW restored \in BOOLEAN, CreateReader(s, restored) PROVE Trusted(t)'
  <2>1. CASE s = t
    <3>1. ~Get(ever_delivered', t, TRUE)
      BY <1>5, <2>1 DEF CreateReader, Get, Put, Keys
    <3> QED
      BY <3>1 DEF Trusted, Silent, Get, Keys
  <2>2. CASE s # t
    <3>1. Agree(liveness, liveness', t) /\ Agree(fresh, fresh', t)
          /\ Agree(ever_delivered, ever_delivered', t)
      BY <1>5, <2>2, AgreeElsewhere DEF CreateReader
    <3>2. (t \in enrolled' => t \in enrolled)
          /\ UNCHANGED <<wd, todo, late, pane, fifo, pipe, resized>>
      BY <1>5, <2>2 DEF CreateReader, tmux, env
    <3> QED
      BY <3>1, <3>2, TrustedAside
  <2> QED
    BY <2>1, <2>2
<1>6. CASE StopReader(s)
  <2>1. CASE s = t
    BY <1>6, <2>1 DEF StopReader, Unwatch, Trusted, Silent
  <2>2. CASE s # t
    <3>1. Agree(liveness, liveness', t) /\ Agree(fresh, fresh', t)
          /\ Agree(ever_delivered, ever_delivered', t)
      BY <1>6, <2>2, AgreeElsewhere DEF StopReader, Unwatch
    <3>2. (t \in enrolled' => t \in enrolled)
          /\ UNCHANGED <<wd, todo, late, pane, fifo, pipe, resized>>
      BY <1>6, <2>2 DEF StopReader, Unwatch, tmux, env
    <3> QED
      BY <3>1, <3>2, TrustedAside
  <2> QED
    BY <2>1, <2>2
<1>7. CASE Read(s)
  <2>1. UNCHANGED <<wd, todo, late, pane, pipe, resized, enrolled, liveness>>
    BY <1>7 DEF Read, tmux, env
  <2>2. CASE s = t /\ t \in enrolled
    <3>1. fresh' = Put(fresh, t, TRUE)
      BY <1>1, <1>7, <2>2 DEF Read, NoteData
    <3>2. Get(fresh', t, FALSE) = TRUE
      BY <3>1 DEF Get, Put, Keys
    <3> QED
      BY <3>2 DEF Trusted, Silent, Get, Keys
  <2>3. CASE s = t /\ t \notin enrolled
    BY <2>1, <2>3 DEF Trusted, Silent
  <2>4. CASE s # t
    <3>1. Agree(fresh, fresh', t) /\ Agree(ever_delivered, ever_delivered', t)
          /\ Agree(liveness, liveness', t)
      BY <1>7, <2>1, <2>4, AgreeElsewhere DEF Read, NoteData
    <3>2. fifo'[t] = fifo[t]
      BY <1>7, <2>4 DEF Read, TypeOK
    <3> QED
      BY <2>1, <3>1, <3>2, TrustedAside
  <2> QED
    BY <2>2, <2>3, <2>4
<1>8. CASE Flush(s)
  <2>1. UNCHANGED <<wd, todo, pane, fifo, pipe, resized, enrolled, liveness, fresh,
                    ever_delivered>>
    BY <1>8 DEF Flush, tmux, env, books
  <2>2. t \in late /\ fifo[t] # 0 => t \in late'
    BY <1>8 DEF Flush
  <2> QED
    BY <2>1, <2>2, TrustedAside DEF Agree
<1>9. CASE ReaderExits(s)
  <2>1. UNCHANGED <<wd, todo, pane, pipe, resized, enrolled, liveness, fresh, ever_delivered>>
    BY <1>9 DEF ReaderExits, tmux, env, books
  <2>2. CASE s = t
    <3>1. t \notin enrolled
      BY <1>1, <1>9, <2>2 DEF ReaderExits
    <3> QED
      BY <2>1, <3>1 DEF Trusted, Silent
  <2>3. CASE s # t
    <3>1. fifo'[t] = fifo[t] /\ (t \in late => t \in late')
      BY <1>9, <2>3 DEF ReaderExits, TypeOK
    <3> QED
      BY <2>1, <3>1, TrustedAside DEF Agree
  <2> QED
    BY <2>2, <2>3
<1>10. CASE GracePasses(s)
  <2>1. UNCHANGED <<wd, todo, late, pane, fifo, pipe, resized, enrolled, liveness, fresh,
                    ever_delivered>>
    BY <1>10 DEF GracePasses, tmux, env, thread
  <2> QED
    BY <2>1, TrustedAside DEF Agree
<1>11. CASE Resize(s)
  <2>1. UNCHANGED <<wd, todo, late, fifo, pipe, enrolled, liveness, fresh, ever_delivered>>
        /\ resized' = resized \cup {s} /\ \E w : pane' = [pane EXCEPT ![s].wrap = w]
    BY <1>11 DEF Resize, thread, books
  <2>2. CASE s = t
    BY <2>1, <2>2 DEF Trusted, Silent
  <2>3. CASE s # t
    <3>1. pane'[t] = pane[t]
      BY <2>1, <2>3 DEF TypeOK
    <3> QED
      BY <2>1, <3>1, TrustedAside DEF Agree
  <2> QED
    BY <2>2, <2>3
<1> QED
  BY <1>2, <1>3, <1>4, <1>5, <1>6, <1>7, <1>8, <1>9, <1>10, <1>11 DEF Reader

\* The watchdog between two checks.  It wakes only when every reader has come to what
\* there was when it went to sleep, so nothing silent has a strike at a new round.
LEMMA RoundTrusts ==
    ASSUME TypeOK, Registered, NEW t \in Terminals, Trusted(t),
           Sleep \/ Wake \/ \E s \in Terminals : NextTerminal(s)
    PROVE  Trusted(t)'
<1>1. UNCHANGED <<pane, fifo, pipe, resized, enrolled, liveness, fresh, ever_delivered>>
  BY DEF Sleep, Wake, NextTerminal, tmux, env, thread, books
<1>2. Silent(t)' => Silent(t)
  <2>1. ~UnderCheck(t)
    BY DEF Sleep, Wake, NextTerminal, UnderCheck
  <2> QED
    BY <1>1, <2>1 DEF Silent, Get, Keys
<1>3. CASE Sleep
  <2>1. t \in enrolled => reader[t] = "reading"
    BY DEF Registered, NoGhost
  <2>2. ~ToBeJudged(t)'
    BY <1>3 DEF Sleep, ToBeJudged, UnderCheck
  <2>3. t \in enrolled /\ fifo[t] # 0 => t \in late'
    BY <1>3, <2>1 DEF Sleep
  <2> QED
    BY <1>1, <1>2, <2>2, <2>3 DEF Trusted, Silent
<1>4. CASE Wake
  <2>1. Silent(t) => liveness[t].strikes = 0
    BY <1>4 DEF Wake, Trusted
  <2> QED
    BY <1>1, <1>2, <2>1 DEF Trusted
<1>5. ASSUME NEW s \in Terminals, NextTerminal(s) PROVE Trusted(t)'
  <2>1. wd' # Sleeping
    BY <1>5 DEF NextTerminal, Resting, Sleeping
  <2>2. ToBeJudged(t)' => ToBeJudged(t)
    BY <1>5 DEF NextTerminal, ToBeJudged, UnderCheck
  <2> QED
    BY <1>1, <1>2, <2>1, <2>2 DEF Trusted
<1> QED
  BY <1>3, <1>4, <1>5

\* The watchdog at the check of a terminal s.
LEMMA CheckTrusts ==
    ASSUME TypeOK, JudgedAsShown, CheckedOnce, StallChecks > 1, NEW t \in Terminals, Trusted(t),
           Probe \/ NoteProbeFailure \/ Judge \/ Rearm \/ NoteRearmFailure \/ NoteRearm \/ Replay
    PROVE  Trusted(t)'
<1> DEFINE s == wd.t
<1>1. s \in Terminals /\ wd \notin {Resting, Sleeping}
  BY AtWork DEF Probe, NoteProbeFailure, Judge, Rearm, NoteRearmFailure, NoteRearm, Replay
<1>2. UNCHANGED <<pane, fifo, todo, late>>
  BY DEF Probe, NoteProbeFailure, Judge, Rearm, NoteRearmFailure, NoteRearm, Replay,
         NotWatchdog, thread
<1>3. wd' # Sleeping /\ (wd' # Resting => wd'.t = s)
      /\ (wd'.pc \in {"probe", "judge"} => wd.pc = "probe")
      /\ (wd.pc = "replay" => NoteRearm)
  <2>1. CASE Probe
    BY <2>1 DEF Probe, Sleeping
  <2>2. CASE NoteProbeFailure \/ NoteRearmFailure \/ Replay
    BY <2>2 DEF NoteProbeFailure, NoteRearmFailure, Replay, Resting, Sleeping
  <2>3. CASE Judge
    <3>1. wd.pc = "judge"
          /\ wd' \in {Resting, [pc |-> "rearm", t |-> s, content |-> wd.content]}
      BY <2>3 DEF Judge, Judged
    <3> QED
      BY <3>1 DEF Resting, Sleeping
  <2>4. CASE Rearm \/ NoteRearm
    <3>1. wd = [pc |-> wd.pc, t |-> wd.t, content |-> wd.content]
      BY <2>4, AtWork DEF Rearm, NoteRearm
    <3>2. ASSUME NEW p \in {"replay", "failed_rearm", "publish"}, wd' = [wd EXCEPT !.pc = p]
          PROVE  wd' = [pc |-> p, t |-> s, content |-> wd.content]
      BY <3>1, <3>2
    <3>3. wd.pc = "rearm" \/ NoteRearm
      BY <2>4 DEF Rearm
    <3>4. wd' = Resting \/ \E p \in {"replay", "failed_rearm", "publish"} :
                              wd' = [pc |-> p, t |-> s, content |-> wd.content]
      BY <2>4, <3>2 DEF Rearm, NoteRearm
    <3> QED
      BY <3>3, <3>4 DEF Resting, Sleeping
  <2> QED
    BY <2>1, <2>2, <2>3, <2>4
<1>4. ToBeJudged(t)' => ToBeJudged(t)
  BY <1>1, <1>2, <1>3 DEF ToBeJudged, UnderCheck
<1>5. CASE s # t
  <2>1. (t \in enrolled' => t \in enrolled) /\ Agree(liveness, liveness', t)
        /\ Agree(fresh, fresh', t) /\ Agree(ever_delivered, ever_delivered', t)
    <3>1. CASE Probe \/ Rearm \/ Replay
      BY <3>1 DEF Probe, Rearm, Replay, books, Agree
    <3>2. CASE NoteProbeFailure \/ NoteRearmFailure
      BY <1>5, <3>2, AgreeElsewhere DEF NoteProbeFailure, NoteRearmFailure, Unwatch, books
    <3>3. CASE Judge
      BY <1>5, <3>3, AgreeElsewhere DEF Judge, Judged, Unwatch
    <3>4. CASE NoteRearm
      BY <1>5, <3>4, AgreeElsewhere DEF NoteRearm
    <3> QED
      BY <3>1, <3>2, <3>3, <3>4
  <2>2. pipe'[t] = pipe[t] /\ (t \in resized => t \in resized')
    <3>1. pipe'[t] = pipe[t]
      BY <1>5 DEF Probe, NoteProbeFailure, Judge, Rearm, NoteRearmFailure, NoteRearm, Replay,
                  TypeOK
    <3>2. t \in resized => t \in resized'
      BY <1>5 DEF Probe, NoteProbeFailure, Judge, Judged, Rearm, NoteRearmFailure, NoteRearm,
                  Replay
    <3> QED
      BY <3>1, <3>2
  <2> QED
    BY <1>2, <1>3, <1>4, <1>5, <2>1, <2>2, TrustedKept DEF UnderCheck
<1>6. CASE s = t
  <2>1. CASE Judge
    BY <1>6, <2>1, JudgeTrusts
  <2>2. CASE NoteRearm
    <3>1. CASE t \in enrolled
      <4>1. Get(fresh', t, FALSE) = TRUE
        BY <1>6, <2>2, <3>1 DEF NoteRearm, Get, Put, Keys
      <4> QED
        BY <4>1 DEF Trusted, Silent, Get, Keys
    <3>2. CASE t \notin enrolled
      BY <2>2, <3>2 DEF NoteRearm, Trusted, Silent
    <3> QED
      BY <3>1, <3>2
  <2>3. CASE Rearm /\ wd'.pc = "replay"
    BY <1>3, <1>6, <2>3 DEF Trusted, Silent, UnderCheck, Resting, Sleeping
  <2>4. CASE \/ Probe \/ Replay
             \/ Rearm /\ wd'.pc # "replay"
    <3>1. UNCHANGED <<pipe, resized, enrolled, liveness, fresh, ever_delivered>>
      <4>1. CASE Probe \/ Replay
        BY <4>1 DEF Probe, Replay, books
      <4>2. CASE Rearm /\ wd'.pc # "replay"
        <5>1. [wd EXCEPT !.pc = "replay"].pc = "replay"
          <6>1. wd = [pc |-> wd.pc, t |-> wd.t, content |-> wd.content]
            BY <4>2, AtWork DEF Rearm
          <6> QED
            BY <6>1
        <5> QED
          BY <4>2, <5>1 DEF Rearm, books
      <4> QED
        BY <2>4, <4>1, <4>2
    <3>2. wd.pc # "replay"
      BY <2>4 DEF Probe, Rearm, Replay
    <3> QED
      BY <1>2, <1>3, <1>4, <3>1, <3>2, TrustedKept DEF Agree
  <2>5. CASE NoteProbeFailure \/ NoteRearmFailure
    <3>1. Unwatch(t) \/ UNCHANGED <<enrolled, liveness, fresh, ever_delivered>>
      BY <1>6, <2>5 DEF NoteProbeFailure, NoteRearmFailure, books
    <3>2. CASE Unwatch(t)
      BY <3>2 DEF Unwatch, Trusted, Silent
    <3>3. CASE UNCHANGED <<enrolled, liveness, fresh, ever_delivered>>
      <4>1. UNCHANGED <<pipe, resized>> /\ wd.pc # "replay"
        BY <2>5 DEF NoteProbeFailure, NoteRearmFailure
      <4> QED
        BY <1>2, <1>3, <1>4, <3>3, <4>1, TrustedKept DEF Agree
    <3> QED
      BY <3>1, <3>2, <3>3
  <2> QED
    BY <2>1, <2>2, <2>3, <2>4, <2>5
<1> QED
  BY <1>5, <1>6

LEMMA WatchedStep == StallChecks > 1 /\ TypeOK /\ Watched /\ [Next]_vars => Watched'
<1> SUFFICES ASSUME StallChecks > 1, TypeOK, Watched, [Next]_vars PROVE Watched'
  OBVIOUS
<1>1. Registered' /\ CheckedOnce' /\ \A t \in Terminals : NothingYet(t)'
  BY RegisteredStep, CheckedOnceStep, NothingYetStep DEF Watched
<1>2. rough' = rough
  BY DEF Next, vars, env, Draw, Resize, Stall, KillWindow, Attach, CreateReader, StopReader, Reader, Read,
         Flush, ReaderExits, GracePasses, Consume, Watchdog, Sleep, Wake, NextTerminal, Probe,
         NoteProbeFailure, Judge, Rearm, NoteRearmFailure, NoteRearm, Replay, NotTmux, NotWatchdog
<1>3. ASSUME rough = {} PROVE JudgedAsShown'
  BY <1>3, ShownStep DEF Watched
<1>4. ASSUME rough = {}, NEW t \in Terminals PROVE Trusted(t)'
  <2>1. Registered /\ CheckedOnce /\ JudgedAsShown /\ Trusted(t) /\ NothingYet(t)
    BY <1>4 DEF Watched
  <2>2. CASE UNCHANGED vars \/ Consume
    <3>1. UNCHANGED <<wd, todo, late, pane, fifo, pipe, resized, enrolled, liveness, fresh,
                      ever_delivered>>
      BY <2>2 DEF vars, Consume, tmux, env, thread, books
    <3> QED
      BY <2>1, <3>1, TrustedAside DEF Agree
  <2> QED
    BY <2>1, <2>2, OutsideTrusts, RoundTrusts, CheckTrusts DEF Next, Watchdog
<1> QED
  BY <1>1, <1>2, <1>3, <1>4 DEF Watched

LEMMA WatchedInit == Init => Watched
<1> SUFFICES ASSUME Init PROVE Watched
  OBVIOUS
<1>1. Keys(NoKeys) = {}
  BY DEF Keys, NoKeys
<1>2. Registered /\ CheckedOnce /\ JudgedAsShown
  BY <1>1 DEF Init, Registered, NoGhost, CheckedOnce, JudgedAsShown, Sleeping
<1>3. \A t \in Terminals : NothingYet(t) /\ Trusted(t)
  BY <1>1 DEF Init, NothingYet, Trusted, Silent, Get
<1> QED
  BY <1>2, <1>3 DEF Watched

\* A pipe that has delivered and still forwards is never re-armed in an environment
\* that is not rough, unless its pane was resized since a check last took what it shows
\* for good, and provided one diverging check is not taken for a stall: two rounds of the
\* watchdog then have a reader's turn between them (_check_pipe_liveness).
THEOREM HealthyIsLeftAlone ==
    ASSUME StallChecks > 1
    PROVE  Spec => HealthyPipeLeftAlone
<1> DEFINE Alone == \A t \in Terminals :
                       rough = {} /\ wd.pc = "judge" /\ wd.t = t /\ wd'.pc = "rearm"
                          => pipe[t] # "on" \/ ~Get(ever_delivered, t, TRUE) \/ t \in resized
<1>1. TypeOK /\ Watched /\ [Next]_vars => Alone
  <2> SUFFICES ASSUME TypeOK, Watched, [Next]_vars, NEW t \in Terminals,
                      rough = {}, wd.pc = "judge", wd.t = t, wd'.pc = "rearm"
               PROVE  pipe[t] # "on" \/ ~Get(ever_delivered, t, TRUE) \/ t \in resized
    OBVIOUS
  <2>1. wd' # wd /\ wd # Resting /\ wd # Sleeping
    BY DEF Resting, Sleeping
  <2>2. Watchdog
    BY <2>1 DEF Next, vars, Draw, Resize, Stall, KillWindow, Attach, CreateReader, StopReader,
                Reader, Read, Flush, ReaderExits, GracePasses, Consume, NotTmux
  <2>3. Judge
    BY <2>1, <2>2 DEF Watchdog, Sleep, Wake, NextTerminal, Probe, NoteProbeFailure, Rearm,
                      NoteRearmFailure, NoteRearm, Replay
  <2> QED
    BY <2>3, JudgeTrusts DEF Watched
<1>2. TypeOK /\ Watched /\ [Next]_vars => Watched'
  BY WatchedStep
<1> QED
  BY <1>1, <1>2, SpecTypeOK, WatchedInit, PTL DEF Spec, HealthyPipeLeftAlone

-----------------------------------------------------------------------------
(* Sequences.                                                                   *)

LEMMA FeedInSet ==
    ASSUME NEW S, NEW s \in Seq(S), NEW x
    PROVE  x \in Feed!ToSet(s) <=> \E i \in 1..Len(s) : s[i] = x
BY DEF Feed!ToSet

LEMMA FeedSetOfSeq ==
    ASSUME NEW S, NEW s \in Seq(S)
    PROVE  Feed!ToSet(s) \subseteq S
BY DEF Feed!ToSet

LEMMA FeedSetOfEmpty == Feed!ToSet(<<>>) = {}
BY DEF Feed!ToSet

LEMMA FeedSetOfAppend ==
    ASSUME NEW S, NEW s \in Seq(S), NEW e \in S
    PROVE  /\ Append(s, e) \in Seq(S)
           /\ Feed!ToSet(Append(s, e)) = Feed!ToSet(s) \cup {e}
<1>1. /\ Append(s, e) \in Seq(S) /\ Len(Append(s, e)) = Len(s) + 1
      /\ \A i \in 1..Len(s) : Append(s, e)[i] = s[i]
      /\ Append(s, e)[Len(s) + 1] = e
  BY AppendProperties
<1>2. ASSUME NEW x PROVE x \in Feed!ToSet(Append(s, e)) <=> x \in Feed!ToSet(s) \cup {e}
  <2>1. x \in Feed!ToSet(Append(s, e)) <=> \E i \in 1..(Len(s) + 1) : Append(s, e)[i] = x
    <3>1. PICK t : t = Append(s, e)
      OBVIOUS
    <3>2. x \in Feed!ToSet(t) <=> \E i \in 1..Len(t) : t[i] = x
      BY <1>1, <3>1, FeedInSet
    <3> QED BY <1>1, <3>1, <3>2
  <2>2. x \in Feed!ToSet(s) <=> \E i \in 1..Len(s) : s[i] = x
    BY FeedInSet
  <2>3. \A i : i \in 1..(Len(s) + 1) <=> i \in 1..Len(s) \/ i = Len(s) + 1
    BY LenProperties
  <2> QED BY <1>1, <2>1, <2>2, <2>3
<1> QED BY <1>1, <1>2

-----------------------------------------------------------------------------
(* The feed: where every event is that the page has not shown.                  *)

USE FeedSideAssumption DEF Feed!FeedAssumption

Places == {"new", "bus", "run", "fan", "done"}
AskType == [pc : {"none", "asked", "answered"}, since : Nat, life : Nat, events : SUBSET Feed!Event]

\* The types that TypeOK leaves open.
FeedTypes ==
    /\ life \in Nat /\ next \in Nat \ {0} /\ lastId \in Nat /\ lastLife \in Nat
    /\ at \in [Told -> Places] /\ number \in [Told -> Nat] /\ heard \in [Told -> SUBSET Feed!Links]
    /\ flight \in [Feed!Links -> Seq(Feed!Event)] /\ queue \in [Feed!Links -> Seq(Feed!Event)]
    /\ wire \in [Feed!Links -> Seq(Feed!Event)]
    /\ ask \in [Feed!Links -> AskType] /\ first \in [Feed!Links -> Nat]

\* Each call waits in the consumer's queue once, and is nowhere else meanwhile.
BusOK ==
    /\ Feed!IsInjective(inbound)
    /\ \A i \in DOMAIN inbound : at[inbound[i]] = "bus"

\* What is queued or sent for stream k.
Way(k) == Feed!ToSet(wire[k]) \cup Feed!ToSet(queue[k]) \cup Feed!ToSet(flight[k])

\* There is no later life, and numbers of this one are below the next.
Numbered(e) == e.life <= life /\ (e.life = life => e.id < next)
NumbersOK ==
    /\ \A e \in Feed!ToSet(ring) : e.life = life /\ e.id < next
    /\ \A k \in Feed!Links : \A e \in Way(k) \cup ask[k].events : Numbered(e)
    /\ \A c \in Told : at[c] = "fan" => number[c] < next
    /\ lastLife <= life /\ (lastLife = life => lastId < next)
    /\ \A k \in Feed!Links : first[k] <= next
    /\ \A k \in Feed!Links : /\ ask[k].life <= life
                             /\ ask[k].pc # "none" /\ ask[k].life = life => ask[k].since < next

Connected == page \in {"opening", "on"}
LinksOK ==
    /\ Connected => cur \in subs /\ cur \in Feed!Links
    /\ page = "idle" => cur = 0
    /\ page = "opening" => feed = "ui" /\ ask[cur].pc = "none"
    /\ \A k \in Feed!Links : k > cur => ask[k].pc = "none"
    /\ \A k \in Feed!Links : ask[k].pc # "none" => ask[k].since <= lastId

\* The call that tells of e will hand it to the stream that the page follows.
Coming(e) ==
    \E c \in Told : at[c] = "fan" /\ Feed!EventOf(c) = e /\ (feed = "ui" => cur \in heard[c])

OnItsWay(e) ==
    /\ Connected
    /\ e \in Way(cur) \/ Coming(e)

\* A history request will bring e, or add it to what is lost.
Asked(k, e) ==
    /\ e.id < first[k]
    /\ \/ ask[k].pc = "asked" /\ (e.id > ask[k].since \/ ask[k].life # life)
       \/ ask[k].pc = "answered" /\ e \in ask[k].events

Accounted(e) == e \in shown \cup lost \/ OnItsWay(e) \/ \E k \in Feed!Links : Asked(k, e)

\* A page with a stream; what was told since it opened, while it has not asked.
FollowedOK ==
    \A e \in Feed!ToSet(ring) :
        page = "on" \/ (page = "opening" /\ e.id >= first[cur]) => Accounted(e)

\* Nothing numbered up to the last number seen is asked for again.
SeenOK == lastLife = life => \A e \in Feed!ToSet(ring) : e.id <= lastId => Accounted(e)

\* Nor is what a history request leaves out.
AskOK ==
    \A k \in Feed!Links : \A e \in Feed!ToSet(ring) :
        /\ ask[k].pc = "asked" /\ ask[k].life = life /\ e.id <= ask[k].since => Accounted(e)
        /\ ask[k].pc = "answered" =>
             \A n \in ask[k].events :
                 n.life = life /\ e.id <= n.id =>
                     e \in ask[k].events \/ (e.id <= ask[k].since /\ Accounted(e))

FeedInv == Feed!TypeOK /\ FeedTypes /\ BusOK /\ NumbersOK /\ LinksOK /\ FollowedOK /\ SeenOK /\ AskOK

LEMMA SetOfTail ==
    ASSUME NEW S, NEW s \in Seq(S), s # <<>>
    PROVE  /\ Tail(s) \in Seq(S) /\ Head(s) \in S /\ Len(Tail(s)) = Len(s) - 1
           /\ Feed!ToSet(s) = Feed!ToSet(Tail(s)) \cup {Head(s)}
           /\ \A i \in 1..(Len(s) - 1) : Tail(s)[i] = s[i + 1]
<1>1. /\ Head(s) \in S /\ Tail(s) \in Seq(S) /\ Len(Tail(s)) = Len(s) - 1
      /\ \A i \in 1..(Len(s) - 1) : Tail(s)[i] = s[i + 1]
      /\ Head(s) = s[1] /\ Len(s) \in Nat /\ Len(s) >= 1
  BY HeadTailProperties
<1>2. ASSUME NEW x PROVE x \in Feed!ToSet(s) <=> x \in Feed!ToSet(Tail(s)) \cup {Head(s)}
  <2>1. x \in Feed!ToSet(Tail(s)) <=> \E i \in 1..(Len(s) - 1) : Tail(s)[i] = x
    <3> DEFINE t == Tail(s)
    <3>1. t \in Seq(S) /\ Len(t) = Len(s) - 1
      BY <1>1
    <3> HIDE DEF t
    <3>2. x \in Feed!ToSet(t) <=> \E i \in 1..Len(t) : t[i] = x
      BY <3>1, FeedInSet
    <3>3. x \in Feed!ToSet(t) <=> \E i \in 1..(Len(s) - 1) : t[i] = x
      BY <3>1, <3>2
    <3> QED BY <3>3 DEF t
  <2>2. x \in Feed!ToSet(s) <=> \E i \in 1..Len(s) : s[i] = x
    BY FeedInSet
  <2>3. \A i : i \in 1..Len(s) <=> i = 1 \/ (i - 1 \in 1..(Len(s) - 1) /\ i \in Nat)
    BY <1>1
  <2>4. \A i \in Nat : (i - 1) + 1 = i
    OBVIOUS
  <2>5. x \in Feed!ToSet(s) => x \in Feed!ToSet(Tail(s)) \cup {Head(s)}
    <3> SUFFICES ASSUME NEW i \in 1..Len(s), s[i] = x
                 PROVE  x \in Feed!ToSet(Tail(s)) \cup {Head(s)}
      BY <2>2
    <3>1. CASE i = 1
      BY <1>1, <3>1
    <3>2. CASE i # 1
      <4>1. i - 1 \in 1..(Len(s) - 1) /\ (i - 1) + 1 = i
        BY <1>1, <3>2
      <4>2. Tail(s)[i - 1] = s[(i - 1) + 1]
        BY <1>1, <4>1
      <4> QED BY <2>1, <4>1, <4>2
    <3> QED BY <3>1, <3>2
  <2>6. x \in Feed!ToSet(Tail(s)) \cup {Head(s)} => x \in Feed!ToSet(s)
    <3>1. ASSUME NEW i \in 1..(Len(s) - 1), Tail(s)[i] = x PROVE x \in Feed!ToSet(s)
      <4>1. i + 1 \in 1..Len(s) /\ s[i + 1] = x
        BY <1>1, <3>1
      <4> QED BY <2>2, <4>1
    <3>2. Head(s) \in Feed!ToSet(s)
      BY <1>1, FeedInSet
    <3> QED BY <2>1, <3>1, <3>2
  <2> QED BY <2>5, <2>6
<1> QED BY <1>1, <1>2

-----------------------------------------------------------------------------
(* What the invariant needs of a step.                                          *)

Keeps(e) == Accounted(e) => Accounted(e)'

\* A step that leaves the page and its requests alone.
LEMMA PageStays ==
    ASSUME FeedInv, UNCHANGED <<life, page, cur, lastId, lastLife, ask, first>>,
           \A e \in Feed!ToSet(ring') :
               \/ e \in Feed!ToSet(ring) /\ Keeps(e)
               \/ e.id \in Nat /\ e.id >= next /\ (Connected => Accounted(e)')
    PROVE  FollowedOK' /\ SeenOK' /\ AskOK'
<1> USE DEF FeedInv
<1>0. next \in Nat /\ lastId \in Nat /\ \A k \in Feed!Links : ask[k] \in AskType
  BY DEF FeedTypes
<1>1. FollowedOK'
  BY DEF FollowedOK, Keeps, Connected
<1>2. SeenOK'
  <2>1. ASSUME lastLife = life, NEW e \in Feed!ToSet(ring'), e.id <= lastId PROVE Accounted(e)'
    <3>1. lastId < next
      BY <2>1 DEF NumbersOK
    <3>2. e \in Feed!ToSet(ring) /\ Keeps(e)
      BY <1>0, <2>1, <3>1
    <3> QED BY <2>1, <3>2 DEF SeenOK, Keeps
  <2> QED BY <2>1 DEF SeenOK
<1>3. AskOK'
  <2>1. ASSUME NEW k \in Feed!Links, NEW e \in Feed!ToSet(ring'),
               ask[k].pc = "asked", ask[k].life = life, e.id <= ask[k].since
        PROVE  Accounted(e)'
    <3>1. ask[k].since < next /\ ask[k].since \in Nat
      BY <1>0, <2>1 DEF NumbersOK, AskType
    <3>2. e \in Feed!ToSet(ring) /\ Keeps(e)
      BY <1>0, <2>1, <3>1
    <3> QED BY <2>1, <3>2 DEF AskOK, Keeps
  <2>2. ASSUME NEW k \in Feed!Links, NEW e \in Feed!ToSet(ring'), ask[k].pc = "answered",
               NEW n \in ask[k].events, n.life = life, e.id <= n.id
        PROVE  e \in ask[k].events \/ (e.id <= ask[k].since /\ Accounted(e)')
    <3>1. n.id < next /\ n.id \in Nat
      BY <1>0, <2>2 DEF NumbersOK, Numbered, AskType, Feed!Event
    <3>2. e \in Feed!ToSet(ring) /\ Keeps(e)
      BY <1>0, <2>2, <3>1
    <3> QED BY <2>2, <3>2 DEF AskOK, Keeps
  <2> QED BY <2>1, <2>2 DEF AskOK
<1> QED BY <1>1, <1>2, <1>3

\* Where an event that is accounted for may go.
LEMMA KeepsIf ==
    ASSUME NEW e, shown \subseteq shown', lost \subseteq lost',
           OnItsWay(e) => OnItsWay(e)' \/ e \in shown' \cup lost',
           \A k \in Feed!Links : Asked(k, e) => Asked(k, e)' \/ e \in shown' \cup lost'
    PROVE  Keeps(e)
BY DEF Keeps, Accounted

-----------------------------------------------------------------------------
(* The server's steps.                                                          *)

SameServer == <<feed, source, life>>

LEMMA NextInRing ==
    ASSUME Feed!TypeOK, FeedTypes, NumbersOK, NEW n \in Feed!Event, n.id = next,
           ring' = Feed!Retained(Append(ring, n))
    PROVE  /\ ring' \in Seq(Feed!Event) /\ Len(ring') <= RingCapacity
           /\ \A i, j \in DOMAIN ring' : i < j => ring'[i].id < ring'[j].id
           /\ Feed!ToSet(ring') \subseteq Feed!ToSet(ring) \cup {n}
<1> DEFINE long == Append(ring, n)
<1>1. ring \in Seq(Feed!Event) /\ Len(ring) \in Nat /\ next \in Nat
  BY DEF Feed!TypeOK, FeedTypes
<1>2. /\ long \in Seq(Feed!Event) /\ Len(long) = Len(ring) + 1
      /\ \A i \in 1..Len(ring) : long[i] = ring[i]
      /\ long[Len(ring) + 1] = n
  BY <1>1, AppendProperties
<1>3. Feed!ToSet(long) = Feed!ToSet(ring) \cup {n}
  BY <1>1, FeedSetOfAppend
<1>4. \A i \in 1..Len(ring) : ring[i] \in Feed!ToSet(ring) /\ ring[i].id < next
  BY <1>1, FeedInSet DEF NumbersOK
<1> HIDE DEF long
<1>5. \A i, j \in 1..Len(long) : i < j => long[i].id < long[j].id
  <2> SUFFICES ASSUME NEW i \in 1..Len(long), NEW j \in 1..Len(long), i < j
               PROVE  long[i].id < long[j].id
    OBVIOUS
  <2>1. i \in 1..Len(ring)
    BY <1>1, <1>2
  <2>2. CASE j = Len(ring) + 1
    BY <1>2, <1>4, <2>1, <2>2
  <2>3. CASE j # Len(ring) + 1
    <3>1. j \in 1..Len(ring)
      BY <1>1, <1>2, <2>3
    <3>2. ring[i].id < ring[j].id
      BY <1>1, <2>1, <3>1 DEF Feed!TypeOK
    <3> QED BY <1>2, <2>1, <3>1, <3>2
  <2> QED BY <2>2, <2>3
<1>6. long # <<>> /\ DOMAIN long = 1..Len(long)
  BY <1>1, <1>2
<1>7. CASE Len(long) > RingCapacity
  <2>1. ring' = Tail(long)
    BY <1>7 DEF Feed!Retained, long
  <2>2. /\ ring' \in Seq(Feed!Event) /\ Len(ring') = Len(long) - 1
        /\ Feed!ToSet(long) = Feed!ToSet(ring') \cup {Head(long)}
        /\ \A i \in 1..(Len(long) - 1) : ring'[i] = long[i + 1]
    BY <1>2, <1>6, <2>1, SetOfTail
  <2>3. Len(ring') <= RingCapacity
    BY <1>1, <1>2, <2>2 DEF Feed!TypeOK
  <2>4. DOMAIN ring' = 1..(Len(long) - 1)
    BY <2>2
  <2>5. ASSUME NEW i \in DOMAIN ring', NEW j \in DOMAIN ring', i < j
        PROVE  ring'[i].id < ring'[j].id
    <3>1. i + 1 \in 1..Len(long) /\ j + 1 \in 1..Len(long) /\ i + 1 < j + 1
      BY <1>1, <1>2, <2>4, <2>5
    <3> QED BY <1>5, <2>2, <2>4, <3>1
  <2> QED BY <1>3, <2>2, <2>3, <2>5
<1>8. CASE ~(Len(long) > RingCapacity)
  <2>1. ring' = long
    BY <1>8 DEF Feed!Retained, long
  <2>2. Len(long) <= RingCapacity
    BY <1>1, <1>2, <1>8
  <2> QED BY <1>2, <1>3, <1>5, <1>6, <2>1, <2>2
<1> QED BY <1>7, <1>8

\* A step that only moves a call between the hooks and the consumer's queue.
LEMMA WaitingStep ==
    ASSUME FeedInv, NEW c \in Told, NEW p \in Places \ {"fan"},
           at[c] # "fan", at' = [at EXCEPT ![c] = p],
           UNCHANGED <<SameServer, ring, next, number, heard, Feed!streams, Feed!client, lost>>
    PROVE  /\ Feed!TypeOK /\ inbound' \in Seq(Told) /\ Len(inbound') <= InboundSize => Feed!TypeOK'
           /\ FeedTypes' /\ NumbersOK' /\ LinksOK' /\ FollowedOK' /\ SeenOK' /\ AskOK'
<1>1. FeedTypes /\ NumbersOK /\ LinksOK /\ Feed!TypeOK
  BY DEF FeedInv
<1>2. at' \in [Told -> Places] /\ \A d \in Told : at'[d] = "fan" <=> at[d] = "fan"
  BY <1>1 DEF FeedTypes
<1>3. FeedTypes'
  BY <1>1, <1>2 DEF FeedTypes, SameServer, Feed!streams, Feed!client
<1>4. NumbersOK'
  BY <1>1, <1>2 DEF NumbersOK, Numbered, Way, SameServer, Feed!streams, Feed!client
<1>5. LinksOK'
  BY <1>1 DEF LinksOK, Connected, SameServer, Feed!streams, Feed!client
<1>6. \A e : Keeps(e)
  <2>1. \A e : Coming(e) => Coming(e)'
    BY <1>2 DEF Coming, Feed!EventOf, SameServer, Feed!client
  <2>2. \A e : OnItsWay(e) => OnItsWay(e)'
    BY <2>1 DEF OnItsWay, Way, Connected, Feed!streams, Feed!client
  <2>3. \A e : \A k \in Feed!Links : Asked(k, e) => Asked(k, e)'
    BY DEF Asked, SameServer, Feed!client
  <2> QED BY <2>2, <2>3, KeepsIf DEF Feed!client
<1>7. FollowedOK' /\ SeenOK' /\ AskOK'
  BY <1>6, PageStays DEF SameServer, Feed!client
<1>8. Feed!TypeOK /\ inbound' \in Seq(Told) /\ Len(inbound') <= InboundSize => Feed!TypeOK'
  BY DEF Feed!TypeOK, SameServer, Feed!streams, Feed!client
<1> QED BY <1>3, <1>4, <1>5, <1>7, <1>8

LEMMA PublishedStep ==
    ASSUME FeedInv, NEW c \in Told, Feed!Published(c)
    PROVE  FeedInv'
<1>1. Feed!TypeOK /\ FeedTypes /\ BusOK
  BY DEF FeedInv
<1>2. /\ at[c] = "new" /\ UNCHANGED <<SameServer, ring, next, number, heard, Feed!streams,
                                      Feed!client, lost>>
      /\ \/ /\ Len(inbound) < InboundSize /\ inbound' = Append(inbound, c) /\
                   at' = [at EXCEPT ![c] = "bus"]
         \/ at' = [at EXCEPT ![c] = "done"] /\ inbound' = inbound
  BY DEF Feed!Published, Feed!GoTo, SameServer
<1>3. inbound \in Seq(Told) /\ Len(inbound) \in Nat
  BY <1>1 DEF Feed!TypeOK
<1>4. /\ Append(inbound, c) \in Seq(Told) /\ Len(Append(inbound, c)) = Len(inbound) + 1
      /\ \A i \in 1..Len(inbound) : Append(inbound, c)[i] = inbound[i]
      /\ Append(inbound, c)[Len(inbound) + 1] = c
  BY <1>3, AppendProperties
<1>5. \A i \in 1..Len(inbound) : inbound[i] # c /\ inbound[i] \in Told /\ at[inbound[i]] = "bus"
  BY <1>1, <1>2, <1>3 DEF BusOK
<1>6. inbound' \in Seq(Told) /\ Len(inbound') <= InboundSize
  <2>1. CASE inbound' = inbound
    BY <1>1, <2>1 DEF Feed!TypeOK
  <2>2. CASE inbound' = Append(inbound, c) /\ Len(inbound) < InboundSize
    BY <1>3, <1>4, <2>2
  <2> QED BY <1>2, <2>1, <2>2
<1>7. BusOK'
  <2>1. CASE inbound' = inbound /\ at' = [at EXCEPT ![c] = "done"]
    <3>1. \A i \in 1..Len(inbound) : at'[inbound[i]] = "bus"
      BY <1>1, <1>5, <2>1 DEF FeedTypes
    <3> QED BY <1>1, <1>3, <2>1, <3>1 DEF BusOK
  <2>2. CASE inbound' = Append(inbound, c) /\ at' = [at EXCEPT ![c] = "bus"]
    <3> DEFINE b == Append(inbound, c)
    <3>1. DOMAIN b = 1..(Len(inbound) + 1)
      BY <1>4
    <3>2. \A i \in 1..Len(inbound) : b[i] = inbound[i]
      BY <1>4
    <3>3. b[Len(inbound) + 1] = c
      BY <1>4
    <3> HIDE DEF b
    <3>4. \A i \in DOMAIN b : i \in 1..Len(inbound) \/ i = Len(inbound) + 1
      BY <1>3, <3>1
    <3>5. \A i, j \in 1..Len(inbound) : inbound[i] = inbound[j] => i = j
      BY <1>1, <1>3 DEF BusOK, Feed!IsInjective
    <3>6. \A i, j \in DOMAIN b : b[i] = b[j] => i = j
      BY <1>5, <3>2, <3>3, <3>4, <3>5
    <3>7. \A i \in DOMAIN b : at'[b[i]] = "bus"
      BY <1>1, <1>5, <2>2, <3>2, <3>3, <3>4 DEF FeedTypes
    <3>8. inbound' = b
      BY <2>2 DEF b
    <3> QED BY <3>6, <3>7, <3>8 DEF BusOK, Feed!IsInjective
  <2> QED BY <1>2, <2>1, <2>2
<1>8. Feed!TypeOK' /\ FeedTypes' /\ NumbersOK' /\ LinksOK' /\ FollowedOK' /\ SeenOK' /\ AskOK'
  <2>1. \E p \in Places \ {"fan"} : at' = [at EXCEPT ![c] = p]
    BY <1>2 DEF Places
  <2> QED BY <1>1, <1>2, <1>6, <2>1, WaitingStep
<1> QED BY <1>7, <1>8 DEF FeedInv

LEMMA ConsumeStep ==
    ASSUME FeedInv, Feed!Consume
    PROVE  FeedInv'
<1>1. Feed!TypeOK /\ FeedTypes /\ BusOK
  BY DEF FeedInv
<1> DEFINE c == Head(inbound)
<1>2. /\ inbound # <<>> /\ inbound' = Tail(inbound)
      /\ UNCHANGED <<SameServer, ring, next, number, heard, Feed!streams, Feed!client, lost>>
      /\ \E p \in {"run", "done"} : at' = [at EXCEPT ![c] = p]
  BY DEF Feed!Consume, Feed!GoTo, SameServer
<1>3. inbound \in Seq(Told) /\ Len(inbound) \in Nat /\ Len(inbound) <= InboundSize
  BY <1>1 DEF Feed!TypeOK
<1>4. /\ inbound' \in Seq(Told) /\ c \in Told /\ Len(inbound') = Len(inbound) - 1
      /\ \A i \in 1..(Len(inbound) - 1) : inbound'[i] = inbound[i + 1]
  BY <1>2, <1>3, SetOfTail
<1>5. c = inbound[1] /\ Len(inbound) >= 1
  BY <1>2, <1>3
<1> HIDE DEF c
<1>6. Len(inbound') <= InboundSize /\ at[c] = "bus"
  <2>1. 1 \in DOMAIN inbound
    BY <1>3, <1>5
  <2> QED BY <1>1, <1>3, <1>4, <1>5, <2>1 DEF BusOK
<1>7. BusOK'
  <2>1. DOMAIN inbound' = 1..(Len(inbound) - 1) /\ DOMAIN inbound = 1..Len(inbound)
    BY <1>3, <1>4
  <2>2. \A i, j \in DOMAIN inbound : inbound[i] = inbound[j] => i = j
    BY <1>1 DEF BusOK, Feed!IsInjective
  <2>3. \A i \in DOMAIN inbound' : /\ i \in Nat /\ i + 1 \in DOMAIN inbound
                                   /\ inbound'[i] = inbound[i + 1]
                                   /\ i + 1 # 1 /\ 1 \in DOMAIN inbound
    BY <1>3, <1>4, <1>5, <2>1
  <2>4. \A i \in DOMAIN inbound' : inbound'[i] # c
    BY <1>5, <2>2, <2>3
  <2>5. \A i \in DOMAIN inbound' : inbound'[i] \in Told /\ at[inbound'[i]] = "bus"
    BY <1>1, <1>4, <2>1, <2>3 DEF BusOK
  <2>6. \A i \in DOMAIN inbound' : at'[inbound'[i]] = "bus"
    BY <1>1, <1>2, <2>4, <2>5 DEF FeedTypes
  <2>7. \A i, j \in DOMAIN inbound' : inbound'[i] = inbound'[j] => i = j
    <3> SUFFICES ASSUME NEW i \in DOMAIN inbound', NEW j \in DOMAIN inbound',
                        inbound'[i] = inbound'[j]
                 PROVE  i = j
      OBVIOUS
    <3>1. i + 1 = j + 1
      BY <2>2, <2>3
    <3> QED BY <2>3, <3>1
  <2> QED BY <2>6, <2>7 DEF BusOK, Feed!IsInjective
<1>8. Feed!TypeOK' /\ FeedTypes' /\ NumbersOK' /\ LinksOK' /\ FollowedOK' /\ SeenOK' /\ AskOK'
  <2>1. at[c] # "fan" /\ \E p \in Places \ {"fan"} : at' = [at EXCEPT ![c] = p]
    BY <1>2, <1>6 DEF Places
  <2> QED BY <1>1, <1>2, <1>4, <1>6, <2>1, WaitingStep
<1> QED BY <1>7, <1>8 DEF FeedInv

\* What a step of the server keeps of what is on its way.
LEMMA KeptOnItsWay ==
    ASSUME UNCHANGED <<SameServer, Feed!client, shown>>, lost \subseteq lost',
           NEW e, Connected => (e \in Way(cur) => e \in Way(cur)' \/ e \in shown' \cup lost'),
           Connected => (Coming(e) => Coming(e)' \/ e \in Way(cur)')
    PROVE  Keeps(e)
<1>1. OnItsWay(e) => OnItsWay(e)' \/ e \in shown' \cup lost'
  BY DEF OnItsWay, Connected, Feed!client
<1>2. \A k \in Feed!Links : Asked(k, e) => Asked(k, e)'
  BY DEF Asked, Feed!client, SameServer
<1> QED BY <1>1, <1>2, KeepsIf

LEMMA AppendEventStep ==
    ASSUME FeedInv, NEW c \in Told, Feed!AppendEvent(c)
    PROVE  FeedInv'
<1>1. Feed!TypeOK /\ FeedTypes /\ BusOK /\ NumbersOK /\ LinksOK
  BY DEF FeedInv
<1>0. PICK n : n = [call |-> c, id |-> next, life |-> life]
  OBVIOUS
<1>2. /\ at[c] \in {"new", "run"} /\ at' = [at EXCEPT ![c] = "fan"]
      /\ ring' = Feed!Retained(Append(ring, n)) /\ next' = next + 1
      /\ number' = [number EXCEPT ![c] = next] /\ heard' = [heard EXCEPT ![c] = subs]
      /\ UNCHANGED <<SameServer, inbound, warm, Feed!streams, Feed!client, lost>>
  BY <1>0 DEF Feed!AppendEvent, Feed!GoTo, SameServer
<1>3. n \in Feed!Event /\ n.id = next /\ n.life = life /\ n.call = c
  BY <1>0, <1>1 DEF Feed!Event, FeedTypes
<1>4. /\ ring' \in Seq(Feed!Event) /\ Len(ring') <= RingCapacity
      /\ \A i, j \in DOMAIN ring' : i < j => ring'[i].id < ring'[j].id
      /\ Feed!ToSet(ring') \subseteq Feed!ToSet(ring) \cup {n}
  BY <1>1, <1>2, <1>3, NextInRing
<1>5. \A d \in Told : d # c => at'[d] = at[d] /\ number'[d] = number[d] /\ heard'[d] = heard[d]
  BY <1>1, <1>2 DEF FeedTypes
<1>6. at'[c] = "fan" /\ number'[c] = next /\ heard'[c] = subs
  BY <1>1, <1>2 DEF FeedTypes
<1>7. next \in Nat /\ next' \in Nat \ {0} /\ next < next' /\ subs \subseteq Feed!Links
  BY <1>1, <1>2 DEF FeedTypes, Feed!TypeOK
<1>8. n.id \in Nat /\ n.id >= next
  BY <1>3, <1>7
<1>9. Feed!EventOf(c)' = n
  BY <1>0, <1>2, <1>6 DEF Feed!EventOf, SameServer
<1>10. Feed!TypeOK'
  BY <1>1, <1>2, <1>4 DEF Feed!TypeOK, SameServer, Feed!streams, Feed!client
<1>11. FeedTypes'
  <2>1. at' \in [Told -> Places]
    BY <1>1, <1>2 DEF FeedTypes, Places
  <2>2. number' \in [Told -> Nat]
    BY <1>1, <1>2, <1>7 DEF FeedTypes
  <2>3. heard' \in [Told -> SUBSET Feed!Links]
    BY <1>1, <1>2, <1>7 DEF FeedTypes
  <2> QED BY <1>1, <1>2, <1>7, <2>1, <2>2, <2>3 DEF FeedTypes, SameServer, Feed!streams, Feed!client
<1>12. BusOK'
  <2>1. inbound' = inbound /\ inbound \in Seq(Told)
    BY <1>1, <1>2 DEF Feed!TypeOK
  <2>2. \A i \in DOMAIN inbound : inbound[i] # c /\ inbound[i] \in Told
    BY <1>1, <1>2, <2>1 DEF BusOK
  <2> QED BY <1>1, <1>5, <2>1, <2>2 DEF BusOK, Feed!IsInjective
<1>13. NumbersOK'
  <2>1. \A e \in Feed!ToSet(ring) : e.life = life /\ e.id < next
    BY <1>1 DEF NumbersOK
  <2>1a. \A e \in Feed!ToSet(ring) : e.id \in Nat
    <3>1. Feed!ToSet(ring) \subseteq Feed!Event
      BY <1>1, FeedSetOfSeq DEF Feed!TypeOK
    <3> QED BY <3>1 DEF Feed!Event
  <2>2. \A e \in Feed!ToSet(ring') : e.life = life' /\ e.id < next'
    BY <1>2, <1>3, <1>4, <1>7, <2>1, <2>1a DEF SameServer
  <2>3. \A k \in Feed!Links : Way(k) \subseteq Feed!Event /\ ask[k].events \subseteq Feed!Event
    BY <1>1, FeedSetOfSeq DEF Way, FeedTypes, AskType
  <2>4. \A e \in Feed!Event : Numbered(e) => Numbered(e)'
    BY <1>2, <1>7 DEF Numbered, Feed!Event, SameServer
  <2>5. \A k \in Feed!Links : \A e \in Way(k)' \cup ask'[k].events : Numbered(e)'
    BY <1>1, <1>2, <2>3, <2>4 DEF NumbersOK, Way, Feed!streams, Feed!client
  <2>6. \A d \in Told : at'[d] = "fan" => number'[d] < next'
    <3> SUFFICES ASSUME NEW d \in Told, at'[d] = "fan" PROVE number'[d] < next'
      OBVIOUS
    <3>1. CASE d = c
      BY <1>6, <1>7, <3>1
    <3>2. CASE d # c
      <4>1. number'[d] = number[d] /\ number[d] \in Nat /\ number[d] < next
        BY <1>1, <1>5, <3>2 DEF NumbersOK, FeedTypes
      <4> QED BY <1>7, <4>1
    <3> QED BY <3>1, <3>2
  <2>7. lastLife' <= life' /\ (lastLife' = life' => lastId' < next')
    BY <1>1, <1>2, <1>7 DEF NumbersOK, FeedTypes, SameServer, Feed!client
  <2>8. \A k \in Feed!Links : first'[k] <= next'
    BY <1>1, <1>2, <1>7 DEF NumbersOK, FeedTypes, Feed!client
  <2>9. \A k \in Feed!Links : /\ ask'[k].life <= life'
                              /\ ask'[k].pc # "none" /\ ask'[k].life = life' => ask'[k].since < next'
    <3>1. ask' = ask /\ life' = life
      BY <1>2 DEF SameServer, Feed!client
    <3>2. \A k \in Feed!Links : ask[k].since \in Nat
      BY <1>1 DEF FeedTypes, AskType
    <3>3. \A k \in Feed!Links : /\ ask[k].life <= life
                                /\ ask[k].pc # "none" /\ ask[k].life = life => ask[k].since < next
      BY <1>1 DEF NumbersOK
    <3> QED BY <1>7, <3>1, <3>2, <3>3
  <2> QED BY <2>2, <2>5, <2>6, <2>7, <2>8, <2>9 DEF NumbersOK
<1>14. LinksOK'
  BY <1>1, <1>2 DEF LinksOK, Connected, SameServer, Feed!streams, Feed!client
<1>15. \A e : Keeps(e)
  <2>1. ASSUME NEW e, Coming(e) PROVE Coming(e)'
    <3>1. PICK d \in Told : at[d] = "fan" /\ Feed!EventOf(d) = e /\ (feed = "ui" => cur \in heard[d])
      BY <2>1 DEF Coming
    <3>2. d # c
      BY <1>2, <3>1
    <3> QED BY <1>2, <1>5, <3>1, <3>2 DEF Coming, Feed!EventOf, SameServer, Feed!client
  <2>2. Way(cur)' = Way(cur)
    BY <1>2 DEF Way, Feed!streams, Feed!client
  <2> QED BY <1>2, <2>1, <2>2, KeptOnItsWay DEF Feed!client
<1>16. Connected => Accounted(n)'
  <2> SUFFICES ASSUME Connected PROVE OnItsWay(n)'
    BY DEF Accounted
  <2>1. cur' \in heard'[c]
    BY <1>1, <1>2, <1>6 DEF LinksOK, Feed!client
  <2>2. Coming(n)'
    BY <1>6, <1>9, <2>1 DEF Coming
  <2> QED BY <1>2, <2>2 DEF OnItsWay, Connected, Feed!client
<1>17. FollowedOK' /\ SeenOK' /\ AskOK'
  <2>1. \A e \in Feed!ToSet(ring') : \/ e \in Feed!ToSet(ring) /\ Keeps(e)
                                     \/ e.id \in Nat /\ e.id >= next /\ (Connected => Accounted(e)')
    BY <1>4, <1>8, <1>15, <1>16
  <2>2. UNCHANGED <<life, page, cur, lastId, lastLife, ask, first>>
    BY <1>2 DEF SameServer, Feed!client
  <2> QED BY <2>1, <2>2, PageStays
<1> QED BY <1>10, <1>11, <1>12, <1>13, <1>14, <1>17 DEF FeedInv

\* A step that moves events along their streams, or drops one of them.
LEMMA FlowingStep ==
    ASSUME FeedInv, UNCHANGED <<SameServer, ring, next, inbound, Feed!client>>,
           flight' \in [Feed!Links -> Seq(Feed!Event)], queue' \in [Feed!Links -> Seq(Feed!Event)],
           wire' \in [Feed!Links -> Seq(Feed!Event)],
           \A k \in Feed!Links : Len(queue'[k]) <= QueueSize,
           lost' \subseteq Feed!Event, lost \subseteq lost', subs' \subseteq Feed!Links,
           Connected => cur \in subs',
           at' \in [Told -> Places], number' \in [Told -> Nat],
           heard' \in [Told -> SUBSET Feed!Links],
           \A c \in Told : /\ at'[c] = "fan" => at[c] = "fan" /\ number'[c] = number[c]
                           /\ at[c] = "bus" => at'[c] = "bus",
           \A k \in Feed!Links : \A e \in Way(k)' : Numbered(e),
           Connected => \A e \in Way(cur) : e \in Way(cur)' \/ e \in lost',
           Connected => \A e : Coming(e) => Coming(e)' \/ e \in Way(cur)'
    PROVE  FeedInv'
<1>1. Feed!TypeOK /\ FeedTypes /\ BusOK /\ NumbersOK /\ LinksOK
  BY DEF FeedInv
<1>2. Feed!TypeOK'
  BY <1>1 DEF Feed!TypeOK, SameServer, Feed!client
<1>3. FeedTypes'
  BY <1>1 DEF FeedTypes, SameServer, Feed!client
<1>4. BusOK'
  <2>1. inbound \in Seq(Told)
    BY <1>1 DEF Feed!TypeOK
  <2>2. \A i \in DOMAIN inbound : inbound[i] \in Told
    BY <2>1
  <2> QED BY <1>1, <2>2 DEF BusOK
<1>5. NumbersOK'
  <2>1. \A k \in Feed!Links : \A e \in Way(k)' \cup ask'[k].events : Numbered(e)'
    BY <1>1 DEF NumbersOK, Numbered, SameServer, Feed!client
  <2>2. \A d \in Told : at'[d] = "fan" => number'[d] < next'
    BY <1>1 DEF NumbersOK
  <2> QED BY <1>1, <2>1, <2>2 DEF NumbersOK, SameServer, Feed!client
<1>6. LinksOK'
  BY <1>1 DEF LinksOK, Connected, SameServer, Feed!client
<1>7. \A e : Keeps(e)
  BY KeptOnItsWay DEF Feed!client
<1>8. FollowedOK' /\ SeenOK' /\ AskOK'
  BY <1>7, PageStays DEF SameServer, Feed!client
<1> QED BY <1>2, <1>3, <1>4, <1>5, <1>6, <1>8 DEF FeedInv

LEMMA FanOutStep ==
    ASSUME FeedInv, NEW c \in Told, Feed!FanOut(c)
    PROVE  FeedInv'
<1> DEFINE n == Feed!EventOf(c)
           to == IF feed = "ui" THEN heard[c] ELSE subs
<1>1. Feed!TypeOK /\ FeedTypes /\ BusOK /\ NumbersOK /\ LinksOK
  BY DEF FeedInv
<1>2. /\ at[c] = "fan" /\ at' = [at EXCEPT ![c] = "done"]
      /\ number' = [number EXCEPT ![c] = 0] /\ heard' = [heard EXCEPT ![c] = {}]
      /\ flight' = [k \in Feed!Links |-> IF k \in to /\ Feed!Followed(k) THEN Append(flight[k], n)
                                                                   ELSE flight[k]]
      /\ UNCHANGED <<SameServer, ring, next, inbound, warm, subs, queue, wire, Feed!client, lost>>
  BY DEF Feed!FanOut, Feed!GoTo, SameServer
<1>3. n \in Feed!Event /\ Numbered(n)
  BY <1>1, <1>2 DEF Feed!EventOf, Feed!Event, FeedTypes, Numbered, NumbersOK
<1>4. /\ at' \in [Told -> Places] /\ number' \in [Told -> Nat]
      /\ heard' \in [Told -> SUBSET Feed!Links]
  BY <1>1, <1>2 DEF FeedTypes, Places
<1>5. \A d \in Told : /\ at'[d] = "fan" => at[d] = "fan" /\ d # c
                      /\ d # c => at'[d] = at[d] /\ number'[d] = number[d] /\ heard'[d] = heard[d]
  BY <1>1, <1>2 DEF FeedTypes
<1> HIDE DEF n, to
<1>6. \A k \in Feed!Links : /\ Append(flight[k], n) \in Seq(Feed!Event)
                            /\ Feed!ToSet(Append(flight[k], n)) = Feed!ToSet(flight[k]) \cup {n}
  BY <1>1, <1>3, FeedSetOfAppend DEF FeedTypes
<1>7. flight' \in [Feed!Links -> Seq(Feed!Event)]
  BY <1>1, <1>2, <1>6 DEF FeedTypes
<1>8. \A k \in Feed!Links : /\ Way(k) \subseteq Way(k)' /\ Way(k)' \subseteq Way(k) \cup {n}
                            /\ k \in to /\ Feed!Followed(k) => n \in Way(k)'
  <2>1. ASSUME NEW k \in Feed!Links
        PROVE  /\ Feed!ToSet(flight[k]) \subseteq Feed!ToSet(flight'[k])
               /\ Feed!ToSet(flight'[k]) \subseteq Feed!ToSet(flight[k]) \cup {n}
               /\ k \in to /\ Feed!Followed(k) => n \in Feed!ToSet(flight'[k])
    BY <1>2, <1>6
  <2> QED BY <1>2, <2>1 DEF Way
<1>9. \A k \in Feed!Links : \A e \in Way(k)' : Numbered(e)
  BY <1>1, <1>3, <1>8 DEF NumbersOK
<1>10. ASSUME Connected, NEW e, Coming(e) PROVE Coming(e)' \/ e \in Way(cur)'
  <2>1. PICK d \in Told : at[d] = "fan" /\ Feed!EventOf(d) = e /\ (feed = "ui" => cur \in heard[d])
    BY <1>10 DEF Coming
  <2>2. CASE d = c
    <3>1. cur \in to /\ Feed!Followed(cur) /\ cur \in Feed!Links /\ e = n
      BY <1>1, <1>10, <2>1, <2>2 DEF to, n, Feed!Followed, Connected, LinksOK
    <3>2. cur' = cur
      BY <1>2 DEF Feed!client
    <3> QED BY <1>8, <3>1, <3>2
  <2>3. CASE d # c
    BY <1>2, <1>5, <2>1, <2>3 DEF Coming, Feed!EventOf, SameServer, Feed!client
  <2> QED BY <2>2, <2>3
<1>11. Connected => \A e \in Way(cur) : e \in Way(cur)'
  BY <1>1, <1>2, <1>8 DEF LinksOK, Feed!client
<1>12. /\ queue' \in [Feed!Links -> Seq(Feed!Event)] /\ wire' \in [Feed!Links -> Seq(Feed!Event)]
       /\ \A k \in Feed!Links : Len(queue'[k]) <= QueueSize
       /\ lost' \subseteq Feed!Event /\ subs' \subseteq Feed!Links /\ (Connected => cur \in subs')
  BY <1>1, <1>2 DEF FeedTypes, Feed!TypeOK, LinksOK
<1>13. \A d \in Told : /\ at'[d] = "fan" => at[d] = "fan" /\ number'[d] = number[d]
                       /\ at[d] = "bus" => at'[d] = "bus"
  BY <1>2, <1>5
<1>14. UNCHANGED <<SameServer, ring, next, inbound, Feed!client>> /\ lost \subseteq lost'
  BY <1>2
<1> QED BY <1>4, <1>7, <1>9, <1>10, <1>11, <1>12, <1>13, <1>14, FlowingStep

\* The steps that leave the calls alone.
LEMMA StreamingStep ==
    ASSUME FeedInv, UNCHANGED <<feed, source, Feed!server, Feed!client>>, NEW k \in Feed!Links,
           flight' \in [Feed!Links -> Seq(Feed!Event)], queue' \in [Feed!Links -> Seq(Feed!Event)],
           wire' \in [Feed!Links -> Seq(Feed!Event)],
           \A j \in Feed!Links : Len(queue'[j]) <= QueueSize,
           lost' \subseteq Feed!Event, lost \subseteq lost', subs' \subseteq subs,
           Connected => cur \in subs',
           Way(k)' \subseteq Way(k), Way(k) \subseteq Way(k)' \cup lost',
           \A j \in Feed!Links : j # k => Way(j)' = Way(j)
    PROVE  FeedInv'
<1>1. Feed!TypeOK /\ FeedTypes /\ NumbersOK /\ LinksOK
  BY DEF FeedInv
<1>2. UNCHANGED <<SameServer, ring, next, inbound, Feed!client>> /\ UNCHANGED <<at, number, heard>>
  BY DEF SameServer, Feed!server
<1>3. \A j \in Feed!Links : \A e \in Way(j)' : Numbered(e)
  BY <1>1 DEF NumbersOK
<1>4. Connected => \A e \in Way(cur) : e \in Way(cur)' \/ e \in lost'
  BY <1>1, <1>2 DEF LinksOK, Feed!client
<1>5. \A e : Coming(e) => Coming(e)'
  BY <1>2 DEF Coming, Feed!EventOf, SameServer, Feed!client
<1>6. /\ at' \in [Told -> Places] /\ number' \in [Told -> Nat]
      /\ heard' \in [Told -> SUBSET Feed!Links] /\ subs' \subseteq Feed!Links
  BY <1>1, <1>2 DEF FeedTypes, Feed!TypeOK
<1>7. \A c \in Told : /\ at'[c] = "fan" => at[c] = "fan" /\ number'[c] = number[c]
                      /\ at[c] = "bus" => at'[c] = "bus"
  BY <1>2
<1> QED BY <1>2, <1>3, <1>4, <1>5, <1>6, <1>7, FlowingStep

LEMMA DeliverStep ==
    ASSUME FeedInv, NEW k \in Feed!Links, Feed!Deliver(k)
    PROVE  FeedInv'
<1>1. Feed!TypeOK /\ FeedTypes /\ LinksOK
  BY DEF FeedInv
<1>2. /\ flight[k] # <<>> /\ flight' = [flight EXCEPT ![k] = Tail(flight[k])]
      /\ UNCHANGED <<feed, source, Feed!server, Feed!client, subs, wire>>
      /\ \/ /\ Len(queue[k]) < QueueSize /\ lost' = lost
            /\ queue' = [queue EXCEPT ![k] = Append(queue[k], Head(flight[k]))]
         \/ lost' = lost \cup {Head(flight[k])} /\ queue' = queue
  BY DEF Feed!Deliver
<1>3. /\ flight[k] \in Seq(Feed!Event) /\ queue[k] \in Seq(Feed!Event) /\ Len(queue[k]) \in Nat
      /\ Len(queue[k]) <= QueueSize
  BY <1>1 DEF FeedTypes, Feed!TypeOK
<1>4. /\ Tail(flight[k]) \in Seq(Feed!Event) /\ Head(flight[k]) \in Feed!Event
      /\ Feed!ToSet(flight[k]) = Feed!ToSet(Tail(flight[k])) \cup {Head(flight[k])}
  BY <1>2, <1>3, SetOfTail
<1> DEFINE n == Head(flight[k])
           q == Append(queue[k], n)
<1>5. n \in Feed!Event
  BY <1>4
<1>6. /\ q \in Seq(Feed!Event) /\ Feed!ToSet(q) = Feed!ToSet(queue[k]) \cup {n}
      /\ Len(q) = Len(queue[k]) + 1
  <2> HIDE DEF n
  <2>1. q \in Seq(Feed!Event) /\ Feed!ToSet(q) = Feed!ToSet(queue[k]) \cup {n}
    BY <1>3, <1>5, FeedSetOfAppend
  <2>2. Len(q) = Len(queue[k]) + 1
    BY <1>3, <1>5, AppendProperties
  <2> QED BY <2>1, <2>2
<1>7. \/ Len(queue[k]) < QueueSize /\ lost' = lost /\ queue' = [queue EXCEPT ![k] = q]
      \/ lost' = lost \cup {n} /\ queue' = queue
  BY <1>2
<1>8. /\ Feed!ToSet(flight[k]) = Feed!ToSet(flight'[k]) \cup {n}
      /\ flight' \in [Feed!Links -> Seq(Feed!Event)]
  BY <1>1, <1>2, <1>4 DEF FeedTypes
<1> HIDE DEF n, q
<1>9. \A j \in Feed!Links : j # k => flight'[j] = flight[j] /\ queue'[j] = queue[j]
  BY <1>1, <1>2, <1>7 DEF FeedTypes
<1>10. queue' \in [Feed!Links -> Seq(Feed!Event)]
  BY <1>1, <1>6, <1>7 DEF FeedTypes
<1>11. Len(queue'[k]) <= QueueSize
  <2>1. CASE queue' = queue
    BY <1>3, <2>1
  <2>2. CASE Len(queue[k]) < QueueSize /\ queue' = [queue EXCEPT ![k] = q]
    <3>1. queue'[k] = q
      BY <1>1, <2>2 DEF FeedTypes
    <3> QED BY <1>3, <1>6, <2>2, <3>1
  <2> QED BY <1>7, <2>1, <2>2
<1>12. \A j \in Feed!Links : Len(queue'[j]) <= QueueSize
  BY <1>1, <1>9, <1>11 DEF Feed!TypeOK
<1>13. \/ Feed!ToSet(queue'[k]) = Feed!ToSet(queue[k]) \cup {n}
       \/ Feed!ToSet(queue'[k]) = Feed!ToSet(queue[k]) /\ n \in lost'
  BY <1>1, <1>6, <1>7 DEF FeedTypes
<1>14. Way(k)' \subseteq Way(k) /\ Way(k) \subseteq Way(k)' \cup lost'
  BY <1>2, <1>8, <1>13 DEF Way
<1>15. \A j \in Feed!Links : j # k => Way(j)' = Way(j)
  BY <1>2, <1>9 DEF Way
<1>16. /\ lost' \subseteq Feed!Event /\ lost \subseteq lost' /\ subs' \subseteq subs
       /\ wire' \in [Feed!Links -> Seq(Feed!Event)] /\ (Connected => cur \in subs')
  BY <1>1, <1>2, <1>5, <1>7 DEF Feed!TypeOK, FeedTypes, LinksOK
<1> QED BY <1>2, <1>8, <1>10, <1>12, <1>14, <1>15, <1>16, StreamingStep

LEMMA StreamStep ==
    ASSUME FeedInv, NEW k \in Feed!Links, Feed!Stream(k)
    PROVE  FeedInv'
<1>1. Feed!TypeOK /\ FeedTypes /\ LinksOK
  BY DEF FeedInv
<1> DEFINE n == Head(queue[k])
           w == Append(wire[k], n)
<1>2. /\ queue[k] # <<>> /\ queue' = [queue EXCEPT ![k] = Tail(queue[k])]
      /\ wire' = [wire EXCEPT ![k] = w]
      /\ UNCHANGED <<feed, source, Feed!server, Feed!client, subs, flight, lost>>
  BY DEF Feed!Stream
<1>3. /\ queue[k] \in Seq(Feed!Event) /\ wire[k] \in Seq(Feed!Event) /\ Len(queue[k]) \in Nat
      /\ Len(queue[k]) <= QueueSize
  BY <1>1 DEF FeedTypes, Feed!TypeOK
<1>4. /\ Tail(queue[k]) \in Seq(Feed!Event) /\ n \in Feed!Event
      /\ Len(Tail(queue[k])) = Len(queue[k]) - 1
      /\ Feed!ToSet(queue[k]) = Feed!ToSet(Tail(queue[k])) \cup {n}
  BY <1>2, <1>3, SetOfTail
<1> HIDE DEF n
<1>5. w \in Seq(Feed!Event) /\ Feed!ToSet(w) = Feed!ToSet(wire[k]) \cup {n}
  BY <1>3, <1>4, FeedSetOfAppend
<1> HIDE DEF w
<1>6. /\ queue' \in [Feed!Links -> Seq(Feed!Event)] /\ queue'[k] = Tail(queue[k])
      /\ wire' \in [Feed!Links -> Seq(Feed!Event)] /\ wire'[k] = w
  BY <1>1, <1>2, <1>4, <1>5 DEF FeedTypes
<1>7. \A j \in Feed!Links : j # k => wire'[j] = wire[j] /\ queue'[j] = queue[j]
  BY <1>1, <1>2 DEF FeedTypes
<1>8. Len(queue'[k]) <= QueueSize
  BY <1>3, <1>4, <1>6
<1>9. \A j \in Feed!Links : Len(queue'[j]) <= QueueSize
  BY <1>1, <1>7, <1>8 DEF Feed!TypeOK
<1>10. Way(k)' \subseteq Way(k) /\ Way(k) \subseteq Way(k)' \cup lost'
  BY <1>2, <1>4, <1>5, <1>6 DEF Way
<1>11. \A j \in Feed!Links : j # k => Way(j)' = Way(j)
  BY <1>2, <1>7 DEF Way
<1>12. /\ lost' \subseteq Feed!Event /\ lost \subseteq lost' /\ subs' \subseteq subs
       /\ flight' \in [Feed!Links -> Seq(Feed!Event)] /\ (Connected => cur \in subs')
  BY <1>1, <1>2 DEF Feed!TypeOK, FeedTypes, LinksOK
<1> QED BY <1>2, <1>6, <1>9, <1>10, <1>11, <1>12, StreamingStep

LEMMA UnsubscribeStep ==
    ASSUME FeedInv, NEW k \in Feed!Links, Feed!Unsubscribe(k)
    PROVE  FeedInv'
<1>1. Feed!TypeOK /\ FeedTypes /\ LinksOK
  BY DEF FeedInv
<1>2. /\ ~Feed!Followed(k) /\ subs' = subs \ {k}
      /\ UNCHANGED <<feed, source, Feed!server, Feed!client, flight, queue, wire, lost>>
  BY DEF Feed!Unsubscribe
<1>3. Connected => cur \in subs'
  BY <1>1, <1>2 DEF LinksOK, Feed!Followed, Connected
<1>4. \A j \in Feed!Links : Way(j)' = Way(j)
  BY <1>2 DEF Way
<1>5. /\ lost' \subseteq Feed!Event /\ lost \subseteq lost' /\ subs' \subseteq subs
      /\ flight' \in [Feed!Links -> Seq(Feed!Event)] /\ queue' \in [Feed!Links -> Seq(Feed!Event)]
      /\ wire' \in [Feed!Links -> Seq(Feed!Event)] /\ \A j \in Feed!Links : Len(queue'[j]) <= QueueSize
  BY <1>1, <1>2 DEF Feed!TypeOK, FeedTypes
<1> QED BY <1>2, <1>3, <1>4, <1>5, StreamingStep

-----------------------------------------------------------------------------
(* The history route and a new process.                                         *)

\* What every step needs that keeps the ring, the numbers and the page's place.
LEMMA StillFollowed ==
    ASSUME FollowedOK, SeenOK, UNCHANGED <<life, ring, page, cur, lastId, lastLife, first>>,
           \A e \in Feed!ToSet(ring) : Keeps(e)
    PROVE  FollowedOK' /\ SeenOK'
<1>1. FollowedOK'
  BY DEF FollowedOK, Keeps
<1>2. SeenOK'
  BY DEF SeenOK, Keeps
<1> QED BY <1>1, <1>2

\* The requests of the other streams.
OthersAsk(k) == \A j \in Feed!Links : j # k => ask'[j] = ask[j]

LEMMA StillAsked ==
    ASSUME AskOK, UNCHANGED <<life, ring>>, NEW k \in Feed!Links, OthersAsk(k), ask'[k].pc = "none",
           \A e \in Feed!ToSet(ring) : Keeps(e)
    PROVE  AskOK'
<1>1. ASSUME NEW j \in Feed!Links, NEW e \in Feed!ToSet(ring),
             ask'[j].pc = "asked", ask'[j].life = life, e.id <= ask'[j].since
      PROVE  Accounted(e)'
  BY <1>1 DEF AskOK, OthersAsk, Keeps
<1>2. ASSUME NEW j \in Feed!Links, NEW e \in Feed!ToSet(ring), ask'[j].pc = "answered",
             NEW n \in ask'[j].events, n.life = life, e.id <= n.id
      PROVE  e \in ask'[j].events \/ (e.id <= ask'[j].since /\ Accounted(e)')
  BY <1>2 DEF AskOK, OthersAsk, Keeps
<1> QED BY <1>1, <1>2 DEF AskOK

LEMMA AnswerStep ==
    ASSUME FeedInv, NEW k \in Feed!Links, Feed!Answer(k)
    PROVE  FeedInv'
<1>1. Feed!TypeOK /\ FeedTypes /\ BusOK /\ NumbersOK /\ LinksOK /\ FollowedOK /\ SeenOK /\ AskOK
  BY DEF FeedInv
<1>2. PICK had : had = Feed!History(ask[k].since)
  OBVIOUS
<1>3. /\ ask[k].pc = "asked"
      /\ ask' = [ask EXCEPT ![k].pc = "answered", ![k].events = had]
      /\ lost' = IF ask[k].life = life THEN lost
                 ELSE lost \cup {e \in Feed!ToSet(ring) : e.id <= ask[k].since
                                                     /\ (e.id < first[k] \/ ~Feed!Followed(k))}
      /\ UNCHANGED <<feed, source, Feed!server, Feed!streams, page, cur, lastId, lastLife, shown,
                     noticed, first>>
  BY <1>2 DEF Feed!Answer
<1>4. had = {e \in Feed!ToSet(ring) : e.id > ask[k].since} /\ Feed!ToSet(ring) \subseteq Feed!Event
  BY <1>1, <1>2, FeedSetOfSeq DEF Feed!History, Feed!TypeOK
<1>5. OthersAsk(k)
  BY <1>1, <1>3 DEF FeedTypes, OthersAsk
<1>6. /\ ask'[k].pc = "answered" /\ ask'[k].since = ask[k].since /\ ask'[k].life = ask[k].life
      /\ ask'[k].events = had /\ ask'[k] \in AskType /\ ask[k].since \in Nat /\ first[k] \in Nat
  BY <1>1, <1>3, <1>4 DEF FeedTypes, AskType
<1>7. ask' \in [Feed!Links -> AskType]
  <2>1. ask' = [ask EXCEPT ![k] = ask'[k]]
    BY <1>1, <1>3 DEF FeedTypes
  <2> QED BY <1>1, <1>6, <2>1 DEF FeedTypes
<1>8. lost \subseteq lost' /\ lost' \subseteq Feed!Event
  BY <1>1, <1>3, <1>4 DEF Feed!TypeOK
<1>9. \A e \in Feed!ToSet(ring) : e.id \in Nat
  BY <1>4 DEF Feed!Event
<1>10. ASSUME NEW e \in Feed!ToSet(ring) PROVE Keeps(e)
  <2>1. OnItsWay(e) => OnItsWay(e)'
    BY <1>3 DEF OnItsWay, Connected, Way, Coming, Feed!EventOf, Feed!server, Feed!streams
  <2>2. ASSUME NEW j \in Feed!Links, Asked(j, e) PROVE Asked(j, e)' \/ e \in lost'
    <3>1. CASE j # k
      BY <1>3, <1>5, <2>2, <3>1 DEF Asked, OthersAsk, Feed!server
    <3>2. CASE j = k
      <4>1. e.id < first[k] /\ (e.id > ask[k].since \/ ask[k].life # life)
        BY <1>3, <2>2, <3>2 DEF Asked
      <4>2. CASE e.id > ask[k].since
        <5>1. e \in had /\ first' = first
          BY <1>3, <1>4, <4>2
        <5> QED BY <1>6, <3>2, <4>1, <5>1 DEF Asked
      <4>3. CASE ~(e.id > ask[k].since)
        <5>1. e.id <= ask[k].since /\ ask[k].life # life
          BY <1>6, <1>9, <4>1, <4>3
        <5> QED BY <1>3, <4>1, <5>1
      <4> QED BY <4>2, <4>3
    <3> QED BY <3>1, <3>2
  <2> QED BY <1>3, <1>8, <2>1, <2>2, KeepsIf
<1>11. Feed!TypeOK'
  BY <1>1, <1>3, <1>8 DEF Feed!TypeOK, Feed!server, Feed!streams
<1>12. FeedTypes'
  BY <1>1, <1>3, <1>7 DEF FeedTypes, Feed!server, Feed!streams
<1>13. BusOK'
  BY <1>1, <1>3 DEF BusOK, Feed!server
<1>14. NumbersOK'
  <2>1. \A e \in Feed!ToSet(ring) : Numbered(e)
    BY <1>1 DEF NumbersOK, Numbered, FeedTypes
  <2>2. \A j \in Feed!Links : \A e \in Way(j) \cup ask'[j].events : Numbered(e)
    BY <1>1, <1>4, <1>5, <1>6, <2>1 DEF NumbersOK, OthersAsk
  <2>3. \A j \in Feed!Links : \A e \in Way(j)' \cup ask'[j].events : Numbered(e)'
    BY <1>3, <2>2 DEF Numbered, Way, Feed!server, Feed!streams
  <2>4. \A j \in Feed!Links : /\ ask'[j].life <= life
                              /\ ask'[j].pc # "none" /\ ask'[j].life = life => ask'[j].since < next
    BY <1>1, <1>3, <1>5, <1>6 DEF NumbersOK, OthersAsk
  <2> QED BY <1>1, <1>3, <2>3, <2>4 DEF NumbersOK, Feed!server
<1>15. LinksOK'
  <2>1. page = "opening" => cur # k
    BY <1>1, <1>3 DEF LinksOK
  <2>2. ~(k > cur)
    BY <1>1, <1>3 DEF LinksOK
  <2>3. \A j \in Feed!Links : j # k => ask'[j] = ask[j]
    BY <1>5 DEF OthersAsk
  <2>4. page = "opening" => cur \in Feed!Links /\ ask[cur].pc = "none"
    BY <1>1 DEF LinksOK, Connected
  <2>5. \A j \in Feed!Links : /\ j > cur => ask'[j].pc = "none"
                              /\ ask'[j].pc # "none" => ask'[j].since <= lastId
    BY <1>1, <1>3, <1>6, <2>2, <2>3 DEF LinksOK
  <2> QED BY <1>1, <1>3, <2>1, <2>3, <2>4, <2>5 DEF LinksOK, Connected, Feed!streams
<1>16. FollowedOK' /\ SeenOK'
  BY <1>1, <1>3, <1>10, StillFollowed DEF Feed!server
<1>17. AskOK'
  <2>1. ASSUME NEW j \in Feed!Links, NEW e \in Feed!ToSet(ring),
               ask'[j].pc = "asked", ask'[j].life = life, e.id <= ask'[j].since
        PROVE  Accounted(e)'
    BY <1>1, <1>5, <1>6, <1>10, <2>1 DEF AskOK, OthersAsk, Keeps
  <2>2. ASSUME NEW e \in Feed!ToSet(ring), e \notin had
        PROVE  e.id <= ask[k].since /\ Accounted(e)'
    <3>1. e.id <= ask[k].since
      BY <1>4, <1>6, <1>9, <2>2
    <3>2. CASE ask[k].life = life
      BY <1>1, <1>3, <1>10, <3>1, <3>2 DEF AskOK, Keeps
    <3>3. CASE ask[k].life # life /\ (e.id < first[k] \/ ~Feed!Followed(k))
      BY <1>3, <3>1, <3>3 DEF Accounted
    <3>4. CASE ~(e.id < first[k] \/ ~Feed!Followed(k))
      <4>1. page = "on"
        <5>1. k = cur /\ page # "off" /\ cur # 0
          BY <3>4 DEF Feed!Followed, Feed!Links
        <5> QED BY <1>1, <1>3, <5>1 DEF Feed!TypeOK, LinksOK
      <4>2. Accounted(e)
        BY <1>1, <4>1 DEF FollowedOK
      <4> QED BY <1>10, <3>1, <4>2 DEF Keeps
    <3> QED BY <3>1, <3>2, <3>3, <3>4
  <2>3. ASSUME NEW j \in Feed!Links, NEW e \in Feed!ToSet(ring), ask'[j].pc = "answered",
               NEW n \in ask'[j].events, n.life = life, e.id <= n.id
        PROVE  e \in ask'[j].events \/ (e.id <= ask'[j].since /\ Accounted(e)')
    <3>1. CASE j = k
      BY <1>6, <2>2, <3>1
    <3>2. CASE j # k
      BY <1>1, <1>5, <1>10, <2>3, <3>2 DEF AskOK, OthersAsk, Keeps
    <3> QED BY <3>1, <3>2
  <2> QED BY <1>3, <2>1, <2>3 DEF AskOK, Feed!server
<1> QED BY <1>11, <1>12, <1>13, <1>14, <1>15, <1>16, <1>17 DEF FeedInv

LEMMA RestartStep ==
    ASSUME FeedInv, Feed!Restart
    PROVE  FeedInv'
<1>1. Feed!TypeOK /\ FeedTypes /\ BusOK /\ NumbersOK /\ LinksOK
  BY DEF FeedInv
<1>2. /\ life' = life + 1 /\ ring' = <<>> /\ next' = 1 /\ inbound' = <<>>
      /\ at' = [c \in Told |-> IF at[c] = "new" THEN "new" ELSE "done"]
      /\ number' = [c \in Told |-> 0] /\ heard' = [c \in Told |-> {}]
      /\ subs' = {} /\ flight' = [k \in Feed!Links |-> <<>>] /\ queue' = flight' /\ wire' = flight'
      /\ page' = IF page = "idle" THEN "idle" ELSE "off"
      /\ ask' = [k \in Feed!Links |-> IF ask[k].pc = "asked" THEN Feed!Unasked ELSE ask[k]]
      /\ first' = [k \in Feed!Links |-> 0] /\ lost' = {} /\ shown' = {}
      /\ UNCHANGED <<feed, source, cur, lastId, lastLife>>
  BY DEF Feed!Restart
<1>3. <<>> \in Seq(Feed!Event) /\ <<>> \in Seq(Told) /\ Len(<<>>) = 0 /\ DOMAIN <<>> = {}
  OBVIOUS
<1>4. Feed!ToSet(ring') = {} /\ \A k \in Feed!Links : Way(k)' = {}
  BY <1>2, FeedSetOfEmpty DEF Way
<1>5. Feed!TypeOK'
  <2>1. \A k \in Feed!Links : Len(queue'[k]) <= QueueSize
    BY <1>2, <1>3
  <2>2. ring' \in Seq(Feed!Event) /\ Len(ring') <= RingCapacity
    BY <1>2, <1>3
  <2>3. inbound' \in Seq(Told) /\ Len(inbound') <= InboundSize
    BY <1>2, <1>3
  <2>4. \A i, j \in DOMAIN ring' : i < j => ring'[i].id < ring'[j].id
    BY <1>2, <1>3
  <2> QED BY <1>1, <1>2, <2>1, <2>2, <2>3, <2>4 DEF Feed!TypeOK
<1>6. \A k \in Feed!Links : ask[k] \in AskType /\ Feed!Unasked \in AskType
  BY <1>1 DEF FeedTypes, AskType, Feed!Unasked
<1>7. \A k \in Feed!Links : ask'[k] = Feed!Unasked \/ ask'[k] = ask[k]
  BY <1>2
<1>8. FeedTypes'
  <2>1. ask' \in [Feed!Links -> AskType]
    BY <1>2, <1>6
  <2>2. at' \in [Told -> Places]
    BY <1>2 DEF Places
  <2>3. flight' \in [Feed!Links -> Seq(Feed!Event)]
    BY <1>2, <1>3
  <2>4. /\ number' \in [Told -> Nat] /\ heard' \in [Told -> SUBSET Feed!Links]
        /\ first' \in [Feed!Links -> Nat]
    BY <1>2
  <2> QED BY <1>1, <1>2, <2>1, <2>2, <2>3, <2>4 DEF FeedTypes
<1>9. BusOK'
  BY <1>2, <1>3 DEF BusOK, Feed!IsInjective
<1>10. NumbersOK'
  <2>1. life \in Nat /\ life' = life + 1 /\ lastLife \in Nat /\ lastLife <= life
    BY <1>1, <1>2 DEF FeedTypes, NumbersOK
  <2>2. \A k \in Feed!Links : \A e \in ask[k].events : e \in Feed!Event /\ e.life <= life
    BY <1>1 DEF NumbersOK, Numbered, FeedTypes, AskType
  <2>3. \A e \in Feed!Event : e.life <= life => Numbered(e)'
    BY <2>1 DEF Feed!Event, Numbered
  <2>4. Feed!Unasked.events = {} /\ Feed!Unasked.life = 0 /\ Feed!Unasked.pc = "none"
    BY DEF Feed!Unasked
  <2>5. \A k \in Feed!Links : \A e \in Way(k)' \cup ask'[k].events : Numbered(e)'
    BY <1>4, <1>7, <2>2, <2>3, <2>4
  <2>6. \A k \in Feed!Links : ask[k].life \in Nat /\ ask[k].life <= life
    BY <1>1 DEF NumbersOK, FeedTypes, AskType
  <2>7. \A k \in Feed!Links : ask'[k].life <= life' /\ ask'[k].life # life'
    BY <1>7, <2>1, <2>4, <2>6
  <2>8. lastLife' <= life' /\ lastLife' # life'
    BY <1>2, <2>1
  <2>9. \A c \in Told : at'[c] # "fan"
    BY <1>2
  <2>10. \A k \in Feed!Links : first'[k] <= next'
    BY <1>2
  <2> QED BY <1>4, <2>5, <2>7, <2>8, <2>9, <2>10 DEF NumbersOK
<1>11. LinksOK'
  <2>1. page' \in {"idle", "off"} /\ (page' = "idle" => cur' = 0)
    BY <1>1, <1>2 DEF LinksOK
  <2>2. \A k \in Feed!Links : ask'[k].pc = "none" \/ ask'[k] = ask[k]
    BY <1>7 DEF Feed!Unasked
  <2>3. \A k \in Feed!Links : /\ k > cur' => ask'[k].pc = "none"
                              /\ ask'[k].pc # "none" => ask'[k].since <= lastId'
    BY <1>1, <1>2, <2>2 DEF LinksOK
  <2> QED BY <2>1, <2>3 DEF LinksOK, Connected
<1>12. FollowedOK' /\ SeenOK' /\ AskOK'
  BY <1>4 DEF FollowedOK, SeenOK, AskOK
<1> QED BY <1>5, <1>8, <1>9, <1>10, <1>11, <1>12 DEF FeedInv

-----------------------------------------------------------------------------
(* The page.                                                                    *)

\* The last number seen moves to that of an event that is shown now.
Newest(events) ==
    \/ lastId' = lastId /\ lastLife' = lastLife
    \/ \E n \in events : n.id > lastId /\ lastId' = n.id /\ lastLife' = n.life

LEMMA ShowEffect ==
    ASSUME Feed!TypeOK, FeedTypes, NEW E \in SUBSET Feed!Event, Feed!Show(E)
    PROVE  /\ shown \subseteq shown' /\ shown' \subseteq Feed!Event
           /\ lost \subseteq lost' /\ lost' \subseteq Feed!Event
           /\ E \subseteq shown' \cup lost'
           /\ Newest(E) /\ lastId' \in Nat /\ lastLife' \in Nat /\ lastId <= lastId'
<1>1. PICK anew : anew = IF feed = "ui" THEN {e \in E : e.id \notin noticed} ELSE E
  OBVIOUS
<1>2. shown' = shown \cup anew /\ lost' = lost \cup (E \ (anew \cup shown)) /\ anew \subseteq E
  BY <1>1 DEF Feed!Show
<1>3. Newest(E)
  <2> DEFINE newest == {e \in E : e.id > lastId /\ \A d \in E : d.id <= e.id}
  <2>1. CASE newest = {}
    <3>1. UNCHANGED <<lastId, lastLife>>
      BY <2>1 DEF Feed!Show
    <3> QED BY <3>1 DEF Newest
  <2>2. CASE newest # {}
    <3>1. \E e \in newest : lastId' = e.id /\ lastLife' = e.life
      BY <2>2 DEF Feed!Show
    <3> QED BY <3>1 DEF Newest
  <2> QED BY <2>1, <2>2
<1>4. lastId' \in Nat /\ lastLife' \in Nat /\ lastId <= lastId'
  BY <1>3 DEF Newest, Feed!Event, FeedTypes
<1> QED BY <1>2, <1>3, <1>4 DEF Feed!TypeOK

LEMMA ShownNumbers ==
    ASSUME FeedTypes, NumbersOK, NEW E \in SUBSET Feed!Event, \A e \in E : Numbered(e), Newest(E)
    PROVE  lastLife' <= life /\ (lastLife' = life => lastId' < next)
BY DEF NumbersOK, Numbered, Newest, FeedTypes, Feed!Event

\* A step of the page that leaves the server alone and moves no stream.
LEMMA PageTypes ==
    ASSUME Feed!TypeOK, FeedTypes, BusOK, UNCHANGED <<feed, source, Feed!server>>,
           shown' \subseteq Feed!Event, lost' \subseteq Feed!Event, subs' \subseteq Feed!Links,
           page' \in {"idle", "off", "opening", "on"}, cur' \in 0..MaxLinks,
           lastId' \in Nat, lastLife' \in Nat,
           flight' \in [Feed!Links -> Seq(Feed!Event)], queue' \in [Feed!Links -> Seq(Feed!Event)],
           wire' \in [Feed!Links -> Seq(Feed!Event)],
           \A k \in Feed!Links : Len(queue'[k]) <= QueueSize,
           ask' \in [Feed!Links -> AskType], first' \in [Feed!Links -> Nat]
    PROVE  Feed!TypeOK' /\ FeedTypes' /\ BusOK'
<1>1. Feed!TypeOK'
  BY DEF Feed!TypeOK, Feed!server
<1>2. FeedTypes'
  BY DEF FeedTypes, Feed!server
<1>3. BusOK'
  BY DEF BusOK, Feed!server
<1> QED BY <1>1, <1>2, <1>3

LEMMA SameOnItsWay ==
    ASSUME UNCHANGED <<feed, Feed!server, Feed!streams, cur>>, Connected => Connected',
           NEW e, OnItsWay(e)
    PROVE  OnItsWay(e)'
BY DEF OnItsWay, Way, Coming, Feed!EventOf, Feed!server, Feed!streams

\* The request of stream k is over.
LEMMA RequestEnds ==
    ASSUME FeedTypes, NumbersOK, LinksOK, UNCHANGED <<feed, Feed!server, Feed!streams, page, cur,
                                                      first>>,
           NEW k \in Feed!Links, ask' = [ask EXCEPT ![k] = Feed!Unasked],
           lastId' \in Nat, lastId <= lastId',
           lastLife' <= life /\ (lastLife' = life => lastId' < next)
    PROVE  /\ ask' \in [Feed!Links -> AskType] /\ OthersAsk(k) /\ ask'[k].pc = "none"
           /\ NumbersOK' /\ LinksOK'
<1>1. /\ Feed!Unasked \in AskType /\ Feed!Unasked.events = {} /\ Feed!Unasked.pc = "none"
      /\ Feed!Unasked.life = 0
  BY DEF Feed!Unasked, AskType
<1>2. ask' \in [Feed!Links -> AskType] /\ ask'[k] = Feed!Unasked
  BY <1>1 DEF FeedTypes
<1>3. \A j \in Feed!Links : j # k => ask'[j] = ask[j]
  BY DEF FeedTypes
<1>4. NumbersOK'
  <2>1. \A j \in Feed!Links : \A e \in Way(j)' \cup ask'[j].events : Numbered(e)'
    <3>1. \A j \in Feed!Links : \A e \in Way(j) \cup ask'[j].events : Numbered(e)
      BY <1>1, <1>2, <1>3 DEF NumbersOK
    <3> QED BY <3>1 DEF Way, Numbered, Feed!server, Feed!streams
  <2>2. life \in Nat
    BY DEF FeedTypes
  <2>3. \A j \in Feed!Links : /\ ask'[j].life <= life
                              /\ ask'[j].pc # "none" /\ ask'[j].life = life => ask'[j].since < next
    BY <1>1, <1>2, <1>3, <2>2 DEF NumbersOK
  <2> QED BY <2>1, <2>3 DEF NumbersOK, Feed!server
<1>5. LinksOK'
  <2>1. \A j \in Feed!Links : ask'[j].pc # "none" => ask'[j] = ask[j] /\ ask[j].since \in Nat
    BY <1>1, <1>2, <1>3 DEF FeedTypes, AskType
  <2>2. \A j \in Feed!Links : ask[j].pc = "none" => ask'[j].pc = "none"
    BY <1>1, <1>2, <1>3
  <2>3. \A j \in Feed!Links : ask'[j].pc # "none" => ask'[j].since <= lastId'
    BY <2>1 DEF LinksOK, FeedTypes
  <2> QED BY <2>2, <2>3 DEF LinksOK, Connected, Feed!streams
<1> QED BY <1>1, <1>2, <1>3, <1>4, <1>5 DEF OthersAsk

LEMMA BackfilledStep ==
    ASSUME FeedInv, NEW k \in Feed!Links, Feed!Backfilled(k)
    PROVE  FeedInv'
<1>1. Feed!TypeOK /\ FeedTypes /\ BusOK /\ NumbersOK /\ LinksOK /\ FollowedOK /\ SeenOK /\ AskOK
  BY DEF FeedInv
<1>2. PICK E : E = ask[k].events
  OBVIOUS
<1>3. /\ ask[k].pc = "answered" /\ ask' = [ask EXCEPT ![k] = Feed!Unasked] /\ Feed!Show(E)
      /\ UNCHANGED <<feed, source, Feed!server, Feed!streams, page, cur, first>>
  BY <1>2 DEF Feed!Backfilled
<1>4. E \in SUBSET Feed!Event /\ \A e \in E : Numbered(e)
  BY <1>1, <1>2 DEF FeedTypes, AskType, NumbersOK
<1>5. /\ shown \subseteq shown' /\ shown' \subseteq Feed!Event
      /\ lost \subseteq lost' /\ lost' \subseteq Feed!Event
      /\ E \subseteq shown' \cup lost'
      /\ Newest(E) /\ lastId' \in Nat /\ lastLife' \in Nat /\ lastId <= lastId'
  BY <1>1, <1>3, <1>4, ShowEffect
<1>6. lastLife' <= life /\ (lastLife' = life => lastId' < next)
  BY <1>1, <1>4, <1>5, ShownNumbers
<1>7. /\ ask' \in [Feed!Links -> AskType] /\ OthersAsk(k) /\ ask'[k].pc = "none"
      /\ NumbersOK' /\ LinksOK'
  BY <1>1, <1>3, <1>5, <1>6, RequestEnds
<1>8. Feed!TypeOK' /\ FeedTypes' /\ BusOK'
  <2>1. /\ subs' \subseteq Feed!Links /\ page' \in {"idle", "off", "opening", "on"}
        /\ cur' \in 0..MaxLinks
        /\ flight' \in [Feed!Links -> Seq(Feed!Event)] /\ queue' \in [Feed!Links -> Seq(Feed!Event)]
        /\ wire' \in [Feed!Links -> Seq(Feed!Event)] /\
               (\A j \in Feed!Links : Len(queue'[j]) <= QueueSize)
        /\ first' \in [Feed!Links -> Nat]
    BY <1>1, <1>3 DEF Feed!TypeOK, FeedTypes, Feed!streams
  <2> QED BY <1>1, <1>3, <1>5, <1>7, <2>1, PageTypes
<1>9. ASSUME NEW e PROVE Keeps(e)
  <2>1. OnItsWay(e) => OnItsWay(e)'
    BY <1>3, SameOnItsWay DEF Connected
  <2>2. ASSUME NEW j \in Feed!Links, Asked(j, e) PROVE Asked(j, e)' \/ e \in shown' \cup lost'
    <3>1. CASE j = k
      BY <1>2, <1>3, <1>5, <2>2, <3>1 DEF Asked
    <3>2. CASE j # k
      BY <1>3, <1>7, <2>2, <3>2 DEF Asked, OthersAsk, Feed!server
    <3> QED BY <3>1, <3>2
  <2> QED BY <1>5, <2>1, <2>2, KeepsIf
<1>10. FollowedOK'
  BY <1>1, <1>3, <1>9 DEF FollowedOK, Keeps, Feed!server
<1>11. SeenOK'
  <2> SUFFICES ASSUME lastLife' = life, NEW e \in Feed!ToSet(ring), e.id <= lastId'
               PROVE  Accounted(e)'
    BY <1>3 DEF SeenOK, Feed!server
  <2>1. CASE lastId' = lastId /\ lastLife' = lastLife
    <3>1. Accounted(e)
      BY <1>1, <2>1 DEF SeenOK
    <3> QED BY <1>9, <3>1 DEF Keeps
  <2>2. CASE \E n \in E : n.id > lastId /\ lastId' = n.id /\ lastLife' = n.life
    <3>1. PICK n \in E : lastId' = n.id /\ lastLife' = n.life
      BY <2>2
    <3>2. e \in E \/ Accounted(e)
      BY <1>1, <1>2, <1>3, <3>1 DEF AskOK
    <3>3. CASE e \in E
      BY <1>5, <3>3 DEF Accounted
    <3>4. CASE Accounted(e)
      BY <1>9, <3>4 DEF Keeps
    <3> QED BY <3>2, <3>3, <3>4
  <2> QED BY <1>5, <2>1, <2>2 DEF Newest
<1>12. AskOK'
  BY <1>1, <1>3, <1>7, <1>9, StillAsked DEF Feed!server
<1> QED BY <1>7, <1>8, <1>10, <1>11, <1>12 DEF FeedInv

LEMMA BackfillFailsStep ==
    ASSUME FeedInv, NEW k \in Feed!Links, Feed!BackfillFails(k)
    PROVE  FeedInv'
<1>1. Feed!TypeOK /\ FeedTypes /\ BusOK /\ NumbersOK /\ LinksOK /\ FollowedOK /\ SeenOK /\ AskOK
  BY DEF FeedInv
<1>2. /\ ask' = [ask EXCEPT ![k] = Feed!Unasked]
      /\ lost' = lost \cup {e \in Feed!ToSet(ring) \ shown : e.id < first[k]}
      /\ UNCHANGED <<feed, source, Feed!server, Feed!streams, page, cur, lastId, lastLife, shown,
                     noticed, first>>
  BY DEF Feed!BackfillFails
<1>3. lost \subseteq lost' /\ lost' \subseteq Feed!Event
  BY <1>1, <1>2, FeedSetOfSeq DEF Feed!TypeOK
<1>4. /\ lastId' \in Nat /\ lastId <= lastId'
      /\ lastLife' <= life /\ (lastLife' = life => lastId' < next)
  BY <1>1, <1>2 DEF FeedTypes, NumbersOK
<1>5. /\ ask' \in [Feed!Links -> AskType] /\ OthersAsk(k) /\ ask'[k].pc = "none"
      /\ NumbersOK' /\ LinksOK'
  BY <1>1, <1>2, <1>4, RequestEnds
<1>6. Feed!TypeOK' /\ FeedTypes' /\ BusOK'
  <2>1. /\ subs' \subseteq Feed!Links /\ page' \in {"idle", "off", "opening", "on"}
        /\ cur' \in 0..MaxLinks /\ lastLife' \in Nat /\ shown' \subseteq Feed!Event
        /\ flight' \in [Feed!Links -> Seq(Feed!Event)] /\ queue' \in [Feed!Links -> Seq(Feed!Event)]
        /\ wire' \in [Feed!Links -> Seq(Feed!Event)] /\
               (\A j \in Feed!Links : Len(queue'[j]) <= QueueSize)
        /\ first' \in [Feed!Links -> Nat]
    BY <1>1, <1>2 DEF Feed!TypeOK, FeedTypes, Feed!streams
  <2> QED BY <1>1, <1>2, <1>3, <1>4, <1>5, <2>1, PageTypes
<1>7. ASSUME NEW e \in Feed!ToSet(ring) PROVE Keeps(e)
  <2>1. OnItsWay(e) => OnItsWay(e)'
    BY <1>2, SameOnItsWay DEF Connected
  <2>2. ASSUME NEW j \in Feed!Links, Asked(j, e) PROVE Asked(j, e)' \/ e \in shown' \cup lost'
    <3>1. CASE j = k
      BY <1>2, <2>2, <3>1 DEF Asked
    <3>2. CASE j # k
      BY <1>2, <1>5, <2>2, <3>2 DEF Asked, OthersAsk, Feed!server
    <3> QED BY <3>1, <3>2
  <2> QED BY <1>2, <1>3, <2>1, <2>2, KeepsIf
<1>8. FollowedOK' /\ SeenOK'
  BY <1>1, <1>2, <1>7, StillFollowed DEF Feed!server
<1>9. AskOK'
  BY <1>1, <1>2, <1>5, <1>7, StillAsked DEF Feed!server
<1> QED BY <1>5, <1>6, <1>8, <1>9 DEF FeedInv

LEMMA ReceiveStep ==
    ASSUME FeedInv, Feed!Receive
    PROVE  FeedInv'
<1>1. Feed!TypeOK /\ FeedTypes /\ BusOK /\ NumbersOK /\ LinksOK /\ FollowedOK /\ SeenOK /\ AskOK
  BY DEF FeedInv
<1>2. PICK n : n = Head(wire[cur])
  OBVIOUS
<1>3. /\ page = "on" /\ wire[cur] # <<>> /\ wire' = [wire EXCEPT ![cur] = Tail(wire[cur])]
      /\ Feed!Show({n})
      /\ UNCHANGED <<feed, source, Feed!server, subs, flight, queue, page, cur, ask, first>>
  BY <1>2 DEF Feed!Receive
<1>4. cur \in Feed!Links /\ wire[cur] \in Seq(Feed!Event)
  BY <1>1, <1>3 DEF LinksOK, Connected, FeedTypes
<1>5. /\ Tail(wire[cur]) \in Seq(Feed!Event) /\ n \in Feed!Event
      /\ Feed!ToSet(wire[cur]) = Feed!ToSet(Tail(wire[cur])) \cup {n}
  BY <1>2, <1>3, <1>4, SetOfTail
<1>6. /\ wire' \in [Feed!Links -> Seq(Feed!Event)] /\ wire'[cur] = Tail(wire[cur])
      /\ \A k \in Feed!Links : k # cur => wire'[k] = wire[k]
  BY <1>1, <1>3, <1>4, <1>5 DEF FeedTypes
<1>7. /\ \A k \in Feed!Links : Way(k)' \subseteq Way(k)
      /\ Way(cur) \subseteq Way(cur)' \cup {n} /\ n \in Way(cur)
  BY <1>3, <1>5, <1>6 DEF Way
<1>8. {n} \in SUBSET Feed!Event /\ \A e \in {n} : Numbered(e)
  BY <1>1, <1>4, <1>5, <1>7 DEF NumbersOK
<1>9. /\ shown \subseteq shown' /\ shown' \subseteq Feed!Event
      /\ lost \subseteq lost' /\ lost' \subseteq Feed!Event
      /\ n \in shown' \cup lost'
      /\ Newest({n}) /\ lastId' \in Nat /\ lastLife' \in Nat /\ lastId <= lastId'
  BY <1>1, <1>3, <1>8, ShowEffect
<1>10. lastLife' <= life /\ (lastLife' = life => lastId' < next)
  BY <1>1, <1>8, <1>9, ShownNumbers
<1>11. Feed!TypeOK' /\ FeedTypes' /\ BusOK'
  <2>1. /\ subs' \subseteq Feed!Links /\ page' \in {"idle", "off", "opening", "on"}
        /\ cur' \in 0..MaxLinks
        /\ flight' \in [Feed!Links -> Seq(Feed!Event)] /\ queue' \in [Feed!Links -> Seq(Feed!Event)]
        /\ (\A j \in Feed!Links : Len(queue'[j]) <= QueueSize)
        /\ first' \in [Feed!Links -> Nat] /\ ask' \in [Feed!Links -> AskType]
    BY <1>1, <1>3 DEF Feed!TypeOK, FeedTypes
  <2> QED BY <1>1, <1>3, <1>6, <1>9, <2>1, PageTypes
<1>12. NumbersOK'
  <2>1. \A k \in Feed!Links : \A e \in Way(k)' \cup ask[k].events : Numbered(e)
    BY <1>1, <1>7 DEF NumbersOK
  <2>2. \A k \in Feed!Links : \A e \in Way(k)' \cup ask'[k].events : Numbered(e)'
    BY <1>3, <2>1 DEF Numbered, Feed!server
  <2> QED BY <1>1, <1>3, <1>10, <2>2 DEF NumbersOK, Feed!server
<1>13. LinksOK'
  <2>1. \A k \in Feed!Links : ask'[k].pc # "none" => ask'[k].since <= lastId'
    <3>1. \A k \in Feed!Links : ask[k].since \in Nat /\ (ask[k].pc # "none" => ask[k].since <= lastId)
      BY <1>1 DEF LinksOK, FeedTypes, AskType
    <3>2. lastId \in Nat /\ ask' = ask
      BY <1>1, <1>3 DEF FeedTypes
    <3> QED BY <1>9, <3>1, <3>2
  <2> QED BY <1>1, <1>3, <2>1 DEF LinksOK, Connected
<1>14. ASSUME NEW e PROVE Keeps(e)
  <2>1. OnItsWay(e) => OnItsWay(e)' \/ e \in shown' \cup lost'
    <3>1. Coming(e) => Coming(e)'
      BY <1>3 DEF Coming, Feed!EventOf, Feed!server
    <3>2. e \in Way(cur) => e \in Way(cur)' \/ e \in shown' \cup lost'
      BY <1>7, <1>9
    <3> QED BY <1>3, <3>1, <3>2 DEF OnItsWay, Connected
  <2>2. \A k \in Feed!Links : Asked(k, e) => Asked(k, e)'
    BY <1>3 DEF Asked, Feed!server
  <2> QED BY <1>9, <2>1, <2>2, KeepsIf
<1>15. \A e \in Feed!ToSet(ring) : Accounted(e)'
  BY <1>1, <1>3, <1>14 DEF FollowedOK, Keeps
<1>16. FollowedOK' /\ SeenOK'
  BY <1>3, <1>15 DEF FollowedOK, SeenOK, Feed!server
<1>17. AskOK'
  BY <1>1, <1>3, <1>15 DEF AskOK, Feed!server
<1> QED BY <1>11, <1>12, <1>13, <1>16, <1>17 DEF FeedInv

LEMMA LoadStep ==
    ASSUME FeedInv, Feed!Load
    PROVE  FeedInv'
<1>1. Feed!TypeOK /\ FeedTypes /\ BusOK /\ NumbersOK /\ LinksOK /\ SeenOK /\ AskOK
  BY DEF FeedInv
<1>2. /\ page = "idle" /\ page' = "off" /\ Feed!Show({})
      /\ UNCHANGED <<feed, source, Feed!server, Feed!streams, cur, ask, first>>
  BY DEF Feed!Load, Feed!ToolHistory
<1>3. {} \in SUBSET Feed!Event
  OBVIOUS
<1>4. /\ shown \subseteq shown' /\ shown' \subseteq Feed!Event
      /\ lost \subseteq lost' /\ lost' \subseteq Feed!Event
      /\ lastId' = lastId /\ lastLife' = lastLife
  BY <1>1, <1>2, <1>3, ShowEffect DEF Newest
<1>5. Feed!TypeOK' /\ FeedTypes' /\ BusOK'
  <2>1. /\ subs' \subseteq Feed!Links /\ page' \in {"idle", "off", "opening", "on"}
        /\ cur' \in 0..MaxLinks /\ lastId' \in Nat /\ lastLife' \in Nat
        /\ flight' \in [Feed!Links -> Seq(Feed!Event)] /\ queue' \in [Feed!Links -> Seq(Feed!Event)]
        /\ wire' \in [Feed!Links -> Seq(Feed!Event)] /\
               (\A k \in Feed!Links : Len(queue'[k]) <= QueueSize)
        /\ first' \in [Feed!Links -> Nat] /\ ask' \in [Feed!Links -> AskType]
    BY <1>1, <1>2, <1>4 DEF Feed!TypeOK, FeedTypes, Feed!streams
  <2> QED BY <1>1, <1>2, <1>4, <2>1, PageTypes
<1>6. NumbersOK'
  BY <1>1, <1>2, <1>4 DEF NumbersOK, Numbered, Way, Feed!server, Feed!streams
<1>7. LinksOK'
  BY <1>1, <1>2, <1>4 DEF LinksOK, Connected
<1>8. ASSUME NEW e PROVE Keeps(e)
  <2>1. ~OnItsWay(e)
    BY <1>2 DEF OnItsWay, Connected
  <2>2. \A k \in Feed!Links : Asked(k, e) => Asked(k, e)'
    BY <1>2 DEF Asked, Feed!server
  <2> QED BY <1>4, <2>1, <2>2, KeepsIf
<1>9. FollowedOK'
  BY <1>2 DEF FollowedOK
<1>10. SeenOK'
  BY <1>1, <1>2, <1>4, <1>8 DEF SeenOK, Keeps, Feed!server
<1>11. AskOK'
  BY <1>1, <1>2, <1>8 DEF AskOK, Keeps, Feed!server
<1> QED BY <1>5, <1>6, <1>7, <1>9, <1>10, <1>11 DEF FeedInv

LEMMA ConnectStep ==
    ASSUME FeedInv, Feed!Connect
    PROVE  FeedInv'
<1>1. Feed!TypeOK /\ FeedTypes /\ BusOK /\ NumbersOK /\ LinksOK /\ SeenOK /\ AskOK
  BY DEF FeedInv
<1>2. PICK k : k = cur + 1
  OBVIOUS
<1>3. /\ page = "off" /\ cur < MaxLinks /\ cur' = k
      /\ page' = IF feed = "ui" THEN "opening" ELSE "on"
      /\ first' = [first EXCEPT ![k] = next] /\ subs' = subs \cup {k}
      /\ lost' = IF feed = "ui" THEN lost ELSE lost \cup (Feed!ToSet(ring) \ shown)
      /\ UNCHANGED <<feed, source, Feed!server, flight, queue, wire, lastId, lastLife, shown,
                     noticed, ask>>
  BY <1>2 DEF Feed!Connect
<1>4. k \in Feed!Links /\ k > cur /\ cur' \in 0..MaxLinks /\ k # 0
  BY <1>1, <1>2, <1>3 DEF Feed!TypeOK, Feed!Links
<1>5. /\ first' \in [Feed!Links -> Nat] /\ first'[k] = next
      /\ \A j \in Feed!Links : j # k => first'[j] = first[j]
  BY <1>1, <1>3, <1>4 DEF FeedTypes
<1>6. lost \subseteq lost' /\ lost' \subseteq Feed!Event /\ Feed!ToSet(ring) \subseteq Feed!Event
  BY <1>1, <1>3, FeedSetOfSeq DEF Feed!TypeOK
<1>7. Feed!TypeOK' /\ FeedTypes' /\ BusOK'
  <2>1. /\ subs' \subseteq Feed!Links /\ page' \in {"idle", "off", "opening", "on"}
        /\ lastId' \in Nat /\ lastLife' \in Nat /\ shown' \subseteq Feed!Event
        /\ flight' \in [Feed!Links -> Seq(Feed!Event)] /\ queue' \in [Feed!Links -> Seq(Feed!Event)]
        /\ wire' \in [Feed!Links -> Seq(Feed!Event)] /\
               (\A j \in Feed!Links : Len(queue'[j]) <= QueueSize)
        /\ ask' \in [Feed!Links -> AskType]
    BY <1>1, <1>3, <1>4 DEF Feed!TypeOK, FeedTypes
  <2> QED BY <1>1, <1>3, <1>4, <1>5, <1>6, <2>1, PageTypes
<1>8. NumbersOK'
  <2>1. \A j \in Feed!Links : \A e \in Way(j)' \cup ask'[j].events : Numbered(e)'
    BY <1>1, <1>3 DEF NumbersOK, Numbered, Way, Feed!server
  <2>2. \A j \in Feed!Links : first'[j] <= next'
    <3>1. next' = next /\ next \in Nat
      BY <1>1, <1>3 DEF FeedTypes, Feed!server
    <3> QED BY <1>1, <1>5, <3>1 DEF NumbersOK
  <2> QED BY <1>1, <1>3, <2>1, <2>2 DEF NumbersOK, Feed!server
<1>9. LinksOK'
  <2>1. \A j \in Feed!Links : j > k => j > cur
    BY <1>1, <1>2 DEF Feed!TypeOK, Feed!Links
  <2>2. ask[k].pc = "none"
    BY <1>1, <1>4 DEF LinksOK
  <2> QED BY <1>1, <1>3, <1>4, <2>1, <2>2 DEF LinksOK, Connected
<1>10. ASSUME NEW e PROVE Keeps(e)
  <2>1. ~OnItsWay(e)
    BY <1>3 DEF OnItsWay, Connected
  <2>2. ask[k].pc = "none"
    BY <1>1, <1>4 DEF LinksOK
  <2>3. \A j \in Feed!Links : Asked(j, e) => Asked(j, e)'
    BY <1>3, <1>5, <2>2 DEF Asked, Feed!server
  <2> QED BY <1>3, <1>6, <2>1, <2>3, KeepsIf
<1>11. FollowedOK'
  <2>1. CASE feed = "ui"
    <3>1. page' = "opening" /\ ring' = ring /\ first'[cur'] = next
      BY <1>3, <1>5, <2>1 DEF Feed!server
    <3>2. \A e \in Feed!ToSet(ring) : ~(e.id >= next)
      BY <1>1, <1>6 DEF NumbersOK, Feed!Event, FeedTypes
    <3> QED BY <3>1, <3>2 DEF FollowedOK
  <2>2. CASE feed # "ui"
    <3>1. \A e \in Feed!ToSet(ring) : e \in shown' \cup lost'
      BY <1>3, <2>2
    <3> QED BY <1>3, <3>1 DEF FollowedOK, Accounted, Feed!server
  <2> QED BY <2>1, <2>2
<1>12. SeenOK'
  BY <1>1, <1>3, <1>10 DEF SeenOK, Keeps, Feed!server
<1>13. AskOK'
  BY <1>1, <1>3, <1>10 DEF AskOK, Keeps, Feed!server
<1> QED BY <1>7, <1>8, <1>9, <1>11, <1>12, <1>13 DEF FeedInv

LEMMA OpenedStep ==
    ASSUME FeedInv, Feed!Opened
    PROVE  FeedInv'
<1>1. Feed!TypeOK /\ FeedTypes /\ BusOK /\ NumbersOK /\ LinksOK /\ FollowedOK /\ SeenOK /\ AskOK
  BY DEF FeedInv
<1>2. PICK new : new = [pc |-> "asked", since |-> lastId, life |-> lastLife, events |-> {}]
  OBVIOUS
<1>3. /\ page = "opening" /\ page' = "on" /\ ask' = [ask EXCEPT ![cur] = new]
      /\ UNCHANGED <<feed, source, Feed!server, Feed!streams, cur, lastId, lastLife, shown,
                     noticed, first, lost>>
  BY <1>2 DEF Feed!Opened
<1>4. cur \in Feed!Links /\ ask[cur].pc = "none" /\ cur \in subs
  BY <1>1, <1>3 DEF LinksOK, Connected
<1>5. /\ new \in AskType /\ new.pc = "asked" /\ new.since = lastId /\ new.life = lastLife
      /\ new.events = {}
  BY <1>1, <1>2 DEF AskType, FeedTypes
<1>6. /\ ask' \in [Feed!Links -> AskType] /\ ask'[cur] = new
      /\ \A j \in Feed!Links : j # cur => ask'[j] = ask[j]
  BY <1>1, <1>3, <1>4, <1>5 DEF FeedTypes
<1>7. Feed!TypeOK' /\ FeedTypes' /\ BusOK'
  <2>1. /\ subs' \subseteq Feed!Links /\ page' \in {"idle", "off", "opening", "on"}
        /\ cur' \in 0..MaxLinks
        /\ lastId' \in Nat /\ lastLife' \in Nat /\ shown' \subseteq Feed!Event
        /\ lost' \subseteq Feed!Event
        /\ flight' \in [Feed!Links -> Seq(Feed!Event)] /\ queue' \in [Feed!Links -> Seq(Feed!Event)]
        /\ wire' \in [Feed!Links -> Seq(Feed!Event)] /\
               (\A j \in Feed!Links : Len(queue'[j]) <= QueueSize)
        /\ first' \in [Feed!Links -> Nat]
    BY <1>1, <1>3 DEF Feed!TypeOK, FeedTypes, Feed!streams
  <2> QED BY <1>1, <1>3, <1>6, <2>1, PageTypes
<1>8. NumbersOK'
  <2>1. \A j \in Feed!Links : \A e \in Way(j) \cup ask'[j].events : Numbered(e)
    BY <1>1, <1>4, <1>5, <1>6 DEF NumbersOK
  <2>2. \A j \in Feed!Links : \A e \in Way(j)' \cup ask'[j].events : Numbered(e)'
    BY <1>3, <2>1 DEF Way, Numbered, Feed!server, Feed!streams
  <2>3. \A j \in Feed!Links : /\ ask'[j].life <= life
                              /\ ask'[j].pc # "none" /\ ask'[j].life = life => ask'[j].since < next
    BY <1>1, <1>5, <1>6 DEF NumbersOK
  <2> QED BY <1>1, <1>3, <2>2, <2>3 DEF NumbersOK, Feed!server
<1>9. LinksOK'
  <2>1. lastId <= lastId /\ ~(cur > cur)
    BY <1>1 DEF FeedTypes, Feed!TypeOK
  <2>2. \A j \in Feed!Links : /\ j > cur => ask'[j].pc = "none"
                              /\ ask'[j].pc # "none" => ask'[j].since <= lastId
    BY <1>1, <1>5, <1>6, <2>1 DEF LinksOK
  <2> QED BY <1>3, <1>4, <2>2 DEF LinksOK, Connected, Feed!streams
<1>10. ASSUME NEW e PROVE Keeps(e)
  <2>1. OnItsWay(e) => OnItsWay(e)'
    BY <1>3, SameOnItsWay DEF Connected
  <2>2. \A j \in Feed!Links : Asked(j, e) => Asked(j, e)'
    BY <1>3, <1>4, <1>6 DEF Asked, Feed!server
  <2> QED BY <1>3, <2>1, <2>2, KeepsIf
<1>11. ASSUME NEW e \in Feed!ToSet(ring), lastLife = life, e.id <= lastId
       PROVE  Accounted(e)'
  <2>1. Accounted(e)
    BY <1>1, <1>11 DEF SeenOK
  <2> QED BY <1>10, <2>1 DEF Keeps
<1>12. ASSUME NEW e \in Feed!ToSet(ring) PROVE Accounted(e)'
  <2>1. e.id \in Nat /\ first[cur] \in Nat /\ lastId \in Nat
    <3>1. Feed!ToSet(ring) \subseteq Feed!Event
      BY <1>1, FeedSetOfSeq DEF Feed!TypeOK
    <3> QED BY <1>1, <1>4, <3>1 DEF FeedTypes, Feed!Event
  <2>2. CASE e.id >= first[cur]
    <3>1. Accounted(e)
      BY <1>1, <1>3, <2>2 DEF FollowedOK
    <3> QED BY <1>10, <3>1 DEF Keeps
  <2>3. CASE e.id < first[cur] /\ (e.id > lastId \/ lastLife # life)
    <3>1. Asked(cur, e)'
      BY <1>3, <1>5, <1>6, <2>3 DEF Asked, Feed!server
    <3> QED BY <1>3, <1>4, <3>1 DEF Accounted
  <2>4. CASE lastLife = life /\ e.id <= lastId
    BY <1>11, <2>4
  <2> QED BY <2>1, <2>2, <2>3, <2>4
<1>13. FollowedOK' /\ SeenOK'
  BY <1>3, <1>12 DEF FollowedOK, SeenOK, Feed!server
<1>14. AskOK'
  <2>1. ASSUME NEW j \in Feed!Links, NEW e \in Feed!ToSet(ring), ask'[j].pc = "answered",
               NEW n \in ask'[j].events, n.life = life, e.id <= n.id
        PROVE  e \in ask'[j].events \/ (e.id <= ask'[j].since /\ Accounted(e)')
    <3>1. j # cur
      BY <1>5, <1>6, <2>1
    <3> QED BY <1>1, <1>6, <1>12, <2>1, <3>1 DEF AskOK
  <2> QED BY <1>3, <1>12, <2>1 DEF AskOK, Feed!server
<1> QED BY <1>7, <1>8, <1>9, <1>13, <1>14 DEF FeedInv

LEMMA BrokenStep ==
    ASSUME FeedInv, Feed!Broken
    PROVE  FeedInv'
<1>1. Feed!TypeOK /\ FeedTypes /\ BusOK /\ NumbersOK /\ LinksOK /\ SeenOK /\ AskOK
  BY DEF FeedInv
<1>2. PICK U : U = Feed!UnderWay(cur)
  OBVIOUS
<1>3. /\ page \in {"opening", "on"} /\ page' = "off"
      /\ wire' = [wire EXCEPT ![cur] = <<>>] /\ queue' = [queue EXCEPT ![cur] = <<>>]
      /\ flight' = [flight EXCEPT ![cur] = <<>>]
      /\ lost' = lost \cup {e \in U \ shown : e.id <= lastId}
      /\ UNCHANGED <<feed, source, Feed!server, subs, cur, lastId, lastLife, shown, noticed, ask,
                     first>>
  BY <1>2 DEF Feed!Broken
<1>4. cur \in Feed!Links /\ <<>> \in Seq(Feed!Event) /\ Len(<<>>) = 0
  BY <1>1, <1>3 DEF LinksOK, Connected
<1>5. Way(cur) \subseteq U /\ \A e : Coming(e) => e \in U
  BY <1>2 DEF Feed!UnderWay, Way, Coming
<1>6. U \subseteq Feed!Event
  <2>1. Feed!ToSet(wire[cur]) \cup Feed!ToSet(queue[cur]) \cup Feed!ToSet(flight[cur]) \subseteq Feed!Event
    BY <1>1, <1>4, FeedSetOfSeq DEF FeedTypes
  <2>2. \A c \in Told : Feed!EventOf(c) \in Feed!Event
    BY <1>1 DEF Feed!EventOf, Feed!Event, FeedTypes
  <2> QED BY <1>2, <2>1, <2>2 DEF Feed!UnderWay
<1>7. lost \subseteq lost' /\ lost' \subseteq Feed!Event
  BY <1>1, <1>3, <1>6 DEF Feed!TypeOK
<1>8. /\ flight' \in [Feed!Links -> Seq(Feed!Event)] /\ queue' \in [Feed!Links -> Seq(Feed!Event)]
      /\ wire' \in [Feed!Links -> Seq(Feed!Event)]
      /\ wire'[cur] = <<>> /\ queue'[cur] = <<>> /\ flight'[cur] = <<>>
      /\ \A k \in Feed!Links : k # cur => /\ wire'[k] = wire[k] /\ queue'[k] = queue[k]
                                          /\ flight'[k] = flight[k]
  BY <1>1, <1>3, <1>4 DEF FeedTypes
<1>9. \A k \in Feed!Links : Way(k)' \subseteq Way(k)
  BY <1>8, FeedSetOfEmpty DEF Way
<1>10. Feed!TypeOK' /\ FeedTypes' /\ BusOK'
  <2>1. \A k \in Feed!Links : Len(queue'[k]) <= QueueSize
    <3>1. Len(queue'[cur]) <= QueueSize
      BY <1>4, <1>8
    <3>2. \A k \in Feed!Links : k # cur => Len(queue'[k]) <= QueueSize
      BY <1>1, <1>8 DEF Feed!TypeOK
    <3> QED BY <3>1, <3>2
  <2>2. /\ subs' \subseteq Feed!Links /\ page' \in {"idle", "off", "opening", "on"}
        /\ cur' \in 0..MaxLinks
        /\ lastId' \in Nat /\ lastLife' \in Nat /\ shown' \subseteq Feed!Event
        /\ first' \in [Feed!Links -> Nat] /\ ask' \in [Feed!Links -> AskType]
    BY <1>1, <1>3 DEF Feed!TypeOK, FeedTypes
  <2> QED BY <1>1, <1>3, <1>7, <1>8, <2>1, <2>2, PageTypes
<1>11. NumbersOK'
  <2>1. \A k \in Feed!Links : \A e \in Way(k)' \cup ask[k].events : Numbered(e)
    BY <1>1, <1>9 DEF NumbersOK
  <2>2. \A k \in Feed!Links : \A e \in Way(k)' \cup ask'[k].events : Numbered(e)'
    BY <1>3, <2>1 DEF Numbered, Feed!server
  <2> QED BY <1>1, <1>3, <2>2 DEF NumbersOK, Feed!server
<1>12. LinksOK'
  BY <1>1, <1>3 DEF LinksOK, Connected
<1>13. ASSUME NEW e, e.id <= lastId PROVE Keeps(e)
  <2>1. OnItsWay(e) => e \in shown' \cup lost'
    BY <1>3, <1>5, <1>13 DEF OnItsWay
  <2>2. \A k \in Feed!Links : Asked(k, e) => Asked(k, e)'
    BY <1>3 DEF Asked, Feed!server
  <2> QED BY <1>3, <1>7, <2>1, <2>2, KeepsIf
<1>14. FollowedOK'
  BY <1>3 DEF FollowedOK
<1>15. SeenOK'
  BY <1>1, <1>3, <1>13 DEF SeenOK, Keeps, Feed!server
<1>16. AskOK'
  <2>1. ASSUME NEW k \in Feed!Links, NEW e \in Feed!ToSet(ring), ask[k].pc # "none",
               e.id <= ask[k].since
        PROVE  e.id <= lastId
    <3>1. ask[k].since \in Nat /\ lastId \in Nat /\ ask[k].since <= lastId
      BY <1>1, <2>1 DEF LinksOK, FeedTypes, AskType
    <3>2. e.id \in Nat
      <4>1. Feed!ToSet(ring) \subseteq Feed!Event
        BY <1>1, FeedSetOfSeq DEF Feed!TypeOK
      <4> QED BY <4>1 DEF Feed!Event
    <3> QED BY <2>1, <3>1, <3>2
  <2>2. ASSUME NEW k \in Feed!Links, NEW e \in Feed!ToSet(ring),
               ask[k].pc = "asked", ask[k].life = life, e.id <= ask[k].since
        PROVE  Accounted(e)'
    <3>1. Accounted(e) /\ e.id <= lastId
      BY <1>1, <2>1, <2>2 DEF AskOK
    <3> QED BY <1>13, <3>1 DEF Keeps
  <2>3. ASSUME NEW k \in Feed!Links, NEW e \in Feed!ToSet(ring), ask[k].pc = "answered",
               NEW n \in ask[k].events, n.life = life, e.id <= n.id, e \notin ask[k].events
        PROVE  e.id <= ask[k].since /\ Accounted(e)'
    <3>1. e.id <= ask[k].since /\ Accounted(e)
      BY <1>1, <2>3 DEF AskOK
    <3>2. e.id <= lastId
      BY <2>1, <2>3, <3>1
    <3> QED BY <1>13, <3>1, <3>2 DEF Keeps
  <2> QED BY <1>3, <2>2, <2>3 DEF AskOK, Feed!server
<1> QED BY <1>10, <1>11, <1>12, <1>14, <1>15, <1>16 DEF FeedInv

-----------------------------------------------------------------------------
(* The invariant, and what it says of a page at rest.                           *)

LEMMA FeedInitInv ==
    ASSUME Feed!Init
    PROVE  FeedInv
<1>1. <<>> \in Seq(Feed!Event) /\ <<>> \in Seq(Told) /\ Len(<<>>) = 0 /\ DOMAIN <<>> = {}
  OBVIOUS
<1>2. /\ feed \in {"ui", "apps"} /\ source \in Sources
      /\ life = 1 /\ ring = <<>> /\ next = 1 /\ inbound = <<>>
      /\ at = [c \in Told |-> "new"] /\ number = [c \in Told |-> 0]
      /\ heard = [c \in Told |-> {}]
      /\ subs = {} /\ cur = 0 /\ lastId = 0 /\ lastLife = 1 /\ shown = {}
      /\ flight = [k \in Feed!Links |-> <<>>] /\ queue = [k \in Feed!Links |-> <<>>]
      /\ wire = [k \in Feed!Links |-> <<>>]
      /\ page \in {"off", "idle"}
      /\ ask = [k \in Feed!Links |-> Feed!Unasked] /\ first = [k \in Feed!Links |-> 0]
      /\ lost = {}
  BY DEF Feed!Init
<1>3. Feed!ToSet(ring) = {} /\ \A k \in Feed!Links : Way(k) = {}
  BY <1>2, FeedSetOfEmpty DEF Way
<1>4. /\ Feed!Unasked \in AskType /\ Feed!Unasked.events = {} /\ Feed!Unasked.pc = "none"
      /\ Feed!Unasked.life = 0
  BY DEF Feed!Unasked, AskType
<1>5. Feed!TypeOK
  <2>1. \A k \in Feed!Links : Len(queue[k]) <= QueueSize
    BY <1>1, <1>2
  <2>2. /\ ring \in Seq(Feed!Event) /\ Len(ring) <= RingCapacity /\ inbound \in Seq(Told)
        /\ Len(inbound) <= InboundSize
    BY <1>1, <1>2
  <2>3. \A i, j \in DOMAIN ring : i < j => ring[i].id < ring[j].id
    BY <1>1, <1>2
  <2> QED BY <1>2, <2>1, <2>2, <2>3 DEF Feed!TypeOK
<1>6. FeedTypes
  <2>1. ask \in [Feed!Links -> AskType]
    BY <1>2, <1>4
  <2>2. at \in [Told -> Places]
    BY <1>2 DEF Places
  <2>3. /\ flight \in [Feed!Links -> Seq(Feed!Event)] /\ queue \in [Feed!Links -> Seq(Feed!Event)]
        /\ wire \in [Feed!Links -> Seq(Feed!Event)]
    BY <1>1, <1>2
  <2> QED BY <1>2, <2>1, <2>2, <2>3 DEF FeedTypes
<1>7. BusOK
  BY <1>1, <1>2 DEF BusOK, Feed!IsInjective
<1>8. NumbersOK
  BY <1>2, <1>3, <1>4 DEF NumbersOK
<1>9. LinksOK
  BY <1>2, <1>4 DEF LinksOK, Connected
<1>10. FollowedOK /\ SeenOK /\ AskOK
  BY <1>3 DEF FollowedOK, SeenOK, AskOK
<1> QED BY <1>5, <1>6, <1>7, <1>8, <1>9, <1>10 DEF FeedInv

LEMMA FeedStepInv ==
    ASSUME FeedInv, [Feed!Next]_(Feed!vars)
    PROVE  FeedInv'
<1>1. CASE UNCHANGED Feed!vars
  <2>1. Feed!TypeOK' /\ FeedTypes' /\ BusOK' /\ NumbersOK' /\ LinksOK'
    BY <1>1 DEF FeedInv, Feed!TypeOK, FeedTypes, BusOK, NumbersOK, Numbered, Way, LinksOK,
       Connected, Feed!vars,
                Feed!server, Feed!streams, Feed!client
  <2>2. \A e : Accounted(e) => Accounted(e)'
    BY <1>1 DEF Accounted, OnItsWay, Connected, Way, Coming, Feed!EventOf, Asked, Feed!vars,
       Feed!server, Feed!streams,
                Feed!client
  <2>3. FollowedOK' /\ SeenOK' /\ AskOK'
    BY <1>1, <2>2 DEF FeedInv, FollowedOK, SeenOK, AskOK, Feed!vars, Feed!server, Feed!client
  <2> QED BY <2>1, <2>3 DEF FeedInv
<1>2. CASE \E c \in Told : Feed!Published(c) \/ Feed!AppendEvent(c) \/ Feed!FanOut(c)
  BY <1>2, PublishedStep, AppendEventStep, FanOutStep
<1>3. CASE \E k \in Feed!Links : \/ Feed!Deliver(k) \/ Feed!Stream(k) \/ Feed!Unsubscribe(k)
                                 \/ Feed!Answer(k) \/ Feed!Backfilled(k) \/ Feed!BackfillFails(k)
  BY <1>3, DeliverStep, StreamStep, UnsubscribeStep, AnswerStep, BackfilledStep, BackfillFailsStep
<1>4. CASE Feed!Consume \/ Feed!Restart \/ Feed!Load \/ Feed!Connect \/ Feed!Opened \/
          Feed!Receive \/ Feed!Broken
  BY <1>4, ConsumeStep, RestartStep, LoadStep, ConnectStep, OpenedStep, ReceiveStep, BrokenStep
<1> QED BY <1>1, <1>2, <1>3, <1>4 DEF Feed!Next

LEMMA QuietAccounts ==
    ASSUME FeedInv
    PROVE  Feed!CaughtUp
<1> SUFFICES ASSUME Feed!Quiet, NEW e \in Feed!ToSet(ring)
             PROVE  e \in shown \cup lost
  BY DEF Feed!CaughtUp
<1>1. Accounted(e)
  BY DEF FeedInv, FollowedOK, Feed!Quiet
<1>2. ~OnItsWay(e)
  BY DEF OnItsWay, Coming, Way, Feed!Quiet, Feed!UnderWay
<1>3. \A k \in Feed!Links : ~Asked(k, e)
  BY DEF Asked, Feed!Quiet
<1> QED BY <1>1, <1>2, <1>3 DEF Accounted

\* Every event of the log is on the page, on its way to it or in what is known to be lost:
\* the inductive invariant of EventFeed.
LEMMA FeedSpecInv == Feed!Spec => []FeedInv
<1>1. Feed!Init => FeedInv
  BY FeedInitInv
<1>2. FeedInv /\ [Feed!Next]_(Feed!vars) => FeedInv'
  BY FeedStepInv
<1> QED BY <1>1, <1>2, PTL DEF Feed!Spec

\* What the log, the bus, the streams and the page keep has its type.
THEOREM SpecFeedTypeOK == Feed!Spec => []Feed!TypeOK
<1>1. FeedInv => Feed!TypeOK
  BY DEF FeedInv
<1> QED BY <1>1, FeedSpecInv, PTL

\* A page that is connected, with nothing under way to it, shows every event that the log
\* retains, but those that a full queue dropped, a backfill failed to bring, a later number
\* overtook or a restart numbered again (`lost' of EventFeed): however often UiEventLog evicts,
\* SseBus drops, the server restarts and the page reconnects.
THEOREM SpecCaughtUp == Feed!Spec => []CaughtUp
<1>1. FeedInv => CaughtUp
  BY QuietAccounts DEF CaughtUp
<1> QED BY <1>1, FeedSpecInv, PTL

-----------------------------------------------------------------------------
(* HerdrInbox: no live terminal loses its row while herdr answers.               *)

Tidings == [kind : {"pane", "workspace"}, pane : Int,
            session : Sessions \cup {NoSession}, n : Nat]

\* What the handlers know of the streams: what has closed, and what is still to be read.
HerdrTyped ==
    /\ live \subseteq Tabs /\ mishaps \in Nat
    /\ opened \in [Sessions -> Nat] /\ tabPane \in [Tabs -> Int]
    /\ creation \in [Tabs -> {"none", "joining", "founding", "up", "failed"}]
    /\ del \in [Tabs -> {"none", "kill", "row", "done"}]
    /\ closed \in Seq(Int)
    /\ stream \in Seq(Tidings)

\* A tab that is open was made by its creation, and one whose row a thread deletes is not.
HandsOff ==
    \A t \in Tabs :
        /\ t \in live \/ del[t] # "none" => creation[t] # "none"
        /\ del[t] = "row" => t \notin live

\* A workspace whose closing is still to be read has no tab: the session was not made anew.
NothingThere == \A i \in 1..Len(stream) : In(stream[i].session) = {}

HerdrInv == HerdrTyped /\ HandsOff /\ NothingThere

\* A finite set is read off in a sequence of its elements.
LEMMA ReadOff ==
    ASSUME NEW S, IsFiniteSet(S)
    PROVE  SetToSeq(S) \in Seq(S)
<1> DEFINE n == Cardinality(S)
<1>1. n \in Nat /\ ExistsBijection(1..n, S)
  BY FS_CardinalityType
<1>2. PICK f \in Bijection(1..n, S) : TRUE
  BY <1>1 DEF ExistsBijection
<1>3. f \in [1..n -> S] /\ \A a, b \in 1..n : f[a] = f[b] => a = b
  BY <1>2, Zenon DEF Bijection, Injection, IsInjective
<1>4. IsInjective(f)
  BY <1>3 DEF IsInjective
<1>5. SetToSeq(S) \in [1..n -> S]
  BY <1>3, <1>4, Zenon DEF SetToSeq
<1>6. QED
  BY <1>1, <1>5

LEMMA PanesReadOff ==
    ASSUME HerdrTyped, NEW T \in SUBSET live
    PROVE  Gone(T) \in Seq(Int) /\ Emptied(T) \subseteq Sessions
           /\ SetToSeq(Emptied(T)) \in Seq(Emptied(T))
<1>1. IsFiniteSet(Tabs) /\ IsFiniteSet(Sessions)
  BY HerdrAssumption DEF HerdrAssumption
<1>2. IsFiniteSet(T)
  BY <1>1, FS_Subset DEF HerdrTyped
<1> DEFINE P == {tabPane[t] : t \in T}
<1>3. P \subseteq Int
  BY DEF HerdrTyped
<1>4. [t \in T |-> tabPane[t]] \in Surjection(T, P)
  BY Zenon DEF Surjection
<1>5. IsFiniteSet(P)
  BY <1>2, <1>4, FS_Surjection
<1>6. Gone(T) \in Seq(P)
  BY <1>5, ReadOff DEF Gone
<1>7. Emptied(T) \subseteq Sessions
  BY DEF Emptied
<1>8. IsFiniteSet(Emptied(T))
  BY <1>1, <1>7, FS_Subset
<1>9. QED
  BY <1>3, <1>6, <1>7, <1>8, ReadOff

\* Tabs that close are gone from the screen, and said to have closed.
LEMMA TabsClose ==
    ASSUME HerdrTyped, NEW T \in SUBSET live, CloseTabs(T)
    PROVE  /\ live' = live \ T /\ opened' = opened
           /\ tabPane' \in [Tabs -> Int] /\ closed' \in Seq(Int)
<1>1. live' = live \ T /\ opened' = opened /\ closed' = closed \o Gone(T)
      /\ tabPane' = IF Renumbers THEN Moved(T) ELSE Kept(T)
  BY DEF CloseTabs
<1>2. closed' \in Seq(Int)
  BY <1>1, PanesReadOff DEF HerdrTyped
<1>3. Kept(T) \in [Tabs -> Int]
  BY DEF Kept, NoPane, HerdrTyped
<1>4. Moved(T) \in [Tabs -> Int]
  <2> DEFINE B(t) == {u \in T : tabPane[u] # NoPane /\ tabPane[u] < tabPane[t]}
  <2>1. ASSUME NEW t \in Tabs PROVE Cardinality(B(t)) \in Int
    <3>1. IsFiniteSet(Tabs)
      BY HerdrAssumption DEF HerdrAssumption
    <3>2. B(t) \subseteq Tabs
      BY DEF HerdrTyped
    <3>3. Cardinality(B(t)) \in Nat
      <4> HIDE DEF B
      <4> QED BY <3>1, <3>2, FS_Subset, FS_CardinalityType
    <3>4. QED
      <4> HIDE DEF B
      <4> QED BY <3>3
  <2> DEFINE F == [t \in Tabs |-> IF t \in T \/ tabPane[t] = NoPane THEN NoPane
                                 ELSE tabPane[t] - Cardinality(B(t))]
  <2>2. Moved(T) = F
    BY Zenon DEF Moved
  <2>3. F \in [Tabs -> Int]
    <3> HIDE DEF B
    <3> QED BY <2>1 DEF NoPane, HerdrTyped
  <2>4. QED
    BY <2>2, <2>3
<1>5. QED
  BY <1>1, <1>2, <1>3, <1>4

\* What is said of it: panes, and workspaces that are left without a tab.
LEMMA WhatIsSaid ==
    ASSUME HerdrTyped, NEW T \in SUBSET live
    PROVE  /\ Said(T) \in Seq(Tidings)
           /\ \A i \in 1..Len(Said(T)) :
                 Said(T)[i].session \in Emptied(T) \cup {NoSession}
<1> DEFINE G == Gone(T)
           E == SetToSeq(Emptied(T))
           X == {e \in Tidings : e.session \in Emptied(T) \cup {NoSession}}
           A == [i \in 1..Len(G) |-> PaneClosed(G[i])]
<1>1. G \in Seq(Int) /\ Emptied(T) \subseteq Sessions /\ E \in Seq(Emptied(T))
  BY PanesReadOff
<1>2. ASSUME NEW p \in Int PROVE PaneClosed(p) \in X
  BY DEF PaneClosed, Tidings
<1>3. ASSUME NEW s \in Emptied(T) PROVE WorkspaceClosed(s) \in X
  BY <1>1 DEF WorkspaceClosed, NoPane, Tidings, HerdrTyped
<1>4. A \in Seq(X)
  <2> HIDE DEF X, G
  <2> QED BY <1>1, <1>2
<1> DEFINE W == {WorkspaceClosed(s) : s \in Emptied(T)}
<1>5. IsFiniteSet(W) /\ W \subseteq X
  <2>1. IsFiniteSet(Emptied(T))
    <3>1. IsFiniteSet(Sessions)
      BY HerdrAssumption DEF HerdrAssumption
    <3>2. QED
      BY <1>1, <3>1, FS_Subset
  <2>2. [s \in Emptied(T) |-> WorkspaceClosed(s)]
            \in Surjection(Emptied(T), W)
    BY Zenon DEF Surjection
  <2>3. QED
    BY <1>3, <2>1, <2>2, FS_Surjection
<1>6. SetToSeq(W) \in Seq(X)
  <2>1. SetToSeq(W) \in Seq(W)
    BY <1>5, ReadOff
  <2> HIDE DEF W, X
  <2>2. QED
    BY <1>5, <2>1
<1>7. Said(T) = A \o SetToSeq(W)
  BY DEF Said
<1>8. Said(T) \in Seq(X)
  <2> HIDE DEF A, W, X
  <2> QED BY <1>4, <1>6, <1>7
<1>9. Said(T) \in Seq(Tidings)
      /\ \A i \in 1..Len(Said(T)) : Said(T)[i] \in X
  <2>1. X \subseteq Tidings
    OBVIOUS
  <2> HIDE DEF X
  <2>2. QED
    BY <1>8, <2>1
<1>10. QED
  BY <1>9, Zenon

\* What was true of every workspace still to be read about stays so, and is true of those
\* that are said to have closed.
LEMMA TidingsAreTrue ==
    ASSUME HerdrTyped, NEW T \in SUBSET live, CloseTabs(T), NEW rest \in Seq(Tidings),
           \A i \in 1..Len(rest) : In(rest[i].session) = {},
           Hear(T, rest)
    PROVE  stream' \in Seq(Tidings) /\ NothingThere'
<1>1. live' = live \ T
  BY DEF CloseTabs
<1>2. ASSUME NEW s, In(s) = {} \/ s \in Emptied(T) \cup {NoSession}
      PROVE  In(s)' = {}
  <2>1. CASE In(s) = {}
    BY <1>1, <2>1 DEF In
  <2>2. CASE s \in Emptied(T)
    BY <1>1, <2>2 DEF In, Emptied
  <2>3. CASE s = NoSession
    BY <1>1, <2>3, HerdrAssumption DEF In, HerdrAssumption, HerdrTyped
  <2>4. QED
    BY <1>2, <2>1, <2>2, <2>3
<1>3. CASE stream' = rest
  BY <1>2, <1>3 DEF NothingThere
<1>4. CASE stream' = rest \o Said(T)
  <2> DEFINE said == Said(T)
  <2>1. said \in Seq(Tidings)
        /\ \A i \in 1..Len(said) : said[i].session \in Emptied(T) \cup {NoSession}
    BY WhatIsSaid
  <2>2. ASSUME NEW i \in 1..Len(stream') PROVE \A s : s = stream'[i].session => In(s)' = {}
    <3>1. \/ i \in 1..Len(rest) /\ stream'[i] = rest[i]
          \/ i - Len(rest) \in 1..Len(said) /\ stream'[i] = said[i - Len(rest)]
      <4> HIDE DEF said
      <4>1. stream' = rest \o said
        BY <1>4 DEF said
      <4>2. Len(stream') = Len(rest) + Len(said) /\ Len(rest) \in Nat /\ Len(said) \in Nat
        BY <2>1, <4>1
      <4>3. CASE i <= Len(rest)
        BY <2>1, <2>2, <4>1, <4>2, <4>3
      <4>4. CASE i > Len(rest)
        BY <2>1, <2>2, <4>1, <4>2, <4>4
      <4>5. QED
        BY <2>2, <4>2, <4>3, <4>4
    <3>2. QED
      <4> HIDE DEF said
      <4>1. stream'[i].session \in Emptied(T) \cup {NoSession}
            \/ In(stream'[i].session) = {}
        BY <2>1, <3>1
      <4>2. QED
        BY <1>2, <4>1
  <2>3. QED
    <3>1. stream' \in Seq(Tidings)
      BY <1>4, <2>1
    <3>2. QED
      BY <2>2, <3>1 DEF NothingThere, In
<1>5. QED
  BY <1>3, <1>4 DEF Hear

LEMMA ReadOn ==
    ASSUME HerdrTyped, NothingThere, stream # <<>>
    PROVE  /\ Head(stream) \in Tidings /\ In(Head(stream).session) = {}
           /\ Tail(stream) \in Seq(Tidings)
           /\ \A i \in 1..Len(Tail(stream)) : In(Tail(stream)[i].session) = {}
<1>1. stream \in Seq(Tidings) /\ Len(stream) \in Nat /\ Len(stream) > 0
  BY DEF HerdrTyped
<1>2. Head(stream) = stream[1] /\ Tail(stream) \in Seq(Tidings)
      /\ Len(Tail(stream)) = Len(stream) - 1
      /\ \A i \in 1..Len(Tail(stream)) : Tail(stream)[i] = stream[i + 1]
  BY <1>1
<1>3. stream[1] \in Tidings
  BY <1>1
<1>4. \A i \in 1..Len(Tail(stream)) : i + 1 \in 1..Len(stream)
  BY <1>1, <1>2
<1>5. 1 \in 1..Len(stream)
  BY <1>1
<1>6. In(Head(stream).session) = {}
  BY <1>2, <1>5 DEF NothingThere
<1>7. ASSUME NEW i \in 1..Len(Tail(stream)) PROVE In(Tail(stream)[i].session) = {}
  BY <1>2, <1>4 DEF NothingThere
<1>8. QED
  BY <1>2, <1>3, <1>6, <1>7

\* One that stops being heard has nothing to be read.
LEMMA NothingToRead ==
    ASSUME stream' = <<>>
    PROVE  stream' \in Seq(Tidings) /\ NothingThere'
BY DEF NothingThere

\* The order the smallest is taken in.
Smaller == {ss \in Nat \X Nat : ss[1] < ss[2]}

\* The pane of a new tab is the smallest that is free.
LEMMA FreePane ==
    ASSUME Free # {}
    PROVE  (CHOOSE p \in Free : \A q \in Free : p <= q) \in Int
<1>1. IsWellFoundedOn(Smaller, Nat)
  BY NatLessThanWellFounded DEF OpToRel, Smaller
<1>2. Free \subseteq Nat
  BY HerdrAssumption DEF HerdrAssumption, Free
<1>3. PICK least \in Free : \A q \in Free : ~(<<q, least>> \in Smaller)
  BY <1>1, <1>2, WFMin
<1>4. ASSUME NEW q \in Free PROVE least <= q
  <2>1. least \in Nat /\ q \in Nat
    BY <1>2
  <2>2. ~(q < least)
    BY <1>3, <2>1 DEF Smaller
  <2>3. QED
    BY <2>1, <2>2
<1>5. (CHOOSE p \in Free : \A q \in Free : p <= q) \in Free
  BY <1>4, Zenon
<1>6. (CHOOSE p \in Free : \A q \in Free : p <= q) \in Nat
  BY <1>2, <1>5, Zenon
<1>7. QED
  BY <1>6

\* Where no tab opens and no deletion gets as far as the row, hands stay off.
LEMMA HandsStayOff ==
    ASSUME HerdrTyped, HandsOff, live' \subseteq live,
           \A t \in Tabs : creation[t] # "none" => creation'[t] # "none",
           \A t \in Tabs : del'[t] # "none" => del[t] # "none" \/ creation[t] # "none",
           \A t \in Tabs : del'[t] = "row" => del[t] = "row" \/ t \notin live'
    PROVE  HandsOff'
BY DEF HandsOff, HerdrTyped

\* The stream is as it was, and no tab opens.
LEMMA NothingNew ==
    ASSUME HerdrTyped, NothingThere, live' \subseteq live, stream' = stream
    PROVE  NothingThere'
BY DEF NothingThere, In

LEMMA CreateStep ==
    ASSUME HerdrInv, ~Recycles, NEW t \in Tabs, Create(t)
    PROVE  HerdrInv'
<1>1. HerdrTyped'
  <2>1. tabPane' \in [Tabs -> Int]
    BY FreePane DEF HerdrInv, HerdrTyped, Create
  <2>2. opened' \in [Sessions -> Nat]
    <3>1. \/ opened' = opened
          \/ opened' = [opened EXCEPT ![Of[t]] = @ + 1]
      BY Zenon DEF Create
    <3>2. Of[t] \in Sessions
      BY HerdrAssumption DEF HerdrAssumption
    <3>3. opened \in [Sessions -> Nat] /\ opened[Of[t]] + 1 \in Nat
      BY <3>2 DEF HerdrInv, HerdrTyped
    <3>4. QED
      BY <3>1, <3>2, <3>3
  <2>3. creation' \in [Tabs -> {"none", "joining", "founding", "up", "failed"}]
    <3>1. \/ creation' = [creation EXCEPT ![t] = "joining"]
          \/ creation' = [creation EXCEPT ![t] = "founding"]
      BY Zenon DEF Create
    <3>2. QED
      BY <3>1 DEF HerdrInv, HerdrTyped
  <2>4. QED
    BY <2>1, <2>2, <2>3 DEF HerdrInv, HerdrTyped, Create
<1>2. HandsOff'
  <2>1. creation[t] = "none" /\ creation'[t] # "none" /\ live' = live \cup {t} /\ del' = del
        /\ \A u \in Tabs : u # t => creation'[u] = creation[u]
    BY DEF HerdrInv, HerdrTyped, Create
  <2>2. QED
    BY <2>1 DEF HerdrInv, HandsOff
<1>3. NothingThere'
  <2>1. stream' = stream /\ live' = live \cup {t}
    BY DEF Create
  <2>2. ASSUME NEW i \in 1..Len(stream) PROVE stream[i].session # Of[t]
    BY <2>2 DEF HerdrInv, NothingThere, Create, Heard
  <2>3. QED
    BY <2>1, <2>2 DEF HerdrInv, NothingThere, In
<1>4. QED
  BY <1>1, <1>2, <1>3 DEF HerdrInv

LEMMA RollbackStep ==
    ASSUME HerdrInv, NEW t \in Tabs, CreateFails(t)
    PROVE  HerdrInv'
<1> DEFINE T == IF creation[t] = "founding" THEN In(Of[t]) ELSE {t} \cap live
<1>1. T \in SUBSET live /\ CloseTabs(T) /\ Hear(T, stream)
  BY DEF CreateFails, In
<1>2. creation[t] # "none" /\ creation' = [creation EXCEPT ![t] = "failed"]
      /\ del' = del /\ mishaps' = mishaps
  BY DEF CreateFails, Creating
<1> HIDE DEF T
<1>3. stream' \in Seq(Tidings) /\ NothingThere'
  BY <1>1, TidingsAreTrue DEF HerdrInv, HerdrTyped, NothingThere
<1>4. live' = live \ T /\ opened' = opened /\ tabPane' \in [Tabs -> Int] /\ closed' \in Seq(Int)
  BY <1>1, TabsClose DEF HerdrInv
<1>5. HerdrTyped'
  BY <1>2, <1>3, <1>4 DEF HerdrInv, HerdrTyped
<1>6. HandsOff'
  BY <1>2, <1>4, HandsStayOff DEF HerdrInv, HerdrTyped
<1>7. QED
  BY <1>3, <1>5, <1>6 DEF HerdrInv

LEMMA KillStep ==
    ASSUME HerdrInv, NEW t \in Tabs, KillTab(t) \/ Exit(t)
    PROVE  HerdrInv'
<1> DEFINE T == {t} \cap live
<1>1. T \in SUBSET live /\ CloseTabs(T) /\ Hear(T, stream)
  <2>1. Exit(t) => T = {t}
    BY DEF Exit
  <2>2. QED
    BY <2>1 DEF KillTab, Exit
<1>2. creation' = creation /\ mishaps' = mishaps
      /\ (del' = del \/ (del[t] = "kill" /\ del' = [del EXCEPT ![t] = "row"]))
  BY DEF KillTab, Exit
<1>3. stream' \in Seq(Tidings) /\ NothingThere'
  BY <1>1, TidingsAreTrue DEF HerdrInv, HerdrTyped, NothingThere
<1>4. live' = live \ {t} /\ opened' = opened /\ tabPane' \in [Tabs -> Int] /\ closed' \in Seq(Int)
  BY <1>1, TabsClose DEF HerdrInv
<1>5. HerdrTyped'
  BY <1>2, <1>3, <1>4 DEF HerdrInv, HerdrTyped
<1>6. HandsOff'
  BY <1>2, <1>4, HandsStayOff DEF HerdrInv, HerdrTyped
<1>7. QED
  BY <1>3, <1>5, <1>6 DEF HerdrInv

\* A call of the terminal service that changes the tables.
LEMMA CallStep ==
    ASSUME HerdrInv, NEW t \in Tabs,
           Register(t) \/ Delete(t) \/ DeleteRow(t)
    PROVE  HerdrInv'
<1>1. /\ live' = live /\ opened' = opened /\ tabPane' = tabPane /\ closed' = closed
      /\ (stream' = stream \/ stream' = <<>>) /\ mishaps' = mishaps
  BY DEF Register, Delete, DeleteRow, LoopEnds, herdr
<1>2. /\ creation' = creation \/ (creation[t] # "none" /\ creation' = [creation EXCEPT ![t] = "up"])
      /\ \/ del' = del
         \/ creation[t] # "none" /\ del' = [del EXCEPT ![t] = "kill"]
         \/ creation[t] # "none" /\ del' = [del EXCEPT ![t] = "done"]
         \/ del[t] = "row" /\ del' = [del EXCEPT ![t] = "done"]
  BY DEF Register, Delete, DeleteRow, Creating
<1>3. stream' \in Seq(Tidings) /\ NothingThere'
  BY <1>1, NothingToRead, NothingNew DEF HerdrInv, HerdrTyped
<1>4. HerdrTyped'
  BY <1>1, <1>2, <1>3 DEF HerdrInv, HerdrTyped
<1>5. HandsOff'
  BY <1>1, <1>2, HandsStayOff DEF HerdrInv, HerdrTyped
<1>6. QED
  BY <1>3, <1>4, <1>5 DEF HerdrInv

\* A reconcile closes tabs, if any, and says so to nobody: the stream is yet to begin.
LEMMA ReconcileCloses ==
    ASSUME HerdrTyped, NEW a, Reconcile(a)
    PROVE  /\ live' \subseteq live /\ opened' = opened
           /\ tabPane' \in [Tabs -> Int] /\ closed' \in Seq(Int)
<1>1. CASE UNCHANGED herdr
  BY <1>1 DEF herdr, HerdrTyped
<1>2. CASE CloseTabs(UNION {In(s) : s \in Empty(a)})
  <2> DEFINE T == UNION {In(s) : s \in Empty(a)}
  <2>1. T \in SUBSET live
    BY DEF In
  <2> HIDE DEF T
  <2>2. CloseTabs(T)
    BY <1>2 DEF T
  <2>3. QED
    BY <2>1, <2>2, TabsClose
<1>3. QED
  BY <1>1, <1>2 DEF Reconcile

LEMMA SocketOpens ==
    ASSUME HerdrInv, Connect
    PROVE  HerdrInv'
<1>1. PICK a \in Answers : Answered(a) /\ Reconcile(a)
  BY DEF Connect
<1>2. /\ live' \subseteq live /\ opened' = opened
      /\ tabPane' \in [Tabs -> Int] /\ closed' \in Seq(Int)
  BY <1>1, ReconcileCloses DEF HerdrInv
<1>3. mishaps' \in Nat
  BY <1>1 DEF HerdrInv, HerdrTyped, Answered, Mishap
<1>4. creation' = creation /\ del' = del /\ stream' = stream
  BY DEF Connect
<1>5. NothingThere'
  BY <1>2, <1>4, NothingNew DEF HerdrInv
<1>6. HandsOff'
  BY <1>2, <1>4, HandsStayOff DEF HerdrInv
<1>7. QED
  BY <1>2, <1>3, <1>4, <1>5, <1>6 DEF HerdrInv, HerdrTyped

\* What a subscription is sent first tells of panes, and of no workspace.
LEMMA StreamBegins ==
    ASSUME HerdrInv, Subscribe
    PROVE  HerdrInv'
<1>1. /\ live' = live /\ opened' = opened /\ tabPane' = tabPane /\ closed' = closed
      /\ creation' = creation /\ del' = del /\ mishaps' = mishaps
      /\ stream' = [i \in 1..Len(closed) |-> PaneClosed(closed[i])]
  BY DEF Subscribe, herdr
<1> DEFINE X == {e \in Tidings : e.session = NoSession}
<1>2. \A p \in Int : PaneClosed(p) \in X
  BY DEF PaneClosed, Tidings
<1>3. stream' \in Seq(X)
  <2> HIDE DEF X
  <2> QED BY <1>1, <1>2 DEF HerdrInv, HerdrTyped
<1>4. stream' \in Seq(Tidings) /\ \A i \in 1..Len(stream') : stream'[i] \in X
  <2>1. X \subseteq Tidings
    OBVIOUS
  <2> HIDE DEF X
  <2> QED BY <1>3, <2>1
<1>5. NothingThere'
  <2>1. \A i \in 1..Len(stream') : stream'[i].session = NoSession
    BY <1>4
  <2>2. {t \in live' : Of[t] = NoSession} = {}
    BY <1>1, HerdrAssumption DEF HerdrAssumption, HerdrInv, HerdrTyped
  <2>3. QED
    BY <2>1, <2>2 DEF NothingThere, In
<1>6. HandsOff'
  BY <1>1 DEF HerdrInv, HandsOff
<1>7. QED
  BY <1>1, <1>4, <1>5, <1>6 DEF HerdrInv, HerdrTyped

LEMMA EventStep ==
    ASSUME HerdrInv, HandleEvent
    PROVE  HerdrInv'
<1> DEFINE e == Head(stream)
<1>1. stream # <<>> /\ creation' = creation /\ del' = del
  BY DEF HandleEvent
<1>2. /\ Tail(stream) \in Seq(Tidings)
      /\ \A i \in 1..Len(Tail(stream)) : In(Tail(stream)[i].session) = {}
  BY <1>1, ReadOn DEF HerdrInv
<1>3. mishaps' \in Nat
  BY DEF HerdrInv, HerdrTyped, HandleEvent, Answered, Mishap
<1>4. \/ UNCHANGED herdr /\ stream' = Tail(stream)
      \/ \E T \in SUBSET live : CloseTabs(T) /\ Hear(T, Tail(stream))
  <2>1. ASSUME NEW a \in Answers, HandlePaneClosed(e.pane, a) PROVE <1>4
    <3>1. \/ UNCHANGED herdr /\ stream' = Tail(stream)
          \/ \E T \in {{}, In(Of[p2t[e.pane]])} :
                CloseTabs(T) /\ Hear(T, Tail(stream))
      BY <2>1 DEF HandlePaneClosed
    <3>2. \A T \in {{}, In(Of[p2t[e.pane]])} : T \in SUBSET live
      BY DEF In
    <3>3. QED
      BY <3>1, <3>2
  <2>2. ASSUME NEW a \in Answers, HandleWorkspaceClosed(e.session, e.n, a) PROVE <1>4
    BY <2>2 DEF HandleWorkspaceClosed
  <2>3. ASSUME WorkspaceDeleteFails(e.session, e.n) PROVE <1>4
    BY <2>3 DEF WorkspaceDeleteFails
  <2>4. QED
    BY <2>1, <2>2, <2>3 DEF HandleEvent
<1>5. CASE UNCHANGED herdr /\ stream' = Tail(stream)
  <2>1. HerdrTyped'
    BY <1>1, <1>2, <1>3, <1>5 DEF HerdrInv, HerdrTyped, herdr
  <2>2. NothingThere'
    BY <1>2, <1>5 DEF NothingThere, In, herdr
  <2>3. HandsOff'
    BY <1>1, <1>5, HandsStayOff DEF HerdrInv, herdr
  <2>4. QED
    BY <2>1, <2>2, <2>3 DEF HerdrInv
<1>6. ASSUME NEW T \in SUBSET live, CloseTabs(T), Hear(T, Tail(stream))
      PROVE  HerdrInv'
  <2>1. live' = live \ T /\ opened' = opened /\ tabPane' \in [Tabs -> Int] /\ closed' \in Seq(Int)
    BY <1>6, TabsClose DEF HerdrInv
  <2>2. stream' \in Seq(Tidings) /\ NothingThere'
    BY <1>2, <1>6, TidingsAreTrue DEF HerdrInv
  <2>3. HandsOff'
    BY <1>1, <2>1, HandsStayOff DEF HerdrInv
  <2>4. QED
    BY <1>1, <1>3, <2>1, <2>2, <2>3 DEF HerdrInv, HerdrTyped
<1>7. QED
  BY <1>4, <1>5, <1>6

\* The rest of the socket loop, and a restart.
LEMMA LoopStep ==
    ASSUME HerdrInv,
           \/ Listen \/ Disconnected \/ ForceReconnect \/ Drop
           \/ LoopRaises \/ Crash
    PROVE  HerdrInv'
<1>1. live' = live /\ opened' = opened /\ tabPane' = tabPane /\ closed' = closed
  BY DEF Listen, Disconnected, ForceReconnect, Drop, LoopRaises, ReconcileRaises,
         HandlerRaises, Crash, herdr
<1>2. mishaps' \in Nat
  BY DEF Listen, Disconnected, ForceReconnect, Drop, LoopRaises, Crash,
         Mishap, HerdrInv, HerdrTyped
<1>3. stream' = stream \/ stream' = <<>>
  BY DEF Listen, Disconnected, ForceReconnect, Drop, LoopRaises, LoopEnds, Crash
<1>4. stream' \in Seq(Tidings) /\ NothingThere'
  BY <1>1, <1>3, NothingToRead, NothingNew DEF HerdrInv, HerdrTyped
<1>5. \/ creation' = creation /\ del' = del
      \/ /\ creation' = [t \in Tabs |-> IF Creating(t) THEN "up" ELSE creation[t]]
         /\ del' = [t \in Tabs |-> IF del[t] \in {"kill", "row"} THEN "none" ELSE del[t]]
  BY DEF Listen, Disconnected, ForceReconnect, Drop, LoopRaises, Crash
<1>6. HerdrTyped'
  BY <1>1, <1>2, <1>4, <1>5 DEF HerdrInv, HerdrTyped
<1>7. HandsOff'
  BY <1>1, <1>5, HandsStayOff DEF HerdrInv, HerdrTyped
<1>8. QED
  BY <1>4, <1>6, <1>7 DEF HerdrInv

LEMMA HerdrInvKept ==
    ASSUME HerdrInv, ~Recycles, [HerdrNext]_bridge
    PROVE  HerdrInv'
<1>1. CASE UNCHANGED bridge
  BY <1>1 DEF bridge, herdr, HerdrInv, HerdrTyped, HandsOff, NothingThere, In
<1>2. CASE HerdrNext
  <2>1. CASE \E t \in Tabs : \/ Create(t) \/ Register(t) \/ CreateFails(t)
                             \/ Delete(t) \/ KillTab(t) \/ DeleteRow(t)
                             \/ Exit(t)
    BY <2>1, CreateStep, CallStep, RollbackStep, KillStep
  <2>2. CASE Drop \/ Loop \/ Crash
    BY <2>2, LoopStep, SocketOpens, StreamBegins, EventStep DEF Loop
  <2>3. QED
    BY <1>2, <2>1, <2>2 DEF HerdrNext
<1>3. QED
  BY <1>1, <1>2

LEMMA HerdrInvInit == HerdrInit => HerdrInv
<1> SUFFICES ASSUME HerdrInit PROVE HerdrInv
  OBVIOUS
<1>1. HerdrTyped
  BY DEF HerdrInit, HerdrTyped, Unmapped, NoPane
<1>2. HandsOff /\ NothingThere
  BY DEF HerdrInit, HandsOff, NothingThere
<1>3. QED
  BY <1>1, <1>2 DEF HerdrInv

\* With all its questions answered, a reconcile tells an open tab: its row has a tab in the
\* workspace, and where its pane is stale it is found again.
LEMMA ReconcileSpares ==
    ASSUME NEW t \in live \cap rows, Reconcile(AllWell)
    PROVE  t \in rows'
<1> DEFINE a == AllWell
<1>1. a.panes /\ a.workspaces /\ a.tabs /\ a.label
  BY DEF AllWell
<1>2. t \notin Ghosts(a)
  BY <1>1 DEF Ghosts, KnownAfter, Workspaces
<1> HIDE DEF a
<1>3. t \notin Pruned(a)
  BY <1>1, <1>2 DEF Pruned, Renumbered, _label_still_live
<1>4. rows' = rows \ (Ghosts(a) \cup Pruned(a))
  BY <1>1 DEF Reconcile, a
<1>5. QED
  BY <1>2, <1>3, <1>4

\* One step takes the row of an open tab only as LiveKept says.
LEMMA LiveStep ==
    ASSUME HerdrInv, [HerdrNext]_bridge, NEW t \in live \cap rows
    PROVE  t \in rows' \/ (Creating(t) /\ creation'[t] = "failed")
           \/ mishaps' # mishaps
<1>1. CASE UNCHANGED bridge
  BY <1>1 DEF bridge
<1>2. CASE \E u \in Tabs : CreateFails(u)
  BY <1>2 DEF CreateFails, HerdrInv, HerdrTyped
<1>3. CASE \E u \in Tabs : DeleteRow(u)
  BY <1>3 DEF DeleteRow, HerdrInv, HandsOff
<1>4. CASE \E u \in Tabs : \/ Create(u) \/ Register(u) \/ Delete(u)
                           \/ KillTab(u) \/ Exit(u)
  BY <1>4 DEF Create, Register, Delete, KillTab, Exit
<1>5. CASE Drop \/ Subscribe \/ Listen \/ Disconnected \/ ForceReconnect
  BY <1>5 DEF Drop, Subscribe, Listen, Disconnected, ForceReconnect
<1>6. CASE LoopRaises \/ Crash
  BY <1>6 DEF LoopRaises, Crash, Mishap, HerdrInv, HerdrTyped
<1>7. ASSUME NEW a, Answered(a), a # AllWell PROVE mishaps' # mishaps
  BY <1>7 DEF Answered, Mishap, HerdrInv, HerdrTyped
<1>8. CASE Connect
  <2>1. PICK a \in Answers : Answered(a) /\ Reconcile(a)
    BY <1>8 DEF Connect
  <2>2. CASE a = AllWell
    BY <2>1, <2>2, ReconcileSpares
  <2>3. QED
    BY <1>7, <2>1, <2>2
<1>9. CASE HandleEvent
  <2> DEFINE e == Head(stream)
  <2>1. stream # <<>>
    BY <1>9 DEF HandleEvent
  <2>2. e \in Tidings /\ In(e.session) = {}
    BY <2>1, ReadOn DEF HerdrInv
  <2>3. Of[t] # e.session
    BY <2>2 DEF In
  <2>4. ASSUME NEW a \in Answers, Answered(a), HandlePaneClosed(e.pane, a)
        PROVE  t \in rows' \/ mishaps' # mishaps
    <3>1. CASE a = AllWell
      <4>1. _label_still_live(t, a)
        BY <3>1 DEF _label_still_live, AllWell
      <4>2. QED
        BY <2>4, <4>1 DEF HandlePaneClosed
    <3>2. QED
      BY <1>7, <2>4, <3>1
  <2>5. ASSUME NEW a \in Answers, HandleWorkspaceClosed(e.session, e.n, a)
        PROVE  t \in rows'
    BY <2>3, <2>5 DEF HandleWorkspaceClosed
  <2>6. ASSUME WorkspaceDeleteFails(e.session, e.n) PROVE t \in rows'
    BY <2>6 DEF WorkspaceDeleteFails
  <2>7. QED
    BY <1>9, <2>4, <2>5, <2>6 DEF HandleEvent
<1>10. QED
  BY <1>1, <1>2, <1>3, <1>4, <1>5, <1>6, <1>8, <1>9 DEF HerdrNext, Loop

\* For any terminals, panes and sessions, whether herdr moves its panes or not, and any
\* number of closings, drops, mishaps and restarts: where no session is made anew before its
\* closing was heard, no terminal whose tab is open loses its row to an event or a reconcile
\* with its questions answered.
THEOREM SpecLiveKept == ~Recycles /\ HerdrSpec => LiveKept
<1> SUFFICES ASSUME ~Recycles PROVE HerdrSpec => LiveKept
  OBVIOUS
<1>1. HerdrInv /\ [HerdrNext]_bridge =>
          [\A t \in live \cap rows :
              t \in rows' \/ (Creating(t) /\ creation'[t] = "failed")
              \/ mishaps' # mishaps]_bridge
  BY LiveStep
<1>2. HerdrInv /\ [HerdrNext]_bridge => HerdrInv'
  BY HerdrInvKept
<1>3. QED
  BY HerdrInvInit, <1>1, <1>2, PTL DEF HerdrSpec, LiveKept
=============================================================================
