------------------------- MODULE StatusMonitorProofs -------------------------
(* Theorems about StatusMonitor, for every choice of its constants.  The latch   *)
(* rests on one fact: an arm is never older than the last answered generation.   *)
EXTENDS MCStatusModes, SequenceTheorems, TLAPS

\* The strengthening: generations are ordered, and the arm is for an open one.
ArmInv ==
    /\ input_gen \in Nat /\ ready_gen \in Nat /\ ready_gen <= input_gen
    /\ armed \in BOOLEAN
    /\ ArmIsForUnanswered

\* What one step may do to the latched status.
RevertOk == (last \in Sticky /\ last' = "PROCESSING") => ready_gen < input_gen
KeptOk == (last = "COMPLETED" /\ last' = "IDLE") => ready_gen < input_gen

\* A detection, of any look and any generation, keeps the invariant and never
\* reverts a ready status whose input is answered (_apply_detection).
LEMMA ApplyKeepsArm ==
    ASSUME ArmInv, NEW l, NEW g, ApplyDetection(l, g), input_gen' = input_gen
    PROVE  ArmInv' /\ RevertOk /\ KeptOk
<1>1. CASE g # input_gen \/ NoSignal(l) \/ Latched(l) \/ l = last
  <2>1. UNCHANGED latch
    BY <1>1 DEF ApplyDetection
  <2> QED BY <2>1 DEF latch, ArmInv, ArmIsForUnanswered, RevertOk, KeptOk, Sticky
<1>2. CASE ~(g # input_gen \/ NoSignal(l) \/ Latched(l) \/ l = last)
  <2>1. /\ last' = l
        /\ armed' = (armed /\ ~Disarms(l))
        /\ ready_gen' = IF last = "PROCESSING" /\ l \in Sticky THEN input_gen ELSE ready_gen
    BY <1>2 DEF ApplyDetection, Answered
  <2>2. armed' \in BOOLEAN /\ (armed' => armed /\ ~Disarms(l))
    BY <2>1, Zenon
  <2>3. ASSUME armed'
        PROVE  ready_gen' < input_gen
    <3>1. ready_gen < input_gen /\ ~Disarms(l)
      BY <2>2, <2>3 DEF ArmInv, ArmIsForUnanswered
    <3>2. ~(last = "PROCESSING" /\ l \in Sticky)
      BY <3>1 DEF Disarms, Sticky
    <3> QED BY <2>1, <3>1, <3>2
  <2>4. ready_gen' \in Nat /\ ready_gen' <= input_gen
    BY <2>1 DEF ArmInv
  <2>5. ArmInv'
    BY <2>2, <2>3, <2>4 DEF ArmInv, ArmIsForUnanswered
  <2>6. RevertOk
    BY <1>2, <2>1 DEF ArmInv, ArmIsForUnanswered, RevertOk, Latched
  <2>7. KeptOk
    BY <1>2, <2>1 DEF ArmInv, ArmIsForUnanswered, KeptOk, Latched
  <2> QED BY <2>5, <2>6, <2>7
<1> QED BY <1>1, <1>2

\* A step that touches neither the latch nor the input generation.
LEMMA LatchUntouched ==
    ASSUME ArmInv, UNCHANGED latch, input_gen' = input_gen
    PROVE  ArmInv' /\ RevertOk /\ KeptOk
BY DEF latch, ArmInv, ArmIsForUnanswered, RevertOk, KeptOk, Sticky

\* A detection that begins ends at once or leaves the latch alone.
LEMMA SpawnKeepsArm ==
    ASSUME ArmInv, NEW l, NEW p, Spawn(l, p), input_gen' = input_gen
    PROVE  ArmInv' /\ RevertOk /\ KeptOk
<1>1. CASE Lags
  BY <1>1, LatchUntouched DEF Spawn
<1>2. CASE ~Lags
  BY <1>2, ApplyKeepsArm DEF Spawn
<1> QED BY <1>1, <1>2

\* Initially nothing is armed and no input has been sent.
LEMMA ArmInit == Init => ArmInv
<1> SUFFICES ASSUME Init PROVE ArmInv
  OBVIOUS
<1>1. input_gen = 0 /\ ready_gen = 0
  BY DEF Init
<1>2. armed = FALSE
  BY Zenon DEF Init
<1>3. armed \in BOOLEAN /\ ~armed
  BY <1>2, Zenon
<1> QED BY <1>1, <1>3 DEF ArmInv, ArmIsForUnanswered

\* Every action keeps the invariant and the latch.
LEMMA ArmStep ==
    ASSUME ArmInv, [Next]_vars
    PROVE  ArmInv' /\ RevertOk /\ KeptOk
<1>1. CASE Agent
  BY <1>1, LatchUntouched DEF Agent, BeginTurn, Work, EndTurn, Redraw, AgentOnly
<1>2. CASE Worker
  <2>1. CASE TakeChunk
    BY <2>1, LatchUntouched DEF TakeChunk
  <2>2. CASE Edge
    BY <2>2, LatchUntouched DEF Edge
  <2>3. CASE DetectEdge
    BY <2>3, ApplyKeepsArm DEF DetectEdge
  <2>4. CASE Arm
    BY <2>4, LatchUntouched DEF Arm
  <2> QED BY <1>2, <2>1, <2>2, <2>3, <2>4 DEF Worker
<1>3. CASE Loop
  <2>1. CASE CancelTimer
    BY <2>1, LatchUntouched DEF CancelTimer, MonitorOnly
  <2>2. CASE RunArm
    BY <2>2, LatchUntouched DEF RunArm, MonitorOnly
  <2>3. CASE Quiescent
    BY <2>3, SpawnKeepsArm DEF Quiescent, MonitorOnly
  <2> QED BY <1>3, <2>1, <2>2, <2>3 DEF Loop
<1>4. CASE ReadScreen
  BY <1>4, LatchUntouched DEF ReadScreen, MonitorOnly
<1>5. CASE EndDetection
  BY <1>5, ApplyKeepsArm DEF EndDetection, MonitorOnly
<1>6. CASE Poll
  BY <1>6, SpawnKeepsArm DEF Poll, MonitorOnly
<1>7. CASE Probe
  <2>1. input_gen' = input_gen
    BY <1>7 DEF Probe
  <2>2. (\E l : Spawn(l, FALSE)) \/ UNCHANGED latch
    BY <1>7 DEF Probe
  <2> QED BY <2>1, <2>2, SpawnKeepsArm, LatchUntouched
<1>8. ASSUME NEW s \in Senders,
             CheckStatus(s) \/ NotifyInputSent(s) \/ ClearRollingBuffer(s) \/ SendKeys(s)
      PROVE  ArmInv' /\ RevertOk /\ KeptOk
  <2>1. CASE CheckStatus(s)
    BY <2>1, LatchUntouched DEF CheckStatus, SenderOnly
  <2>2. CASE NotifyInputSent(s)
    BY <2>2 DEF NotifyInputSent, ArmInv, ArmIsForUnanswered, RevertOk, KeptOk, Sticky
  <2>3. CASE ClearRollingBuffer(s)
    BY <2>3, LatchUntouched DEF ClearRollingBuffer, SenderOnly
  <2>4. CASE SendKeys(s)
    BY <2>4, LatchUntouched DEF SendKeys, SenderOnly
  <2> QED BY <1>8, <2>1, <2>2, <2>3, <2>4
<1>9. CASE UNCHANGED vars
  BY <1>9, LatchUntouched DEF vars
<1> QED BY <1>1, <1>2, <1>3, <1>4, <1>5, <1>6, <1>7, <1>8, <1>9 DEF Next

\* A revert is armed only for an unanswered input, however many senders, polls
\* and detections overlap.
THEOREM ArmedForUnanswered == Spec => []ArmIsForUnanswered
<1>1. ArmInv => ArmIsForUnanswered
  BY DEF ArmInv
<1>2. ArmInv /\ [Next]_vars => ArmInv'
  BY ArmStep
<1> QED BY <1>1, <1>2, ArmInit, PTL DEF Spec

\* No redraw, stale detection or late poll turns a ready terminal busy again
\* unless an input was sent after the one it is ready for (the sticky latch).
THEOREM StickyLatch == Spec => NoUnpromptedRevert
<1>1. ArmInv /\ [Next]_vars =>
         [(last \in Sticky /\ last' = "PROCESSING") => ready_gen < input_gen]_vars
  BY ArmStep DEF RevertOk
<1>2. ArmInv /\ [Next]_vars => ArmInv'
  BY ArmStep
<1> QED BY <1>1, <1>2, ArmInit, PTL DEF Spec, NoUnpromptedRevert

\* COMPLETED is not lost to IDLE while its input is the last one.
THEOREM CompletedStays == Spec => CompletedIsKept
<1>1. ArmInv /\ [Next]_vars =>
         [(last = "COMPLETED" /\ last' = "IDLE") => ready_gen < input_gen]_vars
  BY ArmStep DEF KeptOk
<1>2. ArmInv /\ [Next]_vars => ArmInv'
  BY ArmStep
<1> QED BY <1>1, <1>2, ArmInit, PTL DEF Spec, CompletedIsKept

-----------------------------------------------------------------------------
(* One input per cycle, detected in the order of the output.                     *)

\* The looks that a detection may still be given.
Taken ==
    {buffer, screen} \cup (IF worker.pc \in {"edge", "detect"} THEN {worker.look} ELSE {})

Has(q, A) == \E i \in 1..Len(q) : q[i] \in A

\* No A of the sequence comes before a B.
NoneBefore(q, A, B) == \A i, j \in 1..Len(q) : i < j /\ q[i] \in A => q[j] \notin B

\* The sequence is not of two turns, with an end in between.
OneTurn(q) ==
    \A i, j, m \in 1..Len(q) :
        i < j /\ j < m /\ q[i] = "PROCESSING" /\ q[j] \in Sticky => q[m] # "PROCESSING"

\* The work of the current turn has been seen, or is what is seen next.
Past == last \notin Sticky \/ "PROCESSING" \in Taken

\* The output that is not detected yet is that of one turn: nothing ready after its work
\* while the agent is busy, and no work after what is ready when it is not.
Ordered(scr) ==
    /\ OneTurn(chunks)
    /\ turn = "busy" =>
          /\ NoneBefore(chunks, {"PROCESSING"}, Sticky)
          /\ Past => ~Has(chunks, Sticky) /\ Taken \cap Sticky = {}
    /\ turn = "ready" =>
          /\ Past => NoneBefore(chunks, Sticky, {"PROCESSING"})
          /\ Past /\ Taken \cap Sticky # {} =>
                ~Has(chunks, {"PROCESSING"}) /\ "PROCESSING" \notin Taken
          /\ IF chunks = <<>> THEN "PROCESSING" \notin Taken
                              ELSE chunks[Len(chunks)] # "PROCESSING"
    /\ ~scr => screen = "empty"

\* Nothing of the terminal shows work any more.
Calm == turn = "ready" /\ ~Has(chunks, {"PROCESSING"}) /\ "PROCESSING" \notin Taken

\* The input that was sent is typed, begun and answered in this order, and the next one
\* waits for the answer.
Counted(s) ==
    /\ input_gen = IF sender[s] \in {"notified", "cleared"} THEN typed + 1 ELSE typed
    /\ begun <= typed /\ ready_gen <= begun /\ input_gen <= ready_gen + 1
    /\ turn = "busy" => begun = 0 \/ ready_gen < begun
    /\ sender[s] = "checked" => last \in Sticky /\ ready_gen = input_gen

\* Between the cycles, the terminal reads ready and shows no work; an input whose turn has
\* not been seen is armed for.
Latching ==
    /\ begun < input_gen => last \in Sticky /\ armed /\ cand = <<>>
    /\ last \in Sticky /\ (ready_gen = input_gen \/ begun < input_gen) => Calm
    /\ blink => cand = <<>>
    /\ turn = "busy" /\ last \in Sticky => armed

\* On raw bytes, the work of a turn is in the queue or in the worker's hands until it is seen.
Unmissed(scr) ==
    ~scr /\ turn = "busy" /\ last \in Sticky =>
        \/ Has(chunks, {"PROCESSING"})
        \/ worker.pc \in {"edge", "detect"} /\ worker.look = "PROCESSING" /\ worker.gen = input_gen

Hands == [pc : {"idle", "edge", "detect", "arm"}, look : Looks \cup {"empty"}, gen : Nat]

WellTyped(s) ==
    /\ turn \in {"ready", "busy"} /\ typed \in Nat /\ begun \in Nat
    /\ chunks \in Seq(Looks)
    /\ buffer \in Looks \cup {"empty"} /\ screen \in Looks \cup {"empty"}
    /\ last \in Looks \cup {"none"} /\ armed \in BOOLEAN
    /\ input_gen \in Nat /\ ready_gen \in Nat
    /\ worker \in Hands
    /\ sender \in [{s} -> {"idle", "checked", "notified", "cleared"}]

InOrder(s, scr) == WellTyped(s) /\ Ordered(scr) /\ Counted(s) /\ Latching /\ Unmissed(scr)

-----------------------------------------------------------------------------
(* What the steps do to those variables, whatever the constants are: s is the only  *)
(* sender, scr says that the screen is detected rather than raw bytes.               *)

Emits(l) ==
    /\ l \in Looks /\ chunks' = Append(chunks, l)
    /\ UNCHANGED <<typed, seen, latch, input_gen, cand, worker, sender>>

Begins ==
    /\ turn = "ready" /\ begun < typed /\ turn' = "busy" /\ begun' = begun + 1
    /\ Emits("PROCESSING")

Works ==
    /\ turn = "busy" /\ \E l \in {"PROCESSING", "UNKNOWN"} : Emits(l)
    /\ UNCHANGED <<turn, blink, begun>>

Ends ==
    /\ turn = "busy" /\ turn' = "ready" /\ blink' = FALSE /\ begun' = begun
    /\ \E l \in Sticky : Emits(l)

Redrawn ==
    /\ turn = "ready" /\ \E l \in Looks \ {"PROCESSING"} : Emits(l)
    /\ UNCHANGED <<turn, blink, begun>>

Takes(scr) ==
    /\ worker.pc = "idle" /\ chunks # <<>> /\ chunks' = Tail(chunks)
    /\ buffer' = Head(chunks) /\ screen' = IF scr THEN Head(chunks) ELSE screen
    /\ worker' = [pc |-> "edge", look |-> Head(chunks), gen |-> input_gen]
    /\ UNCHANGED <<agent, latch, input_gen, cand, sender>>

Moves(scr) ==
    /\ \/ /\ worker.pc = "edge"
          /\ \E p \in {"detect", "arm"} :
                worker' = [worker EXCEPT !.pc = p] /\ (~scr /\ last \in Sticky => p = "detect")
       \/ worker.pc = "arm" /\ worker' = Idle
    /\ UNCHANGED <<agent, chunks, seen, latch, input_gen, cand, sender>>

WorkerDetects(scr) ==
    /\ worker.pc = "detect"
    /\ ApplyDetection(Detect(IF scr THEN screen ELSE worker.look), worker.gen)
    /\ worker' = [worker EXCEPT !.pc = "arm"]
    /\ UNCHANGED <<agent, chunks, seen, input_gen, cand, sender>>

LoopDetects ==
    /\ \E l \in {buffer, screen} : ApplyDetection(Detect(l), input_gen)
    /\ cand' \in {cand, <<>>}
    /\ UNCHANGED <<agent, chunks, seen, input_gen, worker, sender>>

Probes ==
    /\ last = "PROCESSING" /\ buffer = "PROCESSING" /\ chunks = <<>> /\ blink' = FALSE
    /\ UNCHANGED latch \/ (cand # <<>> /\ (turn = "ready" \/ blink))
    /\ UNCHANGED <<turn, typed, begun, chunks, seen, input_gen, worker, sender>>

Checks(s) ==
    /\ last \in Sticky /\ ready_gen = input_gen
    /\ sender[s] = "idle" /\ sender' = [sender EXCEPT ![s] = "checked"]
    /\ UNCHANGED <<agent, chunks, seen, latch, input_gen, cand, worker>>

Notifies(s) ==
    /\ sender[s] = "checked" /\ sender' = [sender EXCEPT ![s] = "notified"]
    /\ input_gen' = input_gen + 1 /\ armed' = TRUE /\ cand' = <<>>
    /\ UNCHANGED <<agent, chunks, seen, last, ready_gen, worker>>

Clears(s) ==
    /\ sender[s] = "notified" /\ sender' = [sender EXCEPT ![s] = "cleared"]
    /\ buffer' = "empty"
    /\ UNCHANGED <<agent, chunks, screen, latch, input_gen, cand, worker>>

Types(s) ==
    /\ sender[s] = "cleared" /\ sender' = [sender EXCEPT ![s] = "idle"]
    /\ typed' = typed + 1
    /\ UNCHANGED <<turn, blink, begun, chunks, seen, latch, input_gen, cand, worker>>

Rests == UNCHANGED <<agent, chunks, seen, latch, input_gen, cand, worker, sender>>

Shape(s, scr) ==
    \/ Begins \/ Works \/ Ends \/ Redrawn
    \/ Takes(scr) \/ Moves(scr) \/ WorkerDetects(scr) \/ LoopDetects \/ Probes
    \/ Checks(s) \/ Notifies(s) \/ Clears(s) \/ Types(s) \/ Rests

-----------------------------------------------------------------------------
(* Sequences of looks.                                                           *)

LEMMA LooksType == Sticky \subseteq Looks /\ "PROCESSING" \in Looks /\ "UNKNOWN" \in Looks
                   /\ "PROCESSING" \notin Sticky /\ "UNKNOWN" \notin Sticky
                   /\ "empty" \notin Looks /\ "none" \notin Looks
BY DEF Looks, Sticky

\* An emitted look is the last of the output.
LEMMA Appended ==
    ASSUME NEW q \in Seq(Looks), NEW l \in Looks, NEW A, NEW B
    PROVE  LET r == Append(q, l)
           IN  /\ r \in Seq(Looks) /\ r # <<>> /\ r[Len(r)] = l
               /\ Has(r, A) <=> Has(q, A) \/ l \in A
               /\ NoneBefore(q, A, B) /\ (l \in B => ~Has(q, A)) => NoneBefore(r, A, B)
               /\ OneTurn(q) /\ (l = "PROCESSING" => NoneBefore(q, {"PROCESSING"}, Sticky))
                     => OneTurn(r)
<1> DEFINE r == Append(q, l)
<1>1. /\ r \in Seq(Looks) /\ r # <<>> /\ Len(r) = Len(q) + 1 /\ Len(q) \in Nat
      /\ \A i \in 1..Len(q) : r[i] = q[i]
      /\ r[Len(q) + 1] = l
  BY AppendProperties
<1> HIDE DEF r
<1>2. \A i \in 1..Len(r) : i \in 1..Len(q) \/ i = Len(q) + 1
  BY <1>1
<1>3. Has(r, A) <=> Has(q, A) \/ l \in A
  BY <1>1, <1>2 DEF Has
<1>4. NoneBefore(q, A, B) /\ (l \in B => ~Has(q, A)) => NoneBefore(r, A, B)
  BY <1>1, <1>2 DEF Has, NoneBefore
<1>5. OneTurn(q) /\ (l = "PROCESSING" => NoneBefore(q, {"PROCESSING"}, Sticky)) => OneTurn(r)
  <2> SUFFICES ASSUME OneTurn(q), l = "PROCESSING" => NoneBefore(q, {"PROCESSING"}, Sticky),
                      NEW i \in 1..Len(r), NEW j \in 1..Len(r), NEW m \in 1..Len(r),
                      i < j, j < m, r[i] = "PROCESSING", r[j] \in Sticky
               PROVE  r[m] # "PROCESSING"
    BY DEF OneTurn
  <2>1. i \in 1..Len(q) /\ j \in 1..Len(q) /\ q[i] = r[i] /\ q[j] = r[j]
    BY <1>1
  <2>2. CASE m \in 1..Len(q)
    BY <1>1, <2>1, <2>2 DEF OneTurn
  <2>3. CASE m = Len(q) + 1
    BY <1>1, <2>1, <2>3 DEF NoneBefore
  <2> QED BY <1>2, <2>2, <2>3
<1> QED BY <1>1, <1>3, <1>4, <1>5 DEF r

\* A look that is taken was the first of the output.
LEMMA Taking ==
    ASSUME NEW q \in Seq(Looks), q # <<>>, NEW A, NEW B
    PROVE  /\ Head(q) \in Looks /\ Tail(q) \in Seq(Looks) /\ Head(q) = q[1]
           /\ Has(q, A) <=> Head(q) \in A \/ Has(Tail(q), A)
           /\ NoneBefore(q, A, B) =>
                 NoneBefore(Tail(q), A, B) /\ (Head(q) \in A => ~Has(Tail(q), B))
           /\ OneTurn(q) => OneTurn(Tail(q))
           /\ OneTurn(q) /\ Head(q) = "PROCESSING" => NoneBefore(Tail(q), Sticky, {"PROCESSING"})
           /\ Tail(q) = <<>> => q[Len(q)] = Head(q)
           /\ Tail(q) # <<>> => Tail(q)[Len(Tail(q))] = q[Len(q)]
<1> DEFINE r == Tail(q)
<1>1. /\ Head(q) \in Looks /\ r \in Seq(Looks) /\ Len(r) = Len(q) - 1 /\ Len(q) \in Nat \ {0}
      /\ \A i \in 1..Len(r) : r[i] = q[i + 1]
      /\ Head(q) = q[1] /\ (r = <<>> <=> Len(r) = 0)
  <2>1. /\ Head(q) \in Looks /\ r \in Seq(Looks) /\ Len(r) = Len(q) - 1
        /\ \A i \in 1..Len(r) : r[i] = q[i + 1]
    BY HeadTailProperties
  <2>2. Len(q) \in Nat \ {0} /\ Head(q) = q[1]
    OBVIOUS
  <2>3. \A t \in Seq(Looks) : t = <<>> <=> Len(t) = 0
    BY EmptySeq
  <2> HIDE DEF r
  <2> QED BY <2>1, <2>2, <2>3
<1> HIDE DEF r
<1>2. \A i \in 1..Len(q) : i = 1 \/ (i - 1 \in 1..Len(r) /\ q[i] = r[i - 1])
  BY <1>1
<1>3. 1 \in 1..Len(q) /\ \A i \in 1..Len(r) : i + 1 \in 1..Len(q) /\ q[i + 1] = r[i]
  BY <1>1
<1>4. Has(q, A) <=> Head(q) \in A \/ Has(r, A)
  BY <1>1, <1>2, <1>3 DEF Has
<1>5. NoneBefore(q, A, B) => NoneBefore(r, A, B)
  <2> SUFFICES ASSUME NoneBefore(q, A, B), NEW i \in 1..Len(r), NEW j \in 1..Len(r),
                      i < j, r[i] \in A
               PROVE  r[j] \notin B
    BY DEF NoneBefore
  <2>1. i + 1 < j + 1
    BY <1>1
  <2> QED BY <1>3, <2>1 DEF NoneBefore
<1>6. NoneBefore(q, A, B) /\ Head(q) \in A => ~Has(r, B)
  <2> SUFFICES ASSUME NoneBefore(q, A, B), Head(q) \in A, NEW j \in 1..Len(r)
               PROVE  r[j] \notin B
    BY DEF Has
  <2>1. 1 < j + 1
    BY <1>1
  <2> QED BY <1>1, <1>3, <2>1 DEF NoneBefore
<1>7. OneTurn(q) => OneTurn(r)
  <2> SUFFICES ASSUME OneTurn(q), NEW i \in 1..Len(r), NEW j \in 1..Len(r), NEW m \in 1..Len(r),
                      i < j, j < m, r[i] = "PROCESSING", r[j] \in Sticky
               PROVE  r[m] # "PROCESSING"
    BY DEF OneTurn
  <2>1. i + 1 < j + 1 /\ j + 1 < m + 1
    BY <1>1
  <2> QED BY <1>3, <2>1 DEF OneTurn
<1>8. OneTurn(q) /\ Head(q) = "PROCESSING" => NoneBefore(r, Sticky, {"PROCESSING"})
  <2> SUFFICES ASSUME OneTurn(q), Head(q) = "PROCESSING", NEW i \in 1..Len(r), NEW j \in 1..Len(r),
                      i < j, r[i] \in Sticky
               PROVE  r[j] # "PROCESSING"
    BY DEF NoneBefore
  <2>1. 1 < i + 1 /\ i + 1 < j + 1
    BY <1>1
  <2> QED BY <1>1, <1>3, <2>1 DEF OneTurn
<1>9. (r = <<>> => q[Len(q)] = Head(q)) /\ (r # <<>> => r[Len(r)] = q[Len(q)])
  BY <1>1
<1> QED BY <1>1, <1>4, <1>5, <1>6, <1>7, <1>8, <1>9 DEF r

-----------------------------------------------------------------------------
(* The invariant.                                                                *)

\* Where nothing new can be detected, the order stays.
LEMMA OrderStays ==
    ASSUME NEW scr, Ordered(scr), turn' = turn, chunks' = chunks, ~scr => screen' = "empty",
           Taken' \subseteq Taken \cup {"empty"}, Past' => Past
    PROVE  Ordered(scr)' /\ (Calm => Calm')
BY LooksType DEF Ordered, Calm, Has, NoneBefore, OneTurn

\* What is taken is a look, or nothing.
LEMMA TakenType == ASSUME NEW s, WellTyped(s) PROVE Taken \subseteq Looks \cup {"empty"}
BY DEF Taken, WellTyped, Hands

\* A detection of what is still to be taken.
LEMMA DetectionKeeps ==
    ASSUME NEW s, NEW scr, InOrder(s, scr), NEW l \in Taken, NEW g,
           ApplyDetection(Detect(l), g),
           UNCHANGED <<agent, chunks, seen, input_gen, sender>>, cand' \in {cand, <<>>},
           worker' \in Hands,
           Taken' \subseteq Taken
    PROVE  /\ WellTyped(s)' /\ Ordered(scr)' /\ Counted(s)' /\ Latching'
           /\ turn = "busy" /\ last' \in Sticky => last \in Sticky
<1> DEFINE look == Detect(l)
<1> USE LooksType DEF agent, seen
<1>1. /\ look \in Looks /\ (look \in Sticky => l \in Sticky)
      /\ (look = "PROCESSING" => l = "PROCESSING")
  BY TakenType DEF InOrder, Detect
<1>2. \/ UNCHANGED latch
      \/ /\ last' = look /\ look # last /\ ~NoSignal(look)
         /\ armed' \in BOOLEAN /\ (armed /\ ~Disarms(look) => armed')
         /\ ready_gen' = IF last = "PROCESSING" /\ look \in Sticky THEN input_gen ELSE ready_gen
  <2>1. CASE g # input_gen \/ NoSignal(look) \/ Latched(look) \/ look = last
    BY <2>1 DEF ApplyDetection
  <2>2. CASE ~(g # input_gen \/ NoSignal(look) \/ Latched(look) \/ look = last)
    <3>1. /\ last' = look
          /\ armed' = (armed /\ ~Disarms(look))
          /\ ready_gen' = IF last = "PROCESSING" /\ look \in Sticky THEN input_gen ELSE ready_gen
      BY <2>2 DEF ApplyDetection, Answered
    <3>2. armed' \in BOOLEAN /\ (armed /\ ~Disarms(look) => armed')
      BY <3>1, Zenon
    <3> QED BY <2>2, <3>1, <3>2
  <2> QED BY <2>1, <2>2
<1> HIDE DEF look
<1>3. Past' => Past
  <2>1. last' \notin Sticky /\ last \in Sticky => look = "PROCESSING"
    BY <1>1, <1>2 DEF latch, NoSignal, Looks, Sticky
  <2> QED BY <1>1, <2>1 DEF Past
<1>4. Ordered(scr)' /\ (Calm => Calm')
  BY <1>3, OrderStays DEF InOrder, Ordered
<1>5. WellTyped(s)'
  BY <1>1, <1>2 DEF InOrder, WellTyped, Hands, latch
<1>6. last \notin Sticky /\ last' \in Sticky => Calm
  <2>1. last \notin Sticky /\ last' \in Sticky => Past /\ Taken \cap Sticky # {}
    BY <1>1, <1>2 DEF Past, latch
  <2> QED BY <2>1 DEF InOrder, WellTyped, Ordered, Calm
<1>7. ready_gen' = ready_gen \/ (ready_gen' = input_gen /\ Calm /\ begun = input_gen)
  <2>1. last = "PROCESSING" /\ look \in Sticky /\ ready_gen' # ready_gen
           => last \notin Sticky /\ last' \in Sticky
    BY <1>2 DEF latch
  <2>2. last \notin Sticky => begun = input_gen
    BY DEF InOrder, Latching, Counted, WellTyped
  <2> QED BY <1>2, <1>6, <2>1, <2>2 DEF latch
<1>8. Counted(s)'
  <2>1. last \in Sticky /\ ready_gen = input_gen => last' \in Sticky /\ ready_gen' = input_gen
    BY <1>1, <1>2, <1>7 DEF InOrder, Latching, Calm, latch, NoSignal, Looks, Sticky
  <2> QED BY <1>7, <2>1 DEF InOrder, Counted, WellTyped, Calm
<1>9. Latching'
  <2>1. begun < input_gen => last' \in Sticky /\ armed'
    BY <1>1, <1>2 DEF InOrder, Latching, Calm, latch, NoSignal, Disarms, Looks, Sticky
  <2>2. last' \in Sticky /\ (ready_gen' = input_gen \/ begun < input_gen) => Calm
    BY <1>6, <1>7 DEF InOrder, Latching
  <2>3. turn = "busy" /\ last' \in Sticky => armed'
    <3>1. turn = "busy" /\ last' \in Sticky => last \in Sticky /\ armed
      BY <1>6 DEF InOrder, Latching, Calm
    <3>2. last' \in Sticky /\ last \in Sticky /\ last' = look => ~Disarms(look)
      BY DEF Disarms
    <3>3. UNCHANGED latch => armed' = armed
      BY DEF latch
    <3> QED BY <1>2, <3>1, <3>2, <3>3
  <2> QED BY <1>4, <2>1, <2>2, <2>3 DEF InOrder, Latching
<1> QED BY <1>4, <1>5, <1>6, <1>8, <1>9 DEF Calm

\* The agent's steps: a turn begins when all is calm, and what it shows is in order.
LEMMA AgentKeeps ==
    ASSUME NEW s, NEW scr, InOrder(s, scr), Begins \/ Works \/ Ends \/ Redrawn
    PROVE  InOrder(s, scr)'
<1> USE LooksType DEF seen, latch
<1>1. PICK l \in Looks : chunks' = Append(chunks, l)
                         /\ UNCHANGED <<typed, seen, latch, input_gen, cand, worker, sender>>
  BY DEF Begins, Works, Ends, Redrawn, Emits
<1>2. Taken' = Taken /\ (Past' <=> Past)
  BY <1>1 DEF Taken, Past
<1>3. chunks \in Seq(Looks)
  BY DEF InOrder, WellTyped
<1>4. chunks' \in Seq(Looks) /\ chunks' # <<>> /\ chunks'[Len(chunks')] = l
  BY <1>1, <1>3, Appended
<1>5. \A A, B : /\ Has(chunks', A) <=> Has(chunks, A) \/ l \in A
                /\ NoneBefore(chunks, A, B) /\ (l \in B => ~Has(chunks, A))
                      => NoneBefore(chunks', A, B)
  BY <1>1, <1>3, Appended
<1>6. OneTurn(chunks) /\ (l = "PROCESSING" => NoneBefore(chunks, {"PROCESSING"}, Sticky))
         => OneTurn(chunks')
  BY <1>1, <1>3, Appended
<1>7. CASE Begins
  <2>1. l = "PROCESSING" /\ turn = "ready" /\ turn' = "busy" /\ begun' = begun + 1
    BY <1>1, <1>4, <1>7 DEF Begins, Emits
  <2>2. /\ begun + 1 = input_gen /\ typed = input_gen /\ ready_gen < input_gen /\ last \in Sticky
        /\ armed /\ cand = <<>> /\ Calm
    BY <1>7, <2>1 DEF Begins, InOrder, WellTyped, Counted, Latching
  <2>3. NoneBefore(chunks, {"PROCESSING"}, Sticky)
    BY <2>2, <1>3 DEF Calm, Has, NoneBefore
  <2>4. ~Past
    BY <2>2 DEF Calm, Past
  <2>5. Ordered(scr)'
    BY <1>1, <1>2, <1>5, <1>6, <2>1, <2>3, <2>4 DEF Ordered, InOrder
  <2>6. Counted(s)' /\ Latching' /\ Unmissed(scr)'
    BY <1>1, <1>5, <2>1, <2>2 DEF InOrder, WellTyped, Counted, Latching, Unmissed
  <2>7. WellTyped(s)'
    BY <1>1, <1>4, <2>1 DEF InOrder, WellTyped
  <2> QED BY <2>5, <2>6, <2>7 DEF InOrder
<1>8. CASE Works
  <2>1. l \in {"PROCESSING", "UNKNOWN"} /\ turn = "busy" /\ UNCHANGED <<turn, blink, begun>>
    BY <1>1, <1>3, <1>4, <1>8, Appended DEF Works, Emits
  <2>2. Ordered(scr)'
    BY <1>1, <1>2, <1>5, <1>6, <2>1 DEF Ordered, InOrder
  <2>3. Counted(s)' /\ Latching' /\ Unmissed(scr)'
    BY <1>1, <1>2, <1>5, <2>1 DEF InOrder, WellTyped, Counted, Latching, Unmissed, Calm
  <2> QED BY <1>1, <1>4, <2>1, <2>2, <2>3 DEF InOrder, WellTyped
<1>9. CASE Ends
  <2>1. l \in Sticky /\ turn = "busy" /\ turn' = "ready" /\ blink' = FALSE /\ begun' = begun
    BY <1>1, <1>3, <1>4, <1>9, Appended DEF Ends, Emits
  <2>2. Past => NoneBefore(chunks, Sticky, {"PROCESSING"})
    BY <2>1, <1>3 DEF InOrder, Ordered, Has, NoneBefore
  <2>3. Ordered(scr)'
    BY <1>1, <1>2, <1>4, <1>5, <1>6, <2>1, <2>2 DEF Ordered, InOrder
  <2>4. Counted(s)' /\ Latching' /\ Unmissed(scr)'
    BY <1>1, <1>2, <1>5, <2>1 DEF InOrder, WellTyped, Counted, Latching, Unmissed, Calm
  <2> QED BY <1>1, <1>4, <2>1, <2>3, <2>4 DEF InOrder, WellTyped
<1>10. CASE Redrawn
  <2>1. l # "PROCESSING" /\ turn = "ready" /\ UNCHANGED <<turn, blink, begun>>
    BY <1>1, <1>3, <1>4, <1>10, Appended DEF Redrawn, Emits
  <2>2. Ordered(scr)'
    BY <1>1, <1>2, <1>4, <1>5, <1>6, <2>1 DEF Ordered, InOrder
  <2>3. Counted(s)' /\ Latching' /\ Unmissed(scr)'
    BY <1>1, <1>2, <1>5, <2>1 DEF InOrder, WellTyped, Counted, Latching, Unmissed, Calm
  <2> QED BY <1>1, <1>4, <2>1, <2>2, <2>3 DEF InOrder, WellTyped
<1> QED BY <1>7, <1>8, <1>9, <1>10

\* The worker's steps: what it takes is the oldest output, and is all there is to detect.
LEMMA TakesKeeps ==
    ASSUME NEW s, NEW scr, InOrder(s, scr), Takes(scr)
    PROVE  InOrder(s, scr)'
<1> USE LooksType DEF agent, latch
<1> DEFINE h == Head(chunks)
<1>1. chunks \in Seq(Looks) /\ chunks # <<>> /\ chunks' = Tail(chunks)
  BY DEF InOrder, WellTyped, Hands, Takes
<1>2. h \in Looks /\ chunks' \in Seq(Looks)
  BY <1>1, Taking
<1>3. \A A, B : /\ Has(chunks, A) <=> h \in A \/ Has(chunks', A)
                /\ NoneBefore(chunks, A, B) =>
                      NoneBefore(chunks', A, B) /\ (h \in A => ~Has(chunks', B))
  BY <1>1, Taking
<1>4. /\ OneTurn(chunks) => OneTurn(chunks')
      /\ OneTurn(chunks) /\ h = "PROCESSING" => NoneBefore(chunks', Sticky, {"PROCESSING"})
      /\ chunks' = <<>> => chunks[Len(chunks)] = h
      /\ chunks' # <<>> => chunks'[Len(chunks')] = chunks[Len(chunks)]
  BY <1>1, Taking
<1>5. /\ worker' = [pc |-> "edge", look |-> h, gen |-> input_gen]
      /\ buffer' = h /\ screen' = IF scr THEN h ELSE screen
      /\ UNCHANGED <<turn, blink, typed, begun, last, armed, ready_gen, input_gen, cand, sender>>
  BY DEF Takes
<1> HIDE DEF h
<1>6. Taken' \subseteq {h, "empty"}
  BY <1>5 DEF Taken, InOrder, Ordered
<1>7. Past' <=> last \notin Sticky \/ h = "PROCESSING"
  <2>1. h \in Taken'
    BY <1>5 DEF Taken
  <2> QED BY <1>5, <1>6, <2>1 DEF Past
<1>8. Ordered(scr)'
  <2>1. OneTurn(chunks')
    BY <1>4 DEF InOrder, Ordered
  <2>2. turn = "busy" =>
          /\ NoneBefore(chunks', {"PROCESSING"}, Sticky)
          /\ Past' => ~Has(chunks', Sticky) /\ Taken' \cap Sticky = {}
    BY <1>2, <1>3, <1>6, <1>7 DEF InOrder, Ordered, Past
  <2>3. turn = "ready" =>
          /\ Past' => NoneBefore(chunks', Sticky, {"PROCESSING"})
          /\ Past' /\ Taken' \cap Sticky # {} =>
                ~Has(chunks', {"PROCESSING"}) /\ "PROCESSING" \notin Taken'
    BY <1>2, <1>3, <1>4, <1>6, <1>7 DEF InOrder, Ordered, Past
  <2>4. turn = "ready" => IF chunks' = <<>> THEN "PROCESSING" \notin Taken'
                                            ELSE chunks'[Len(chunks')] # "PROCESSING"
    BY <1>1, <1>4, <1>6 DEF InOrder, Ordered
  <2>5. ~scr => screen' = "empty"
    BY <1>5 DEF InOrder, Ordered
  <2> QED BY <1>5, <2>1, <2>2, <2>3, <2>4, <2>5 DEF Ordered
<1>9. Calm => Calm'
  BY <1>3, <1>5, <1>6 DEF Calm
<1>10. Counted(s)' /\ Latching'
  BY <1>5, <1>9 DEF InOrder, Counted, Latching
<1>11. Unmissed(scr)'
  <2>1. Has(chunks, {"PROCESSING"}) => h = "PROCESSING" \/ Has(chunks', {"PROCESSING"})
    BY <1>3
  <2>2. worker.pc = "idle"
    BY DEF Takes
  <2> QED BY <1>5, <2>1, <2>2 DEF InOrder, Unmissed
<1>12. WellTyped(s)'
  BY <1>2, <1>5 DEF InOrder, WellTyped, Hands
<1> QED BY <1>8, <1>10, <1>11, <1>12 DEF InOrder

LEMMA WorkerKeeps ==
    ASSUME NEW s, NEW scr, InOrder(s, scr), Moves(scr) \/ WorkerDetects(scr)
    PROVE  InOrder(s, scr)'
<1> USE LooksType DEF agent, latch, seen
<1>1. CASE Moves(scr)
  <2>1. Taken' \subseteq Taken /\ (Past' => Past)
    BY <1>1 DEF Moves, Taken, Past, Idle, InOrder, WellTyped, Hands
  <2>2. Ordered(scr)' /\ (Calm => Calm')
    BY <1>1, <2>1, OrderStays DEF Moves, InOrder, Ordered
  <2>3. Counted(s)' /\ Latching'
    BY <1>1, <2>2 DEF Moves, InOrder, Counted, Latching
  <2>4. WellTyped(s)'
    BY <1>1 DEF Moves, Idle, InOrder, WellTyped, Hands
  <2>5. Unmissed(scr)'
    BY <1>1 DEF Moves, Idle, InOrder, Unmissed, WellTyped, Hands
  <2> QED BY <2>2, <2>3, <2>4, <2>5 DEF InOrder
<1>2. CASE WorkerDetects(scr)
  <2> DEFINE l == IF scr THEN screen ELSE worker.look
  <2>1. l \in Taken /\ Taken' \subseteq Taken
    BY <1>2 DEF WorkerDetects, Taken, InOrder, WellTyped, Hands
  <2>2. worker' \in Hands
    BY <1>2 DEF WorkerDetects, InOrder, WellTyped, Hands
  <2>3. /\ WellTyped(s)' /\ Ordered(scr)' /\ Counted(s)' /\ Latching'
        /\ turn = "busy" /\ last' \in Sticky => last \in Sticky
    BY <1>2, <2>1, <2>2, DetectionKeeps DEF WorkerDetects
  <2>4. ASSUME ~scr, turn = "busy", last' \in Sticky
        PROVE  Has(chunks, {"PROCESSING"})
    <3>1. last \in Sticky /\ armed
      BY <2>3, <2>4 DEF InOrder, Latching
    <3>2. ASSUME worker.look = "PROCESSING", worker.gen = input_gen PROVE FALSE
      <4>1. ApplyDetection("PROCESSING", input_gen)
        BY <1>2, <2>4, <3>2 DEF WorkerDetects, Detect
      <4>2. last' = "PROCESSING"
        BY <3>1, <4>1 DEF ApplyDetection, NoSignal, Latched
      <4> QED BY <2>4, <4>2
    <3> QED BY <2>4, <3>1, <3>2 DEF InOrder, Unmissed
  <2>5. Unmissed(scr)'
    BY <1>2, <2>4 DEF WorkerDetects, Unmissed
  <2> QED BY <2>3, <2>5 DEF InOrder
<1> QED BY <1>1, <1>2

\* The event loop's detections, and the captures of the pane: one is never confirmed.
LEMMA LoopKeeps ==
    ASSUME NEW s, NEW scr, InOrder(s, scr), LoopDetects \/ Probes
    PROVE  InOrder(s, scr)'
<1> USE LooksType DEF agent, latch, seen
<1>1. CASE LoopDetects
  <2>1. PICK l \in {buffer, screen} : ApplyDetection(Detect(l), input_gen)
    BY <1>1 DEF LoopDetects
  <2>2. l \in Taken /\ Taken' = Taken
    BY <1>1 DEF LoopDetects, Taken
  <2>3. worker' \in Hands
    BY <1>1 DEF LoopDetects, InOrder, WellTyped, Hands
  <2>4. /\ WellTyped(s)' /\ Ordered(scr)' /\ Counted(s)' /\ Latching'
        /\ turn = "busy" /\ last' \in Sticky => last \in Sticky
    BY <1>1, <2>1, <2>2, <2>3, DetectionKeeps DEF LoopDetects
  <2>5. Unmissed(scr)'
    BY <1>1, <2>4 DEF LoopDetects, InOrder, Unmissed
  <2> QED BY <2>4, <2>5 DEF InOrder
<1>2. CASE Probes
  <2>1. turn = "ready" => buffer # "PROCESSING"
    BY <1>2 DEF Probes, InOrder, Ordered, Taken
  <2>2. UNCHANGED latch
    BY <1>2, <2>1 DEF Probes, InOrder, Latching
  <2>3. Taken' = Taken /\ (Past' <=> Past)
    BY <1>2, <2>2 DEF Probes, Taken, Past
  <2>4. Ordered(scr)' /\ (Calm => Calm')
    BY <1>2, <2>3, OrderStays DEF Probes, InOrder, Ordered
  <2>5. Counted(s)' /\ Latching' /\ Unmissed(scr)'
    BY <1>2, <2>2, <2>4 DEF Probes, InOrder, Counted, Latching, Unmissed
  <2> QED BY <1>2, <2>2, <2>4, <2>5 DEF Probes, InOrder, WellTyped, Hands
<1> QED BY <1>1, <1>2

\* The sender's steps: it is between two cycles until it has typed.
LEMMA SenderKeeps ==
    ASSUME NEW s, NEW scr, InOrder(s, scr), Checks(s) \/ Notifies(s) \/ Clears(s) \/ Types(s)
    PROVE  InOrder(s, scr)'
<1> USE LooksType DEF agent, latch, seen
<1>1. sender \in [{s} -> {"idle", "checked", "notified", "cleared"}]
  BY DEF InOrder, WellTyped, Hands
<1>2. Taken' \subseteq Taken \cup {"empty"} /\ (Past' => Past)
  BY DEF Checks, Notifies, Clears, Types, Taken, Past
<1>3. Ordered(scr)' /\ (Calm => Calm')
  BY <1>2, OrderStays DEF Checks, Notifies, Clears, Types, InOrder, Ordered
<1>4. CASE Checks(s) \/ Clears(s) \/ Types(s)
  <2>1. WellTyped(s)' /\ Counted(s)'
    BY <1>1, <1>4 DEF Checks, Clears, Types, InOrder, WellTyped, Hands, Counted
  <2>2. Latching' /\ Unmissed(scr)'
    BY <1>3, <1>4 DEF Checks, Clears, Types, InOrder, Latching, Unmissed
  <2> QED BY <1>3, <2>1, <2>2 DEF InOrder
<1>5. CASE Notifies(s)
  <2>1. last \in Sticky /\ ready_gen = input_gen /\ typed = input_gen /\ Calm
    BY <1>5 DEF Notifies, InOrder, Counted, Latching
  <2>2. WellTyped(s)' /\ Counted(s)'
    BY <1>1, <1>5, <2>1 DEF Notifies, InOrder, WellTyped, Hands, Counted
  <2>3. Latching' /\ Unmissed(scr)'
    BY <1>3, <1>5, <2>1 DEF Notifies, InOrder, Latching, Unmissed, Calm
  <2> QED BY <1>3, <2>2, <2>3 DEF InOrder
<1> QED BY <1>4, <1>5

LEMMA RestKeeps == ASSUME NEW s, NEW scr, InOrder(s, scr), Rests PROVE InOrder(s, scr)'
<1>1. Taken' = Taken /\ (Past' <=> Past)
  BY DEF Rests, Taken, Past, agent, latch, seen
<1>2. Ordered(scr)' /\ (Calm => Calm')
  BY <1>1, OrderStays DEF Rests, InOrder, Ordered, agent, latch, seen
<1> QED
  BY <1>2 DEF Rests, InOrder, WellTyped, Hands, Counted, Latching, Unmissed, agent, latch, seen

LEMMA ShapeKeeps == ASSUME NEW s, NEW scr, InOrder(s, scr), Shape(s, scr) PROVE InOrder(s, scr)'
BY AgentKeeps, TakesKeeps, WorkerKeeps, LoopKeeps, SenderKeeps, RestKeeps DEF Shape

\* At the start nothing was sent, and a busy terminal shows nothing ready.
LEMMA OrderedAtStart ==
    ASSUME NEW s, NEW scr, Senders = {s}, Init PROVE InOrder(s, scr)
<1> USE LooksType
<1>1. /\ chunks = <<>> /\ screen = "empty" /\ typed = 0 /\ begun = 0 /\ input_gen = 0
      /\ ready_gen = 0 /\ cand = <<>> /\ worker = Idle /\ sender = [x \in {s} |-> "idle"]
  BY DEF Init
<1>2. armed = FALSE /\ blink = FALSE
  BY DEF Init
<1>3. \/ turn = "ready" /\ buffer = "empty" /\ last = "none"
      \/ turn = "ready" /\ buffer \in Sticky /\ last = buffer
      \/ turn = "busy" /\ buffer \in {"PROCESSING", "UNKNOWN"} /\ last = buffer
  BY MonitorAssumption DEF Init
<1>4. Taken = {buffer, "empty"}
  BY <1>1 DEF Taken, Idle
<1>5. \A A, B : ~Has(chunks, A) /\ NoneBefore(chunks, A, B)
  BY <1>1 DEF Has, NoneBefore
<1>6. OneTurn(chunks)
  BY <1>1 DEF OneTurn
<1>7. Ordered(scr)
  BY <1>1, <1>3, <1>4, <1>5, <1>6 DEF Ordered
<1>8. last \in Sticky => Calm
  BY <1>3, <1>4, <1>5 DEF Calm
<1>9. WellTyped(s)
  <2>1. armed \in BOOLEAN
    BY <1>2
  <2> QED BY <1>1, <1>3, <2>1 DEF WellTyped, Hands, Idle
<1>10. Counted(s)
  BY <1>1 DEF Counted
<1>11. Latching
  <2>1. ~blink
    BY <1>2
  <2> QED BY <1>1, <1>8, <2>1 DEF Latching, Calm
<1>12. Unmissed(scr)
  BY <1>3, <1>8 DEF Unmissed, Calm
<1> QED BY <1>7, <1>9, <1>10, <1>11, <1>12 DEF InOrder

-----------------------------------------------------------------------------
(* The steps of the terminals.                                                   *)

\* One caller at a time waits for the cycle to end (the web chat, the sessions API), no
\* detection overlaps another step, and a ready terminal does not show work.
OnePerCycle(s) == Senders = {s} /\ Gate = "cycle" /\ ~Lags /\ "PROCESSING" \notin Redraws

LEMMA StepShape ==
    ASSUME NEW s, OnePerCycle(s), WellTyped(s), tasks = <<>>, [Next]_vars
    PROVE  Shape(s, Screen) /\ tasks' = <<>>
<1> USE LooksType, MonitorAssumption DEF OnePerCycle
<1> USE DEF agent, seen, latch, debounce
<1>1. CASE Agent
  <2>1. CASE BeginTurn
    BY <2>1 DEF BeginTurn, Begins, Shape, Emit, Emits, AgentOnly
  <2>2. CASE Work
    BY <2>2 DEF Work, Works, Shape, Emit, Emits, AgentOnly
  <2>3. CASE EndTurn
    BY <2>3 DEF EndTurn, Ends, Shape, Emit, Emits, AgentOnly, Sticky
  <2>4. CASE Redraw
    BY <2>4 DEF Redraw, Redrawn, Shape, Emit, Emits, AgentOnly, Looks, Sticky
  <2> QED BY <1>1, <2>1, <2>2, <2>3, <2>4 DEF Agent
<1>2. CASE Worker
  <2>1. CASE TakeChunk
    BY <2>1 DEF TakeChunk, Takes, Shape
  <2>2. CASE Edge
    BY <2>2 DEF Edge, Moves, Shape, DetectsNow, Sticky
  <2>3. CASE DetectEdge
    BY <2>3 DEF DetectEdge, WorkerDetects, Shape, Detect
  <2>4. CASE Arm
    BY <2>4 DEF Arm, Moves, Shape, Idle
  <2> QED BY <1>2, <2>1, <2>2, <2>3, <2>4 DEF Worker
<1>3. CASE CancelTimer \/ RunArm
  BY <1>3 DEF CancelTimer, RunArm, MonitorOnly, Rests, Shape
<1>4. CASE Quiescent
  <2>1. \E l \in {buffer, screen} : ApplyDetection(Detect(l), input_gen)
    BY <1>4 DEF Quiescent, Spawn, WellTyped, Looks, Sticky, Detect
  <2>2. tasks' = <<>>
    BY <1>4 DEF Quiescent, Spawn
  <2> QED BY <1>4, <2>1, <2>2 DEF Quiescent, MonitorOnly, LoopDetects, Shape
<1>5. CASE Poll
  <2>1. ApplyDetection(Detect(buffer), input_gen)
    BY <1>5 DEF Poll, Spawn, Sticky, Detect
  <2>2. tasks' = <<>> /\ cand' = <<>>
    BY <1>5 DEF Poll, Spawn, DropCandidate
  <2> QED BY <1>5, <2>1, <2>2 DEF Poll, MonitorOnly, LoopDetects, Shape
<1>6. CASE ReadScreen \/ EndDetection
  BY <1>6 DEF ReadScreen, EndDetection
<1>7. CASE Probe
  <2>1. tasks' = <<>>
    BY <1>7 DEF Probe, Spawn
  <2>2. UNCHANGED latch \/ (cand # <<>> /\ (turn = "ready" \/ blink))
    <3>1. \A g, l : <<g, l>> # <<>>
      OBVIOUS
    <3> QED BY <1>7, <3>1, Zenon DEF Probe, Confirmed
  <2> QED BY <1>7, <2>1, <2>2 DEF Probe, Probes, Shape
<1>8. ASSUME NEW x \in Senders,
             \/ CheckStatus(x) \/ NotifyInputSent(x)
             \/ ClearRollingBuffer(x) \/ SendKeys(x)
      PROVE  Shape(s, Screen) /\ tasks' = <<>>
  <2> USE DEF SenderOnly, Shape
  <2>1. CASE CheckStatus(x)
    BY <1>8, <2>1 DEF CheckStatus, Admits, Checks, Sticky
  <2>2. CASE NotifyInputSent(x)
    BY <1>8, <2>2 DEF NotifyInputSent, Notifies
  <2>3. CASE ClearRollingBuffer(x)
    BY <1>8, <2>3 DEF ClearRollingBuffer, Clears
  <2>4. CASE SendKeys(x)
    BY <1>8, <2>4 DEF SendKeys, Types
  <2> QED BY <1>8, <2>1, <2>2, <2>3, <2>4
<1>9. CASE UNCHANGED vars
  BY <1>9 DEF vars, Rests, Shape
<1> QED
  BY <1>1, <1>2, <1>3, <1>4, <1>5, <1>6, <1>7, <1>8, <1>9 DEF Next, Loop

\* The detection of the terminal on raw bytes is the one of the theorems above.
LEMMA RawApplies == ASSUME NEW l, NEW g, Raw!ApplyDetection(l, g) PROVE ApplyDetection(l, g)
BY DEF Raw!ApplyDetection, ApplyDetection, Raw!NoSignal, NoSignal, Raw!Latched, Latched, Raw!Sticky,
       Sticky, Raw!Disarms, Disarms, Raw!Answered, Answered, Raw!latch, latch

LEMMA RawStepShape ==
    ASSUME NEW s, Senders = {s}, WellTyped(s), tasks = <<>>, [Raw!Next]_(Raw!vars)
    PROVE  Shape(s, FALSE) /\ tasks' = <<>>
<1> USE LooksType
<1> USE DEF agent, seen, latch, debounce, Raw!agent, Raw!seen, Raw!latch, Raw!debounce
<1>1. CASE Raw!Agent
  <2>1. CASE Raw!BeginTurn
    BY <2>1 DEF Raw!BeginTurn, Begins, Shape, Raw!Emit, Emits, Raw!AgentOnly
  <2>2. CASE Raw!Work
    BY <2>2 DEF Raw!Work, Works, Shape, Raw!Emit, Emits, Raw!AgentOnly
  <2>3. CASE Raw!EndTurn
    BY <2>3 DEF Raw!EndTurn, Ends, Shape, Raw!Emit, Emits, Raw!AgentOnly, Sticky
  <2>4. CASE Raw!Redraw
    BY <2>4 DEF Raw!Redraw, Redrawn, Shape, Raw!Emit, Emits, Raw!AgentOnly, Looks, Sticky
  <2> QED BY <1>1, <2>1, <2>2, <2>3, <2>4 DEF Raw!Agent
<1>2. CASE Raw!Worker
  <2>1. CASE Raw!TakeChunk
    BY <2>1 DEF Raw!TakeChunk, Takes, Shape
  <2>2. CASE Raw!Edge
    BY <2>2 DEF Raw!Edge, Moves, Shape, Raw!DetectsNow, Raw!Sticky, Sticky
  <2>3. CASE Raw!DetectEdge
    BY <2>3, RawApplies DEF Raw!DetectEdge, WorkerDetects, Shape, Raw!Detect, Detect
  <2>4. CASE Raw!Arm
    BY <2>4 DEF Raw!Arm, Moves, Shape, Raw!Idle, Idle
  <2> QED BY <1>2, <2>1, <2>2, <2>3, <2>4 DEF Raw!Worker
<1>3. CASE Raw!CancelTimer \/ Raw!RunArm
  BY <1>3 DEF Raw!CancelTimer, Raw!RunArm, Raw!MonitorOnly, Rests, Shape
<1>4. CASE Raw!Quiescent
  <2>1. \E l \in {buffer, screen} : ApplyDetection(Detect(l), input_gen)
    BY <1>4, RawApplies DEF Raw!Quiescent, Raw!Spawn, WellTyped, Looks, Sticky, Raw!Detect, Detect
  <2>2. tasks' = <<>>
    BY <1>4 DEF Raw!Quiescent, Raw!Spawn
  <2> QED BY <1>4, <2>1, <2>2 DEF Raw!Quiescent, Raw!MonitorOnly, LoopDetects, Shape
<1>5. CASE Raw!Poll
  <2>1. ApplyDetection(Detect(buffer), input_gen)
    BY <1>5, RawApplies DEF Raw!Poll, Raw!Spawn, Raw!Sticky, Raw!Detect, Detect
  <2>2. tasks' = <<>> /\ cand' = <<>>
    BY <1>5 DEF Raw!Poll, Raw!Spawn, Raw!DropCandidate
  <2> QED BY <1>5, <2>1, <2>2 DEF Raw!Poll, Raw!MonitorOnly, LoopDetects, Shape
<1>6. CASE Raw!ReadScreen \/ Raw!EndDetection
  BY <1>6 DEF Raw!ReadScreen, Raw!EndDetection
<1>7. CASE Raw!Probe
  <2>1. tasks' = <<>>
    BY <1>7 DEF Raw!Probe, Raw!Spawn
  <2>2. UNCHANGED latch \/ (cand # <<>> /\ (turn = "ready" \/ blink))
    <3>1. \A g, l : <<g, l>> # <<>>
      OBVIOUS
    <3> QED BY <1>7, <3>1, Zenon DEF Raw!Probe, Raw!Confirmed
  <2> QED BY <1>7, <2>1, <2>2 DEF Raw!Probe, Probes, Shape
<1>8. ASSUME NEW x \in Senders,
             \/ Raw!CheckStatus(x) \/ Raw!NotifyInputSent(x)
             \/ Raw!ClearRollingBuffer(x) \/ Raw!SendKeys(x)
      PROVE  Shape(s, FALSE) /\ tasks' = <<>>
  <2> USE DEF Raw!SenderOnly, Shape
  <2>1. CASE Raw!CheckStatus(x)
    BY <1>8, <2>1 DEF Raw!CheckStatus, Raw!Admits, Checks, Raw!Sticky, Sticky
  <2>2. CASE Raw!NotifyInputSent(x)
    BY <1>8, <2>2 DEF Raw!NotifyInputSent, Notifies
  <2>3. CASE Raw!ClearRollingBuffer(x)
    BY <1>8, <2>3 DEF Raw!ClearRollingBuffer, Clears
  <2>4. CASE Raw!SendKeys(x)
    BY <1>8, <2>4 DEF Raw!SendKeys, Types
  <2> QED BY <1>8, <2>1, <2>2, <2>3, <2>4
<1>9. CASE UNCHANGED Raw!vars
  BY <1>9 DEF Raw!vars, Rests, Shape
<1> QED
  BY <1>1, <1>2, <1>3, <1>4, <1>5, <1>6, <1>7, <1>8, <1>9 DEF Raw!Next, Raw!Loop

LEMMA OrderEnds == ASSUME NEW s, NEW scr, InOrder(s, scr) PROVE ReadyMeansTurnEnded
BY DEF InOrder, WellTyped, Counted, ReadyMeansTurnEnded, Ended

\* A reply is taken for complete only once the turn of its input is over: however the chunks,
\* the polls, the timers and the probes interleave, what settles a generation is output of
\* after its turn, because none of the output of the turn before is left when it is armed.
THEOREM SpecTurnEnds == ASSUME NEW s, OnePerCycle(s) PROVE Spec => []ReadyMeansTurnEnded
<1> DEFINE I == InOrder(s, Screen) /\ tasks = <<>>
<1>1. Init => I
  BY OrderedAtStart DEF OnePerCycle, Init
<1>2. I /\ [Next]_vars => I'
  BY StepShape, ShapeKeeps DEF InOrder
<1>3. I => ReadyMeansTurnEnded
  BY OrderEnds
<1> QED BY <1>1, <1>2, <1>3, PTL DEF Spec

LEMMA ModesInOrder ==
    ASSUME NEW s, OnePerCycle(s)
    PROVE  ModesSpec => [](/\ mode = "screen" => InOrder(s, Screen)
                           /\ mode = "raw" => InOrder(s, FALSE))
<1> DEFINE I == /\ mode = "screen" => InOrder(s, Screen) /\ tasks = <<>>
                /\ mode = "raw" => InOrder(s, FALSE) /\ tasks = <<>>
<1>1. ModesInit => I
  BY OrderedAtStart DEF OnePerCycle, ModesInit, Init
<1>2. I /\ [ModesNext]_modes => I'
  <2> SUFFICES ASSUME I, [ModesNext]_modes PROVE I'
    OBVIOUS
  <2>1. mode' = mode
    BY DEF ModesNext, modes
  <2>2. CASE mode = "screen"
    <3>1. [Next]_vars
      BY <2>2 DEF ModesNext, modes
    <3> QED BY <2>1, <2>2, <3>1, StepShape, ShapeKeeps DEF InOrder
  <2>3. CASE mode = "raw"
    <3>1. [Raw!Next]_(Raw!vars)
      BY <2>3 DEF ModesNext, modes, vars, Raw!vars, agent, Raw!agent, seen, Raw!seen, latch,
                  Raw!latch, debounce, Raw!debounce
    <3>2. Senders = {s}
      BY DEF OnePerCycle
    <3> QED BY <2>1, <2>3, <3>1, <3>2, RawStepShape, ShapeKeeps DEF InOrder
  <2> QED BY <2>1, <2>2, <2>3
<1>3. I => (mode = "screen" => InOrder(s, Screen)) /\ (mode = "raw" => InOrder(s, FALSE))
  OBVIOUS
<1> QED BY <1>1, <1>2, <1>3, PTL DEF ModesSpec

\* The same of the terminals of the run: on the screen, and on raw bytes with probes.
THEOREM ModesTurnEnds ==
    ASSUME NEW s, OnePerCycle(s) PROVE ModesSpec => []TurnEndsBeforeReady
<1>1. (mode = "screen" => InOrder(s, Screen)) /\ (mode = "raw" => InOrder(s, FALSE))
         => TurnEndsBeforeReady
  BY OrderEnds DEF TurnEndsBeforeReady
<1> QED BY <1>1, ModesInOrder, PTL

\* When all output is detected, a busy agent does not read ready on raw bytes, and on the
\* screen an arm is then open: the work of a turn is never missed while it could be seen.
THEOREM ModesBusySeen ==
    ASSUME NEW s, OnePerCycle(s) PROVE ModesSpec => []BusyIsSeenBusy
<1>1. InOrder(s, Screen) => BusyNeverLatchedReady
  BY DEF InOrder, Latching, BusyNeverLatchedReady
<1>2. InOrder(s, FALSE) => Raw!BusyNeverReadsReady
  <2> SUFFICES ASSUME InOrder(s, FALSE), Raw!Quiet, turn = "busy", last \in Sticky PROVE FALSE
    BY DEF Raw!BusyNeverReadsReady, Raw!Sticky, Sticky
  <2>1. chunks = <<>> /\ worker.pc = "idle"
    BY DEF Raw!Quiet
  <2>2. ~Has(chunks, {"PROCESSING"})
    BY <2>1 DEF Has
  <2> QED BY <2>1, <2>2 DEF InOrder, Unmissed
<1>3. (mode = "screen" => InOrder(s, Screen)) /\ (mode = "raw" => InOrder(s, FALSE))
         => BusyIsSeenBusy
  BY <1>1, <1>2 DEF BusyIsSeenBusy
<1> QED BY <1>3, ModesInOrder, PTL
=============================================================================
