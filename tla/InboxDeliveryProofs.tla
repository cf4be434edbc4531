------------------------ MODULE InboxDeliveryProofs ------------------------
(* However deliveries overlap, a message that is marked DELIVERED was typed or is   *)
(* being typed; deliveries that do not overlap implement the abstract mailbox.      *)
EXTENDS MCInboxModes, TLAPS

USE InboxAssumption DEF InboxAssumption

-----------------------------------------------------------------------------
(* The two tables, entry by entry.                                              *)

Stages == {"idle", "begin", "read", "checked", "send", "reset", "fail"}
RowType == [st : {"NONE", "PENDING", "DELIVERED", "FAILED"}, from : Terminals, to : Receivers,
            aged : BOOLEAN]
JobType == [pc : Stages, on : Receivers, msg : 0..MaxMessages]

\* There is a terminal, and a receiver among them.
LEMMA Blanks == NoRow \in RowType /\ NoJob \in JobType /\ NoJob.pc = "idle" /\ NoRow.st = "NONE"
<1>1. (CHOOSE t \in Receivers : TRUE) \in Receivers /\ (CHOOSE t \in Terminals : TRUE) \in Terminals
  OBVIOUS
<1>2. 0 \in 0..MaxMessages
  OBVIOUS
<1> QED
  BY <1>1, <1>2 DEF NoRow, NoJob, RowType, JobType, Stages

LEMMA TypesOf ==
    ASSUME TypeOK
    PROVE  rows \in [Ids -> RowType] /\ job \in [Jobs -> JobType]
BY DEF TypeOK, RowType, JobType, Stages

\* update_message_status changes one status and nothing else.
LEMMA StatusSet ==
    ASSUME TypeOK, NEW m, NEW st \in {"NONE", "PENDING", "DELIVERED", "FAILED"}, SetStatus(m, st)
    PROVE  /\ rows' \in [Ids -> RowType]
           /\ \A n \in Ids : /\ rows'[n].to = rows[n].to /\ rows'[n].aged = rows[n].aged
                             /\ rows'[n].st = IF n = m THEN st ELSE rows[n].st
<1>1. rows \in [Ids -> RowType]
  BY TypesOf
<1>2. \A r \in RowType : LET q == [r EXCEPT !.st = st]
                         IN  q \in RowType /\ q.to = r.to /\ q.aged = r.aged /\ q.st = st
  BY DEF RowType
<1> QED
  BY <1>1, <1>2 DEF SetStatus

\* A job goes on with its message, ends, or begins.
LEMMA GoesTo ==
    ASSUME TypeOK, NEW d \in Jobs, NEW p \in Stages, GoTo(d, p)
    PROVE  /\ job' \in [Jobs -> JobType] /\ \A e \in Jobs \ {d} : job'[e] = job[e]
           /\ job'[d].pc = p /\ job'[d].on = job[d].on /\ job'[d].msg = job[d].msg
<1>1. job \in [Jobs -> JobType]
  BY TypesOf
<1>2. \A j \in JobType : LET q == [j EXCEPT !.pc = p]
                         IN  q \in JobType /\ q.pc = p /\ q.on = j.on /\ q.msg = j.msg
  BY DEF JobType
<1> QED
  BY <1>1, <1>2 DEF GoTo

LEMMA Ends ==
    ASSUME TypeOK, NEW d \in Jobs, Done(d)
    PROVE  /\ job' \in [Jobs -> JobType] /\ \A e \in Jobs \ {d} : job'[e] = job[e]
           /\ job'[d].pc = "idle"
<1>1. job \in [Jobs -> JobType]
  BY TypesOf
<1> QED
  BY <1>1, Blanks DEF Done

LEMMA Begins ==
    ASSUME TypeOK, NEW d \in Jobs, NEW t \in Receivers, Begin(d, t)
    PROVE  /\ job' \in [Jobs -> JobType] /\ \A e \in Jobs \ {d} : job'[e] = job[e]
           /\ job'[d].pc = "begin" /\ job'[d].on = t
<1>1. job \in [Jobs -> JobType]
  BY TypesOf
<1>2. [pc |-> "begin", on |-> t, msg |-> 0] \in JobType
  BY DEF JobType, Stages
<1> QED
  BY <1>1, <1>2 DEF Begin

\* get_pending_messages: nothing is pending, or the job has the oldest message.
LEMMA Reads ==
    ASSUME TypeOK, NEW d \in Jobs, ReadPending(d)
    PROVE  \/ Done(d)
           \/ /\ job' \in [Jobs -> JobType] /\ \A e \in Jobs \ {d} : job'[e] = job[e]
              /\ job'[d].pc = "read" /\ job'[d].on = job[d].on
              /\ job'[d].msg \in Ids /\ First(job'[d].msg, job[d].on)
<1> SUFFICES ASSUME ~Done(d)
             PROVE  /\ job' \in [Jobs -> JobType] /\ \A e \in Jobs \ {d} : job'[e] = job[e]
                    /\ job'[d].pc = "read" /\ job'[d].on = job[d].on
                    /\ job'[d].msg \in Ids /\ First(job'[d].msg, job[d].on)
  OBVIOUS
<1>1. PICK m \in Ids : /\ First(m, job[d].on)
                       /\ job' = [job EXCEPT ![d] = [pc |-> "read", on |-> job[d].on, msg |-> m]]
  BY DEF ReadPending
<1>2. job \in [Jobs -> JobType]
  BY TypesOf
<1>3. [pc |-> "read", on |-> job[d].on, msg |-> m] \in JobType
  BY <1>2 DEF JobType, Stages, Ids
<1> QED
  BY <1>1, <1>2, <1>3

\* The endpoint writes a row, and the job of its attempt begins.
LEMMA Posts ==
    ASSUME TypeOK, NEW m \in Ids, NEW s \in Terminals, NEW t \in Receivers, Post(m, s, t)
    PROVE  /\ rows' \in [Ids -> RowType] /\ \A n \in Ids \ {m} : rows'[n] = rows[n]
           /\ rows'[m].st = "PENDING" /\ rows'[m].to = t /\ Begin("post", t)
<1>1. rows \in [Ids -> RowType]
  BY TypesOf
<1>2. [st |-> "PENDING", from |-> s, to |-> t, aged |-> FALSE] \in RowType
  BY DEF RowType
<1> QED
  BY <1>1, <1>2 DEF Post

-----------------------------------------------------------------------------
(* Types.                                                                       *)

\* A job that has read its message knows it by its row.
Active(d) == job[d].pc \notin {"idle", "begin"}
InHand ==
    \A d \in Jobs : Active(d) => /\ job[d].msg \in Ids /\ rows[job[d].msg].to = job[d].on
                                /\ rows[job[d].msg].st # "NONE"

LEMMA InitTypes == Init => TypeOK
<1> SUFFICES ASSUME Init PROVE TypeOK
  OBVIOUS
<1>1. rows \in [Ids -> RowType] /\ job \in [Jobs -> JobType]
  BY Blanks DEF Init
<1> QED
  BY <1>1 DEF Init, TypeOK, RowType, JobType, Stages, Statuses

LEMMA AgentTypes == ASSUME TypeOK, NEW t \in Receivers,
                           BeginTurn(t) \/ Proceed(t) \/ Answer(t) \/ ReadMidTurn(t) \/ Report(t)
                    PROVE  TypeOK'
<1>1. CASE BeginTurn(t)
  BY <1>1 DEF TypeOK, BeginTurn, AgentOnly, table
<1>2. CASE Proceed(t)
  BY <1>2 DEF TypeOK, Proceed, AgentOnly, table
<1>3. CASE Answer(t)
  BY <1>3 DEF TypeOK, Answer, AgentOnly, table
<1>4. CASE ReadMidTurn(t)
  BY <1>4 DEF TypeOK, ReadMidTurn, AgentOnly, table
<1>5. CASE Report(t)
  <2>1. Shown(t) \in Statuses
    BY DEF TypeOK, Shown, Statuses
  <2>2. WithEvent(t) \in Seq(Receivers) /\ Len(WithEvent(t)) <= MaxEvents
    BY DEF TypeOK, WithEvent
  <2> QED
    BY <1>5, <2>1, <2>2 DEF TypeOK, Report, AgentOnly, table
<1> QED
  BY <1>1, <1>2, <1>3, <1>4, <1>5

LEMMA DeliverTypes == ASSUME TypeOK, InHand, NEW d \in Jobs, Deliver(d) PROVE TypeOK'
<1> USE DEF DeliverOnly
<1>0. job[d] \in JobType
  BY TypesOf
<1>1. job' \in [Jobs -> JobType]
  <2>1. CASE Done(d)
    BY <2>1, Ends
  <2>2. CASE \E p \in Stages : GoTo(d, p)
    BY <2>2, GoesTo
  <2>3. CASE ReadPending(d)
    BY <2>1, <2>3, Reads
  <2> QED
    BY <2>1, <2>2, <2>3
       DEF Deliver, CheckGate, MarkDelivered, SendInput, SendInputRaises, ResetPending,
           MarkFailed, DatabaseRaises, AfterUnresolved, AfterError, Stages
<1>2. rows' \in [Ids -> RowType]
  <2>1. CASE UNCHANGED rows
    BY <2>1, TypesOf
  <2>2. CASE \E st \in {"NONE", "PENDING", "DELIVERED", "FAILED"} : SetStatus(job[d].msg, st)
    BY <2>2, StatusSet
  <2> QED
    BY <2>1, <2>2 DEF Deliver, ReadPending, CheckGate, MarkDelivered, SendInput,
                      SendInputRaises, ResetPending, MarkFailed, DatabaseRaises
<1>3. typed' \in [Receivers -> Seq(Ids)]
  <2>1. CASE UNCHANGED typed
    BY <2>1 DEF TypeOK
  <2>2. CASE TypeKeys(d) /\ At(d, "send")
    <3>1. job[d].msg \in Ids /\ job[d].on \in Receivers
      BY <2>2, <1>0 DEF InHand, Active, At, JobType
    <3>2. typed \in [Receivers -> Seq(Ids)]
      BY DEF TypeOK
    <3>3. Append(typed[job[d].on], job[d].msg) \in Seq(Ids)
      BY <3>1, <3>2
    <3> QED
      BY <2>2, <3>1, <3>2, <3>3 DEF TypeKeys
  <2> QED
    BY <2>1, <2>2 DEF Deliver, ReadPending, CheckGate, MarkDelivered, SendInput,
                      SendInputRaises, ResetPending, MarkFailed, DatabaseRaises
<1>4. faults' \in 0..MaxFaults
  BY DEF Deliver, ReadPending, CheckGate, MarkDelivered, SendInput, TypeOK,
                      SendInputRaises, ResetPending, MarkFailed, DatabaseRaises, Fault
<1>6. cut' \subseteq Ids
  <2>1. CASE UNCHANGED cut
    BY <2>1 DEF TypeOK
  <2>2. CASE DatabaseRaises(d)
    BY <2>2 DEF DatabaseRaises, TypeOK, InHand, Active
  <2> QED
    BY <2>1, <2>2 DEF Deliver, ReadPending, CheckGate, MarkDelivered, SendInput,
                      SendInputRaises, ResetPending, MarkFailed
<1>5. UNCHANGED <<alive, todo, status, events, turn, taken>>
  BY DEF Deliver, ReadPending, CheckGate, MarkDelivered, SendInput,
                      SendInputRaises, ResetPending, MarkFailed, DatabaseRaises
<1> QED
  BY <1>1, <1>2, <1>3, <1>4, <1>5, <1>6 DEF TypeOK, RowType, JobType, Stages

LEMMA NextTypes == ASSUME TypeOK, InHand, [Next]_vars PROVE TypeOK'
<1>1. CASE Agents
  BY <1>1, AgentTypes DEF Agents
<1>2. ASSUME NEW m \in Ids, Age(m) PROVE TypeOK'
  <2>1. [rows[m] EXCEPT !.aged = TRUE] \in RowType
    BY TypesOf DEF RowType
  <2>2. rows' \in [Ids -> RowType]
    BY <1>2, <2>1, TypesOf DEF Age
  <2> QED
    BY <1>2, <2>2 DEF Age, TypeOK, RowType, agent
<1>3. ASSUME NEW m \in Ids, NEW r \in Routes, Post(m, r[1], r[2]) PROVE TypeOK'
  <2>1. r[1] \in Terminals /\ r[2] \in Receivers
    OBVIOUS
  <2>2. rows' \in [Ids -> RowType] /\ Begin("post", r[2]) /\ "post" \in Jobs
    BY <1>3, <2>1, Posts DEF Jobs
  <2>3. job' \in [Jobs -> JobType]
    BY <2>1, <2>2, Begins
  <2> QED
    BY <1>3, <2>2, <2>3 DEF Post, TypeOK, RowType, JobType, Stages, agent
<1>4. CASE TakeEvent
  <2>1. Head(events) \in Receivers /\ Tail(events) \in Seq(Receivers)
           /\ Len(Tail(events)) <= MaxEvents /\ "event" \in Jobs
    <3>1. events \in Seq(Receivers) /\ events # <<>> /\ Len(events) <= MaxEvents
      BY <1>4 DEF TakeEvent, TypeOK
    <3>2. Head(events) \in Receivers /\ Tail(events) \in Seq(Receivers)
      BY <3>1
    <3>3. Len(Tail(events)) = Len(events) - 1 /\ Len(events) \in Nat
      BY <3>1
    <3> QED
      BY <3>1, <3>2, <3>3 DEF Jobs
  <2>2. job' \in [Jobs -> JobType]
    BY <1>4, <2>1, Begins DEF TakeEvent
  <2> QED
    BY <1>4, <2>1, <2>2 DEF TakeEvent, TypeOK, JobType, Stages, agent, table
<1>5. ASSUME NEW d \in Pollers, ListReceivers(d) PROVE TypeOK'
  <2>1. Listed(d) \subseteq Receivers
    BY DEF Listed
  <2> QED
    BY <1>5, <2>1 DEF ListReceivers, TypeOK, agent, table
<1>6. ASSUME NEW d \in Pollers, NextReceiver(d) PROVE TypeOK'
  <2>1. PICK t \in todo[d] : Begin(d, t) /\ todo' = [todo EXCEPT ![d] = @ \ {t}]
    BY <1>6 DEF NextReceiver
  <2>2. t \in Receivers /\ d \in Jobs
    BY <1>6 DEF TypeOK, Pollers, Jobs
  <2>3. job' \in [Jobs -> JobType]
    BY <2>1, <2>2, Begins
  <2>4. todo' \in [Pollers -> SUBSET Receivers]
    BY <2>1 DEF TypeOK
  <2> QED
    BY <1>6, <2>3, <2>4 DEF NextReceiver, TypeOK, JobType, Stages, agent, table
<1>7. ASSUME NEW d \in Jobs, Deliver(d) PROVE TypeOK'
  BY <1>7, DeliverTypes
<1>8. ASSUME NEW t \in Terminals, DeleteTerminal(t) PROVE TypeOK'
  BY <1>8 DEF DeleteTerminal, TypeOK, agent, Fault, Statuses
<1>9. CASE Crash
  <2>1. job' \in [Jobs -> JobType]
    BY <1>9, Blanks DEF Crash
  <2> QED
    BY <1>9, <2>1 DEF Crash, TypeOK, JobType, Stages, agent, table, Fault, Statuses
<1>10. CASE UNCHANGED vars
  BY <1>10 DEF vars, TypeOK
<1> QED
  BY <1>1, <1>2, <1>3, <1>4, <1>5, <1>6, <1>7, <1>8, <1>9, <1>10 DEF Next

-----------------------------------------------------------------------------
(* What a step does to the rows and the jobs.                                   *)

\* A row keeps its receiver once it is written, and stays.
LEMMA RowsStay ==
    ASSUME TypeOK, InHand, [Next]_vars, NEW n \in Ids, rows[n].st # "NONE"
    PROVE  rows'[n].to = rows[n].to /\ rows'[n].st # "NONE"
<1>1. CASE UNCHANGED rows
  BY <1>1
<1>2. ASSUME NEW m \in Ids, Age(m) PROVE rows'[n].to = rows[n].to /\ rows'[n].st = rows[n].st
  <2>1. rows[m] \in RowType /\ rows' = [rows EXCEPT ![m].aged = TRUE]
    BY <1>2, TypesOf DEF Age
  <2> QED
    BY <2>1, TypesOf DEF RowType
<1>3. ASSUME NEW m \in Ids, NEW r \in Routes, Post(m, r[1], r[2]) PROVE rows'[n] = rows[n]
  <2>1. r[1] \in Terminals /\ r[2] \in Receivers /\ rows[m].st = "NONE"
    BY <1>3 DEF Post
  <2> QED
    BY <1>3, <2>1, Posts
<1>4. ASSUME NEW m, NEW st \in {"PENDING", "DELIVERED", "FAILED"}, SetStatus(m, st)
      PROVE  rows'[n].to = rows[n].to /\ rows'[n].st # "NONE"
  BY <1>4, StatusSet
<1>5. ASSUME NEW d \in Jobs, Deliver(d)
      PROVE  \/ UNCHANGED rows
             \/ \E m, st : st \in {"PENDING", "DELIVERED", "FAILED"} /\ SetStatus(m, st)
  BY <1>5 DEF Deliver, ReadPending, CheckGate, MarkDelivered, SendInput,
              SendInputRaises, ResetPending, MarkFailed, DatabaseRaises
<1>6. CASE Agents
  BY <1>6 DEF Agents, BeginTurn, Proceed, Answer, ReadMidTurn, Report, AgentOnly, table
<1>7. CASE \/ TakeEvent \/ Crash \/ UNCHANGED vars \/ \E t \in Terminals : DeleteTerminal(t)
           \/ \E d \in Pollers : ListReceivers(d) \/ NextReceiver(d)
  BY <1>7 DEF TakeEvent, Crash, vars, DeleteTerminal, ListReceivers, NextReceiver, table
<1> QED
  BY <1>1, <1>2, <1>3, <1>4, <1>5, <1>6, <1>7 DEF Next

\* A job has the message it had, or has just read the oldest one.
JustRead(e) ==
    /\ ReadPending(e) /\ rows' = rows /\ job'[e].pc = "read" /\ job'[e].on = job[e].on
    /\ job'[e].msg \in Ids /\ First(job'[e].msg, job[e].on)
    /\ \A d \in Jobs \ {e} : job'[d] = job[d]

LEMMA JobsMove ==
    ASSUME TypeOK, InHand, [Next]_vars, NEW e \in Jobs, job'[e].pc \notin {"idle", "begin"}
    PROVE  \/ Active(e) /\ job'[e].msg = job[e].msg /\ job'[e].on = job[e].on
           \/ JustRead(e)
<1>1. CASE UNCHANGED job
  BY <1>1 DEF Active
<1>2. ASSUME NEW d \in Jobs, NEW t \in Receivers, Begin(d, t) PROVE job'[e] = job[e]
  BY <1>2, Begins
<1>3. ASSUME NEW d \in Jobs, Done(d) PROVE job'[e] = job[e]
  BY <1>3, Ends
<1>4. ASSUME NEW d \in Jobs, NEW p \in Stages, GoTo(d, p), Active(d)
      PROVE  Active(e) /\ job'[e].msg = job[e].msg /\ job'[e].on = job[e].on
  <2>1. CASE e = d
    BY <1>4, <2>1, GoesTo
  <2>2. CASE e # d
    BY <1>4, <2>2, GoesTo DEF Active
  <2> QED
    BY <2>1, <2>2
<1>5. ASSUME NEW d \in Jobs, ReadPending(d) PROVE job'[e] = job[e] \/ JustRead(e)
  <2>1. CASE Done(d)
    BY <1>3, <2>1
  <2>2. CASE ~Done(d)
    BY <1>5, <2>2, Reads DEF JustRead, ReadPending
  <2> QED
    BY <2>1, <2>2
<1>6. ASSUME NEW d \in Jobs, Deliver(d)
      PROVE  ReadPending(d) \/ Done(d) \/ \E p \in Stages : GoTo(d, p) /\ Active(d)
  BY <1>6 DEF Deliver, CheckGate, MarkDelivered, SendInput, SendInputRaises, ResetPending,
              MarkFailed, DatabaseRaises, Active, At, Stages, AfterUnresolved, AfterError
<1>7. CASE \E m \in Ids : Age(m) \/ \E r \in Routes : Post(m, r[1], r[2])
  <2>1. ASSUME NEW m \in Ids, NEW r \in Routes, Post(m, r[1], r[2]) PROVE job'[e] = job[e]
    BY <1>2, <2>1 DEF Post, Jobs
  <2> QED
    BY <1>1, <1>7, <2>1 DEF Age, Active
<1>8. CASE TakeEvent
  <2>1. Head(events) \in Receivers /\ "event" \in Jobs /\ Begin("event", Head(events))
    <3>1. events \in Seq(Receivers) /\ events # <<>> /\ Begin("event", Head(events))
      BY <1>8 DEF TakeEvent, TypeOK
    <3> QED
      BY <3>1 DEF Jobs
  <2> QED
    BY <1>2, <2>1 DEF Active
<1>9. CASE \E d \in Pollers : ListReceivers(d) \/ NextReceiver(d)
  <2>1. ASSUME NEW d \in Pollers, NextReceiver(d) PROVE job'[e] = job[e]
    <3>1. PICK t \in todo[d] : Begin(d, t)
      BY <2>1 DEF NextReceiver
    <3>2. t \in Receivers /\ d \in Jobs
      BY <2>1 DEF TypeOK, Pollers, Jobs
    <3> QED
      BY <1>2, <3>1, <3>2
  <2> QED
    BY <1>1, <1>9, <2>1 DEF ListReceivers, Active
<1>10. CASE Agents
  BY <1>1, <1>10 DEF Agents, BeginTurn, Proceed, Answer, ReadMidTurn, Report, AgentOnly
<1>11. CASE Crash
  BY <1>11, Blanks DEF Crash
<1>12. CASE UNCHANGED vars \/ \E t \in Terminals : DeleteTerminal(t)
  BY <1>1, <1>12 DEF vars, DeleteTerminal
<1>13. CASE \E d \in Jobs : Deliver(d)
  BY <1>3, <1>4, <1>5, <1>6, <1>13 DEF Active
<1> QED
  BY <1>7, <1>8, <1>9, <1>10, <1>11, <1>12, <1>13 DEF Next

LEMMA InHandStep == ASSUME TypeOK, InHand, [Next]_vars PROVE InHand'
<1> SUFFICES ASSUME NEW e \in Jobs, job'[e].pc \notin {"idle", "begin"}
             PROVE  /\ job'[e].msg \in Ids /\ rows'[job'[e].msg].to = job'[e].on
                    /\ rows'[job'[e].msg].st # "NONE"
  BY DEF InHand, Active
<1>1. CASE Active(e) /\ job'[e].msg = job[e].msg /\ job'[e].on = job[e].on
  BY <1>1, RowsStay DEF InHand
<1>2. CASE JustRead(e)
  BY <1>2 DEF JustRead, First, Pending
<1> QED
  BY <1>1, <1>2, JobsMove

\* Every row, job, event and list keeps its type, and a job that has read a message knows the
\* row of it.
THEOREM SpecTypeOK == Spec => [](TypeOK /\ InHand)
<1>1. Init => TypeOK /\ InHand
  <2>1. Init => InHand
    BY Blanks DEF Init, InHand, Active
  <2> QED
    BY <2>1, InitTypes
<1>2. TypeOK /\ InHand /\ [Next]_vars => (TypeOK /\ InHand)'
  BY NextTypes, InHandStep
<1> QED
  BY <1>1, <1>2, PTL DEF Spec

-----------------------------------------------------------------------------
(* Nothing is marked and forgotten.                                             *)

Flying == {"send", "reset", "fail"}

\* What was typed to a receiver stays typed, and what a delivery types is typed to the
\* receiver of its message.
LEMMA TypingAdds ==
    ASSUME TypeOK, InHand, NEW d \in Jobs, At(d, "send"), TypeKeys(d), UNCHANGED rows
    PROVE  \A m \in Ids : WasTyped(m) \/ m = job[d].msg => WasTyped(m)'
<1>1. job[d].msg \in Ids /\ rows[job[d].msg].to = job[d].on /\ job[d].on \in Receivers
  BY TypesOf DEF InHand, Active, At, JobType
<1>2. typed \in [Receivers -> Seq(Ids)] /\ \A n \in Ids : rows[n].to \in Receivers
  BY TypesOf DEF TypeOK, RowType
<1> DEFINE old == typed[job[d].on]
<1>3. /\ typed'[job[d].on] = Append(old, job[d].msg)
      /\ \A t \in Receivers \ {job[d].on} : typed'[t] = typed[t]
  BY <1>1, <1>2 DEF TypeKeys
<1>4. old \in Seq(Ids)
  BY <1>1, <1>2
<1> HIDE DEF old
<1>5. /\ Len(Append(old, job[d].msg)) = Len(old) + 1 /\ Len(old) \in Nat
      /\ Append(old, job[d].msg)[Len(old) + 1] = job[d].msg
      /\ \A i \in 1..Len(old) : Append(old, job[d].msg)[i] = old[i]
  BY <1>4
<1>6. \E i \in 1..Len(typed'[job[d].on]) : typed'[job[d].on][i] = job[d].msg
  BY <1>3, <1>5
<1>7. ASSUME NEW m \in Ids, WasTyped(m) PROVE \E i \in 1..Len(typed'[rows[m].to]) : typed'[rows[m].to][i] = m
  <2>1. PICK i \in 1..Len(typed[rows[m].to]) : typed[rows[m].to][i] = m
    BY <1>7 DEF WasTyped
  <2>2. CASE rows[m].to = job[d].on
    <3>1. i \in 1..Len(old) /\ old[i] = m
      BY <2>1, <2>2 DEF old
    <3>2. i \in 1..Len(Append(old, job[d].msg)) /\ Append(old, job[d].msg)[i] = m
      BY <1>5, <3>1
    <3> QED
      BY <1>3, <2>2, <3>2
  <2>3. CASE rows[m].to # job[d].on
    BY <1>2, <1>3, <2>1, <2>3
  <2> QED
    BY <2>2, <2>3
<1>8. \A m : WasTyped(m)' <=> \E i \in 1..Len(typed'[rows[m].to]) : typed'[rows[m].to][i] = m
  BY DEF WasTyped
<1> QED
  BY <1>1, <1>6, <1>7, <1>8

\* The message of a delivery, in one step of it.
LEMMA DeliverMarks ==
    ASSUME TypeOK, InHand, DeliveredWasTyped, NEW d \in Jobs, Deliver(d),
           NEW m \in Ids \ cut', rows'[m].st = "DELIVERED"
    PROVE  WasTyped(m)' \/ InFlight(m)'
<1>0. job[d].msg \in 0..MaxMessages /\ m \in Ids /\ cut \subseteq cut'
  BY TypesOf DEF JobType, Deliver, ReadPending, CheckGate, MarkDelivered, SendInput,
              SendInputRaises, ResetPending, MarkFailed, DatabaseRaises
\* It suffices to follow this delivery.
<1>1. ASSUME \A e \in Jobs \ {d} : job'[e] = job[e],
             rows'[m].to = rows[m].to, rows[m].st = "DELIVERED", WasTyped(m) => WasTyped(m)',
             job[d].msg = m /\ job[d].pc \in Flying =>
                WasTyped(m)' \/ (job'[d].msg = m /\ job'[d].pc \in Flying)
      PROVE  WasTyped(m)' \/ InFlight(m)'
  <2>1. WasTyped(m) \/ InFlight(m)
    BY <1>0, <1>1 DEF DeliveredWasTyped
  <2>2. CASE InFlight(m)
    <3>1. PICK e \in Jobs : job[e].msg = m /\ job[e].pc \in Flying
      BY <2>2 DEF InFlight, Flying
    <3>2. CASE e = d
      BY <1>1, <3>1, <3>2 DEF InFlight, Flying
    <3>3. CASE e # d
      BY <1>1, <3>1, <3>3 DEF InFlight, Flying
    <3> QED
      BY <3>2, <3>3
  <2> QED
    BY <1>1, <2>1, <2>2
\* Where the rows and what was typed stay.
<1>2. ASSUME UNCHANGED <<rows, typed>>
      PROVE  rows'[m].to = rows[m].to /\ rows[m].st = "DELIVERED" /\ (WasTyped(m) => WasTyped(m)')
  BY <1>2 DEF WasTyped
\* Where a status is set.
<1>3. ASSUME NEW st \in {"NONE", "PENDING", "DELIVERED", "FAILED"}, SetStatus(job[d].msg, st),
             UNCHANGED typed
      PROVE  /\ rows'[m].to = rows[m].to /\ (WasTyped(m) => WasTyped(m)')
             /\ job[d].msg # m => rows[m].st = "DELIVERED"
             /\ job[d].msg = m => st = "DELIVERED"
  <2>1. rows'[m].to = rows[m].to /\ rows'[m].st = IF m = job[d].msg THEN st ELSE rows[m].st
    BY <1>0, <1>3, StatusSet
  <2> QED
    BY <1>3, <2>1 DEF WasTyped
<1>4. CASE ReadPending(d)
  <2>1. \A e \in Jobs \ {d} : job'[e] = job[e]
    BY <1>4, Reads, Ends
  <2> QED
    BY <1>1, <1>2, <1>4, <2>1 DEF ReadPending, At, Flying
<1>5. CASE CheckGate(d)
  <2>1. \A e \in Jobs \ {d} : job'[e] = job[e]
    BY <1>5, GoesTo, Ends DEF CheckGate, Stages
  <2> QED
    BY <1>1, <1>2, <1>5, <2>1 DEF CheckGate, At, Flying
<1>6. CASE MarkDelivered(d)
  <2>1. /\ \A e \in Jobs \ {d} : job'[e] = job[e]
        /\ job'[d].pc = "send" /\ job'[d].msg = job[d].msg
    BY <1>6, GoesTo DEF MarkDelivered, Stages
  <2>2. CASE job[d].msg = m
    BY <2>1, <2>2 DEF InFlight
  <2>3. CASE job[d].msg # m
    <3>1. SetStatus(job[d].msg, "DELIVERED") /\ UNCHANGED typed
      BY <1>6 DEF MarkDelivered
    <3>2. /\ rows'[m].to = rows[m].to /\ (WasTyped(m) => WasTyped(m)')
          /\ rows[m].st = "DELIVERED"
      BY <1>3, <2>3, <3>1
    <3> QED
      BY <1>1, <2>1, <2>3, <3>2
  <2> QED
    BY <2>2, <2>3
<1>7. CASE SendInput(d)
  <2>1. \A e \in Jobs \ {d} : job'[e] = job[e]
    BY <1>7, Ends DEF SendInput
  <2>2. (WasTyped(m) \/ m = job[d].msg => WasTyped(m)') /\ UNCHANGED rows
    BY <1>0, <1>7, TypingAdds DEF SendInput
  <2> QED
    BY <1>1, <2>1, <2>2
<1>8. CASE SendInputRaises(d)
  <2>1. /\ \A e \in Jobs \ {d} : job'[e] = job[e]
        /\ job'[d].pc \in Flying /\ job'[d].msg = job[d].msg
    BY <1>8, GoesTo DEF SendInputRaises, Stages, Flying, AfterError, AfterUnresolved
  <2>2. (WasTyped(m) => WasTyped(m)') /\ UNCHANGED rows
    BY <1>0, <1>2, <1>8, TypingAdds DEF SendInputRaises
  <2> QED
    BY <1>1, <2>1, <2>2
<1>9. CASE ResetPending(d) \/ MarkFailed(d)
  <2>1. \A e \in Jobs \ {d} : job'[e] = job[e]
    BY <1>9, Ends DEF ResetPending, MarkFailed
  <2>2. PICK st \in {"PENDING", "FAILED"} : SetStatus(job[d].msg, st) /\ UNCHANGED typed
    BY <1>9 DEF ResetPending, MarkFailed
  <2>3. /\ rows'[m].to = rows[m].to /\ (WasTyped(m) => WasTyped(m)')
        /\ job[d].msg # m /\ rows[m].st = "DELIVERED"
    BY <1>3, <2>2
  <2> QED
    BY <1>1, <2>1, <2>3
<1>10. CASE DatabaseRaises(d)
  <2>1. \A e \in Jobs \ {d} : job'[e] = job[e]
    BY <1>10, Ends DEF DatabaseRaises
  <2>2. ~(job[d].msg = m /\ job[d].pc \in Flying)
    BY <1>0, <1>10 DEF DatabaseRaises, Flying
  <2> QED
    BY <1>1, <1>2, <1>10, <2>1, <2>2 DEF DatabaseRaises
<1> QED
  BY <1>4, <1>5, <1>6, <1>7, <1>8, <1>9, <1>10 DEF Deliver

LEMMA DeliveredStep ==
    ASSUME TypeOK, InHand, DeliveredWasTyped, [Next]_vars
    PROVE  DeliveredWasTyped'
<1> SUFFICES ASSUME NEW m \in Ids \ cut', rows'[m].st = "DELIVERED"
             PROVE  WasTyped(m)' \/ InFlight(m)'
  BY DEF DeliveredWasTyped, Ids
\* It suffices that deliveries go on as they were.
<1>1. ASSUME UNCHANGED <<typed, cut>>, rows'[m].to = rows[m].to, rows[m].st = "DELIVERED",
             \A e \in Jobs : job[e].pc \in Flying => job'[e] = job[e]
      PROVE  WasTyped(m)' \/ InFlight(m)'
  <2>1. WasTyped(m) \/ InFlight(m)
    BY <1>1 DEF DeliveredWasTyped
  <2> QED
    BY <1>1, <2>1 DEF WasTyped, InFlight, Flying
<1>2. ASSUME NEW d \in Jobs, NEW t \in Receivers, Begin(d, t), job[d].pc = "idle"
      PROVE  \A e \in Jobs : job[e].pc \in Flying => job'[e] = job[e]
  BY <1>2, Begins DEF Flying
<1>3. ASSUME NEW n \in Ids, Age(n) PROVE WasTyped(m)' \/ InFlight(m)'
  <2>1. rows'[m].to = rows[m].to /\ rows'[m].st = rows[m].st
    <3>1. rows[n] \in RowType /\ rows' = [rows EXCEPT ![n].aged = TRUE]
      BY <1>3, TypesOf DEF Age
    <3> QED
      BY <3>1, TypesOf DEF RowType
  <2> QED
    BY <1>1, <1>3, <2>1 DEF Age, agent
<1>4. ASSUME NEW n \in Ids, NEW r \in Routes, Post(n, r[1], r[2])
      PROVE  WasTyped(m)' \/ InFlight(m)'
  <2>1. /\ r[2] \in Receivers /\ rows'[n].st = "PENDING"
        /\ \A k \in Ids \ {n} : rows'[k] = rows[k]
    BY <1>4, Posts
  <2>2. \A e \in Jobs : job[e].pc \in Flying => job'[e] = job[e]
    BY <1>2, <1>4, <2>1 DEF Post, LoopFree, Jobs
  <2> QED
    BY <1>1, <1>4, <2>1, <2>2 DEF Post, agent
<1>5. CASE TakeEvent
  <2>1. events \in Seq(Receivers) /\ events # <<>>
    BY <1>5 DEF TakeEvent, TypeOK
  <2>2. Head(events) \in Receivers /\ "event" \in Jobs
    BY <2>1 DEF Jobs
  <2>3. \A e \in Jobs : job[e].pc \in Flying => job'[e] = job[e]
    BY <1>2, <1>5, <2>2 DEF TakeEvent
  <2> QED
    BY <1>1, <1>5, <2>3 DEF TakeEvent, agent, table
<1>6. ASSUME NEW d \in Pollers, ListReceivers(d) \/ NextReceiver(d)
      PROVE  WasTyped(m)' \/ InFlight(m)'
  <2>1. ASSUME NextReceiver(d) PROVE \A e \in Jobs : job[e].pc \in Flying => job'[e] = job[e]
    <3>1. PICK t \in todo[d] : Begin(d, t) /\ job[d].pc = "idle"
      BY <2>1 DEF NextReceiver
    <3>2. t \in Receivers /\ d \in Jobs
      BY DEF TypeOK, Pollers, Jobs
    <3> QED
      BY <1>2, <3>1, <3>2
  <2> QED
    BY <1>1, <1>6, <2>1 DEF ListReceivers, NextReceiver, agent, table
<1>7. ASSUME NEW d \in Jobs, Deliver(d) PROVE WasTyped(m)' \/ InFlight(m)'
  BY <1>7, DeliverMarks
<1>8. CASE Agents
  BY <1>1, <1>8 DEF Agents, BeginTurn, Proceed, Answer, ReadMidTurn, Report, AgentOnly, table
<1>9. CASE Crash
  <2>1. m \notin cut /\ ~InFlight(m) /\ UNCHANGED <<rows, typed>>
    BY <1>9 DEF Crash, agent, table
  <2> QED
    BY <2>1 DEF DeliveredWasTyped, WasTyped
<1>10. CASE UNCHANGED vars \/ \E t \in Terminals : DeleteTerminal(t)
  BY <1>1, <1>10 DEF vars, DeleteTerminal, agent
<1> QED
  BY <1>3, <1>4, <1>5, <1>6, <1>7, <1>8, <1>9, <1>10 DEF Next

\* However the four callers overlap, whatever fails and whenever the server dies, a message
\* marked DELIVERED was typed to its receiver, is being typed, or was cut off by a crash or by
\* a write of its status that failed.
THEOREM SpecDeliveredWasTyped == Spec => []DeliveredWasTyped
<1>1. Init => DeliveredWasTyped
  BY Blanks DEF Init, DeliveredWasTyped
<1>2. TypeOK /\ InHand /\ DeliveredWasTyped /\ [Next]_vars => DeliveredWasTyped'
  BY DeliveredStep
<1> QED
  BY <1>1, <1>2, SpecTypeOK, PTL DEF Spec

-----------------------------------------------------------------------------
(* Deliveries that do not overlap.                                              *)

\* One delivery at a time has read its message.
Solo == \A d, e \in Jobs : d # e /\ Active(d) => ~Active(e)

\* Ids are given in order.
InOrder == \A m, n \in Ids : m < n /\ rows[m].st = "NONE" => rows[n].st = "NONE"

\* What was typed is settled, and was for the receiver it was typed to.
TypedIsSettled ==
    \A t \in Receivers : \A i \in 1..Len(typed[t]) :
        rows[typed[t][i]].to = t /\ rows[typed[t][i]].st \in {"DELIVERED", "FAILED"}

\* A delivery has the oldest message of its receiver.
Foremost ==
    \A d \in Jobs : Active(d) => \A n \in Ids : rows[n].st = "PENDING" /\ rows[n].to = job[d].on
                                                   => job[d].msg <= n

\* What the row of its message says at each of its statements.
Staged ==
    \A d \in Jobs :
        /\ job[d].pc \in {"read", "checked"} => rows[job[d].msg].st = "PENDING"
        /\ job[d].pc \in Flying => rows[job[d].msg].st = "DELIVERED"
        /\ job[d].pc \in {"send", "reset"} => ~WasTyped(job[d].msg)

AloneInv == Solo /\ InOrder /\ TypedIsSettled /\ Foremost /\ Staged

\* No job has a message that another has: it is alone with it, and with its receiver.
LEMMA TypedRow ==
    ASSUME TypeOK, TypedIsSettled, NEW m \in Ids, WasTyped(m)
    PROVE  rows[m].st \in {"DELIVERED", "FAILED"}
<1>1. rows[m].to \in Receivers
  BY TypesOf DEF RowType
<1> QED
  BY <1>1 DEF TypedIsSettled, WasTyped

\* Steps at which jobs begin or end, or stay.
LEMMA BeginsAndEnds ==
    ASSUME AloneInv, UNCHANGED typed, TypeOK, InHand,
           \A n \in Ids : rows'[n].to = rows[n].to /\ rows'[n].st = rows[n].st,
           \A e \in Jobs : job'[e] = job[e] \/ job'[e].pc \in {"idle", "begin"}
    PROVE  AloneInv'
<1>1. Solo'
  BY DEF AloneInv, Solo, Active
<1>2. InOrder'
  BY DEF AloneInv, InOrder, Ids
<1>3. TypedIsSettled'
  BY DEF AloneInv, TypedIsSettled, TypeOK
<1>4. Foremost'
  BY DEF AloneInv, Foremost, Active, Ids
<1>5. Staged'
  <2> SUFFICES ASSUME NEW d \in Jobs, job'[d] = job[d], Active(d)
               PROVE  /\ job[d].pc \in {"read", "checked"} => rows'[job[d].msg].st = "PENDING"
                      /\ job[d].pc \in Flying => rows'[job[d].msg].st = "DELIVERED"
                      /\ job[d].pc \in {"send", "reset"} =>
                           ~\E i \in 1..Len(typed[rows'[job[d].msg].to]) :
                               typed[rows'[job[d].msg].to][i] = job[d].msg
    BY DEF Staged, Active, Flying, WasTyped
  <2>1. job[d].msg \in Ids
    BY DEF InHand
  <2> QED
    BY <2>1 DEF AloneInv, Staged, WasTyped
<1> QED
  BY <1>1, <1>2, <1>3, <1>4, <1>5 DEF AloneInv

\* A new row is the last one of its receiver.
LEMMA PostAlone ==
    ASSUME AloneInv, TypeOK, InHand, NEW m \in Ids, NEW r \in Routes, Post(m, r[1], r[2])
    PROVE  AloneInv'
<1>1. /\ rows[m].st = "NONE" /\ \A n \in Ids : n < m => rows[n].st # "NONE"
      /\ rows'[m].st = "PENDING" /\ \A n \in Ids \ {m} : rows'[n] = rows[n]
      /\ UNCHANGED typed /\ Begin("post", r[2]) /\ r[2] \in Receivers
  BY ZenonT(40), Posts DEF Post, agent
<1>2. \A e \in Jobs : job'[e] = job[e] \/ job'[e].pc = "begin"
  BY <1>1, Begins DEF Jobs
<1>3. Solo'
  BY <1>2 DEF AloneInv, Solo, Active
<1>4. InOrder'
  BY <1>1 DEF AloneInv, InOrder, Ids
<1>5. ASSUME NEW t \in Receivers, NEW i \in 1..Len(typed[t])
      PROVE  typed[t][i] \in Ids \ {m}
  <2>1. typed[t][i] \in Ids
    BY DEF TypeOK
  <2> QED
    BY <1>1, <2>1 DEF AloneInv, TypedIsSettled
<1>6. TypedIsSettled'
  BY <1>1, <1>5 DEF AloneInv, TypedIsSettled
<1>7. ASSUME NEW d \in Jobs, Active(d)
      PROVE  job[d].msg \in Ids \ {m} /\ job[d].msg < m
  <2>1. job[d].msg \in Ids /\ rows[job[d].msg].st # "NONE"
    BY <1>7 DEF InHand
  <2> QED
    BY <1>1, <2>1 DEF AloneInv, InOrder, Ids
<1>8. Foremost'
  <2> SUFFICES ASSUME NEW d \in Jobs, job'[d] = job[d], Active(d), NEW n \in Ids,
                      rows'[n].st = "PENDING" /\ rows'[n].to = job[d].on
               PROVE  job[d].msg <= n
    BY <1>2 DEF Foremost, Active, Ids
  <2>1. CASE n = m
    BY <1>7, <2>1 DEF Ids
  <2>2. CASE n # m
    BY <1>1, <2>2 DEF AloneInv, Foremost
  <2> QED
    BY <2>1, <2>2
<1>10. typed' = typed
  BY <1>1
<1>9. Staged'
  <2> SUFFICES ASSUME NEW d \in Jobs, job'[d] = job[d], Active(d)
               PROVE  /\ job[d].pc \in {"read", "checked"} => rows'[job[d].msg].st = "PENDING"
                      /\ job[d].pc \in Flying => rows'[job[d].msg].st = "DELIVERED"
                      /\ job[d].pc \in {"send", "reset"} =>
                           ~\E i \in 1..Len(typed[rows'[job[d].msg].to]) :
                               typed[rows'[job[d].msg].to][i] = job[d].msg
    BY <1>2, <1>10 DEF Staged, Active, Flying, WasTyped
  <2>1. rows'[job[d].msg] = rows[job[d].msg]
    BY <1>1, <1>7
  <2> QED
    BY <2>1 DEF AloneInv, Staged, WasTyped
<1> QED
  BY <1>3, <1>4, <1>6, <1>8, <1>9 DEF AloneInv

\* What is typed to a receiver is what was, and the message of the delivery.
LEMMA TypingOnly ==
    ASSUME TypeOK, InHand, NEW d \in Jobs, At(d, "send"), TypeKeys(d),
           NEW t \in Receivers, NEW i \in 1..Len(typed'[t])
    PROVE  \/ i \in 1..Len(typed[t]) /\ typed'[t][i] = typed[t][i]
           \/ t = job[d].on /\ typed'[t][i] = job[d].msg
<1>1. job[d].msg \in Ids /\ job[d].on \in Receivers /\ typed \in [Receivers -> Seq(Ids)]
  BY TypesOf DEF InHand, Active, At, JobType, TypeOK
<1> DEFINE old == typed[job[d].on]
<1>2. /\ typed'[job[d].on] = Append(old, job[d].msg)
      /\ \A u \in Receivers \ {job[d].on} : typed'[u] = typed[u]
  BY <1>1 DEF TypeKeys
<1>3. old \in Seq(Ids)
  BY <1>1
<1>4. /\ Len(Append(old, job[d].msg)) = Len(old) + 1 /\ Len(old) \in Nat
      /\ Append(old, job[d].msg)[Len(old) + 1] = job[d].msg
      /\ \A j \in 1..Len(old) : Append(old, job[d].msg)[j] = old[j]
  BY <1>3
<1>7. old = typed[job[d].on]
  OBVIOUS
<1> HIDE DEF old
<1>5. CASE t = job[d].on
  BY SMTT(30), <1>2, <1>4, <1>5, <1>7
<1>6. CASE t # job[d].on
  BY <1>1, <1>2, <1>6
<1> QED
  BY <1>5, <1>6

\* Where only rows change, the messages that were typed keep a settled row.
LEMMA SettledRows ==
    ASSUME TypeOK, UNCHANGED typed,
           \A n \in Ids : \A t \in Receivers :
              (\E i \in 1..Len(typed[t]) : typed[t][i] = n) =>
                 rows'[n].to = t /\ rows'[n].st \in {"DELIVERED", "FAILED"}
    PROVE  TypedIsSettled'
<1> SUFFICES ASSUME NEW t \in Receivers, NEW i \in 1..Len(typed[t])
             PROVE  rows'[typed[t][i]].to = t /\ rows'[typed[t][i]].st \in {"DELIVERED", "FAILED"}
  BY DEF TypedIsSettled
<1>1. typed[t][i] \in Ids
  BY DEF TypeOK
<1> QED
  BY <1>1

\* The one delivery that has read its message, and goes on with it.
LEMMA DeliverAlone ==
    ASSUME ~Overlap, AloneInv, TypeOK, InHand, NEW d \in Jobs, Deliver(d)
    PROVE  AloneInv'
<1> USE DEF AloneInv
<1>0. job \in [Jobs -> JobType] /\ rows \in [Ids -> RowType] /\ job[d].on \in Receivers
  BY TypesOf DEF JobType
\* It begins to read, or ends without writing.
<1>1. ASSUME UNCHANGED <<rows, typed>>, Done(d) PROVE AloneInv'
  <2>1. \A e \in Jobs : job'[e] = job[e] \/ job'[e].pc \in {"idle", "begin"}
    BY <1>1, Ends
  <2> QED
    BY <1>1, <2>1, BeginsAndEnds
\* It goes on: everybody else is inactive.
<1>2. ASSUME \A e \in Jobs \ {d} : ~Active(e) /\ job'[e] = job[e]
      PROVE  \A e \in Jobs \ {d} : job'[e].pc \in {"idle", "begin"}
  BY <1>2 DEF Active
<1>3. ASSUME \A e \in Jobs \ {d} : job'[e].pc \in {"idle", "begin"},
             job'[d].pc \in Stages \ {"idle", "begin"}, job'[d].on = job[d].on,
             \A n \in Ids : rows'[n].st = "PENDING" /\ rows'[n].to = job[d].on => job'[d].msg <= n,
             InOrder', TypedIsSettled',
             NEW m \in Ids, job'[d].msg = m,
             job'[d].pc \in {"read", "checked"} => rows'[m].st = "PENDING",
             job'[d].pc \in Flying => rows'[m].st = "DELIVERED",
             job'[d].pc \in {"send", "reset"} => ~WasTyped(m)'
      PROVE  AloneInv'
  <2>1. Solo' /\ Foremost'
    BY <1>3 DEF Solo, Foremost, Active, Ids
  <2>2. Staged'
    <3>1. WasTyped(m)' <=> \E i \in 1..Len(typed'[rows'[m].to]) : typed'[rows'[m].to][i] = m
      BY DEF WasTyped
    <3> QED
      BY <1>3, <3>1 DEF Staged, Flying, WasTyped
  <2> QED
    BY <1>3, <2>1, <2>2
<1>4. Active(d) => /\ \A e \in Jobs \ {d} : job[e].pc \in {"idle", "begin"}
                   /\ job[d].msg \in Ids /\ rows[job[d].msg].to = job[d].on
                   /\ rows[job[d].msg].st # "NONE"
  BY DEF Solo, Active, InHand
\* What a status that is set leaves as it was.
<1>5. ASSUME Active(d), NEW st \in {"PENDING", "DELIVERED", "FAILED"}, SetStatus(job[d].msg, st)
      PROVE  /\ \A n \in Ids : rows'[n].to = rows[n].to
             /\ \A n \in Ids : rows'[n].st = IF n = job[d].msg THEN st ELSE rows[n].st
             /\ InOrder'
  <2>1. \A n \in Ids : /\ rows'[n].to = rows[n].to
                       /\ rows'[n].st = IF n = job[d].msg THEN st ELSE rows[n].st
    BY <1>5, StatusSet
  <2> QED
    BY <1>4, <1>5, <2>1 DEF InOrder, Ids
<1>6. ASSUME UNCHANGED <<rows, typed>> PROVE InOrder' /\ TypedIsSettled'
  BY <1>6 DEF InOrder, TypedIsSettled, Ids, TypeOK
<1>7. CASE ReadPending(d)
  <2>1. CASE Done(d)
    BY <1>1, <1>7, <2>1 DEF ReadPending, DeliverOnly
  <2>2. CASE ~Done(d)
    <3>1. /\ \A e \in Jobs \ {d} : job'[e] = job[e]
          /\ job'[d].pc = "read" /\ job'[d].on = job[d].on
          /\ job'[d].msg \in Ids /\ First(job'[d].msg, job[d].on)
      BY <1>7, <2>2, Reads
    <3>2. \A e \in Jobs \ {d} : job'[e].pc \in {"idle", "begin"}
      BY <1>7, <3>1 DEF ReadPending, Alone
    <3>3. UNCHANGED <<rows, typed>>
      BY <1>7 DEF ReadPending
    <3>4. PICK m \in Ids : job'[d].msg = m /\ First(m, job[d].on)
      BY <3>1
    <3>5. /\ rows[m].st = "PENDING"
          /\ \A n \in Ids : rows[n].st = "PENDING" /\ rows[n].to = job[d].on => m <= n
      BY <3>4 DEF First, Pending
    <3> QED
      BY <1>3, <1>6, <3>1, <3>2, <3>3, <3>4, <3>5 DEF Stages, Flying
  <2> QED
    BY <2>1, <2>2
<1>8. CASE CheckGate(d)
  <2>1. CASE Done(d)
    BY <1>1, <1>8, <2>1 DEF CheckGate, DeliverOnly
  <2>2. CASE ~Done(d)
    <3>1. UNCHANGED <<rows, typed>> /\ Active(d) /\ job[d].pc = "read"
      BY <1>8 DEF CheckGate, Active, At
    <3>2. /\ \A e \in Jobs \ {d} : job'[e] = job[e]
          /\ job'[d].pc = "checked" /\ job'[d].on = job[d].on /\ job'[d].msg = job[d].msg
      BY <1>8, <2>2, GoesTo DEF CheckGate, Stages
    <3>3. PICK m \in Ids : job[d].msg = m
      BY <1>4, <3>1
    <3>4. /\ rows[m].st = "PENDING"
          /\ \A n \in Ids : rows[n].st = "PENDING" /\ rows[n].to = job[d].on => m <= n
      BY <3>1, <3>3 DEF Staged, Foremost
    <3> QED
      BY <1>3, <1>4, <1>6, <3>1, <3>2, <3>3, <3>4 DEF Stages, Flying
  <2> QED
    BY <2>1, <2>2
<1>9. CASE MarkDelivered(d)
  <2>1. UNCHANGED typed /\ Active(d) /\ job[d].pc = "checked"
    BY <1>9 DEF MarkDelivered, Active, At
  <2>2. /\ \A e \in Jobs \ {d} : job'[e] = job[e]
        /\ job'[d].pc = "send" /\ job'[d].on = job[d].on /\ job'[d].msg = job[d].msg
    BY <1>9, GoesTo DEF MarkDelivered, Stages
  <2>3. PICK m \in Ids : job[d].msg = m
    BY <1>4, <2>1
  <2>4. /\ rows[m].st = "PENDING"
        /\ \A n \in Ids : rows[n].st = "PENDING" /\ rows[n].to = job[d].on => m <= n
    BY <2>1, <2>3 DEF Staged, Foremost
  <2>5. ~WasTyped(m)
    BY <2>4, TypedRow
  <2>6. /\ \A n \in Ids : rows'[n].to = rows[n].to
        /\ \A n \in Ids : rows'[n].st = IF n = m THEN "DELIVERED" ELSE rows[n].st
        /\ InOrder'
    BY <1>5, <1>9, <2>1, <2>3 DEF MarkDelivered
  <2>7. ~WasTyped(m)'
    BY <2>1, <2>5, <2>6 DEF WasTyped
  <2>8. TypedIsSettled'
    <3>1. ASSUME NEW n \in Ids, NEW t \in Receivers, NEW i \in 1..Len(typed[t]), typed[t][i] = n
          PROVE  rows'[n].to = t /\ rows'[n].st \in {"DELIVERED", "FAILED"}
      BY <2>6, <3>1 DEF TypedIsSettled
    <3> QED
      BY <2>1, <3>1, SettledRows
  <2> QED
    BY <1>3, <1>4, <2>1, <2>2, <2>3, <2>4, <2>6, <2>7, <2>8 DEF Stages, Flying
<1>10. ASSUME At(d, "send"), TypeKeys(d), UNCHANGED rows PROVE InOrder' /\ TypedIsSettled'
  <2>1. Active(d) /\ job[d].pc = "send"
    BY <1>10 DEF Active, At
  <2>2. rows[job[d].msg].to = job[d].on /\ rows[job[d].msg].st = "DELIVERED"
    BY <1>4, <2>1 DEF Staged, Flying
  <2>3. InOrder'
    BY <1>10 DEF InOrder, Ids
  <2>4. TypedIsSettled'
    <3> SUFFICES ASSUME NEW t \in Receivers, NEW i \in 1..Len(typed'[t])
                 PROVE  /\ rows[typed'[t][i]].to = t
                        /\ rows[typed'[t][i]].st \in {"DELIVERED", "FAILED"}
      BY <1>10 DEF TypedIsSettled
    <3>1. CASE i \in 1..Len(typed[t]) /\ typed'[t][i] = typed[t][i]
      BY <3>1 DEF TypedIsSettled
    <3>2. CASE t = job[d].on /\ typed'[t][i] = job[d].msg
      BY <2>2, <3>2
    <3> QED
      BY <1>10, <3>1, <3>2, TypingOnly
  <2> QED
    BY <2>3, <2>4
<1>11. CASE SendInput(d)
  <2>1. Active(d) /\ \A e \in Jobs \ {d} : job'[e] = job[e]
    BY <1>11, Ends DEF SendInput, Active, At
  <2>2. \A e \in Jobs : job'[e].pc \in {"idle", "begin"}
    BY <1>4, <1>11, <2>1, Ends DEF SendInput
  <2>3. Solo' /\ Foremost' /\ Staged'
    BY <2>2 DEF Solo, Foremost, Staged, Active, Flying
  <2> QED
    BY <1>10, <1>11, <2>3 DEF SendInput
<1>12. CASE SendInputRaises(d)
  <2>1. /\ Active(d) /\ job[d].pc = "send" /\ UNCHANGED rows
        /\ (UNCHANGED typed \/ (TypeKeys(d) /\ GoTo(d, "fail")))
    <3>1. Active(d) /\ job[d].pc = "send" /\ UNCHANGED rows
      BY <1>12 DEF SendInputRaises, Active, At
    <3>2. UNCHANGED typed \/ (TypeKeys(d) /\ GoTo(d, "fail"))
      BY <1>12 DEF SendInputRaises, AfterError
    <3> QED
      BY <3>1, <3>2
  <2>2. /\ \A e \in Jobs \ {d} : job'[e] = job[e]
        /\ job'[d].pc \in {"reset", "fail"} /\ job'[d].on = job[d].on /\ job'[d].msg = job[d].msg
    BY <1>12, GoesTo DEF SendInputRaises, Stages, AfterUnresolved, AfterError
  <2>3. PICK m \in Ids : job[d].msg = m
    BY <1>4, <2>1
  <2>4. /\ rows[m].st = "DELIVERED" /\ ~WasTyped(m)
        /\ \A n \in Ids : rows[n].st = "PENDING" /\ rows[n].to = job[d].on => m <= n
    BY <2>1, <2>3 DEF Staged, Foremost, Flying
  <2>5. InOrder' /\ TypedIsSettled'
    BY <1>6, <1>10, <2>1 DEF At
  <2>6. job'[d].pc = "reset" => ~WasTyped(m)'
    <3>1. CASE UNCHANGED typed
      BY <2>1, <2>4, <3>1 DEF WasTyped
    <3>2. CASE TypeKeys(d) /\ GoTo(d, "fail")
      BY <3>2, GoesTo DEF Stages
    <3> QED
      BY <2>1, <3>1, <3>2
  <2> QED
    BY <1>3, <1>4, <2>1, <2>2, <2>3, <2>4, <2>5, <2>6 DEF Stages, Flying
<1>13. CASE ResetPending(d) \/ MarkFailed(d)
  <2>1. Active(d) /\ \A e \in Jobs \ {d} : job'[e] = job[e]
    BY <1>13, Ends DEF ResetPending, MarkFailed, Active, At
  <2>2. \A e \in Jobs : job'[e].pc \in {"idle", "begin"}
    BY <1>4, <1>13, <2>1, Ends DEF ResetPending, MarkFailed
  <2>3. Solo' /\ Foremost' /\ Staged'
    BY <2>2 DEF Solo, Foremost, Staged, Active, Flying
  <2>4. PICK st \in {"PENDING", "FAILED"} : /\ SetStatus(job[d].msg, st) /\ UNCHANGED typed
                                            /\ st = "PENDING" => job[d].pc = "reset"
    BY <1>13 DEF ResetPending, MarkFailed, At
  <2>5. /\ \A n \in Ids : rows'[n].to = rows[n].to
        /\ \A n \in Ids : rows'[n].st = IF n = job[d].msg THEN st ELSE rows[n].st
        /\ InOrder'
    BY <1>5, <2>1, <2>4
  <2>6. TypedIsSettled'
    <3>1. ASSUME NEW n \in Ids, NEW t \in Receivers, NEW i \in 1..Len(typed[t]), typed[t][i] = n
          PROVE  rows'[n].to = t /\ rows'[n].st \in {"DELIVERED", "FAILED"}
      <4>1. rows[n].to = t /\ rows[n].st \in {"DELIVERED", "FAILED"}
        BY <3>1 DEF TypedIsSettled
      <4>2. ~(n = job[d].msg /\ st = "PENDING")
        BY <2>4, <3>1, <4>1 DEF Staged, WasTyped
      <4> QED
        BY <2>5, <4>1, <4>2
    <3> QED
      BY <2>4, <3>1, SettledRows
  <2> QED
    BY <2>3, <2>5, <2>6
<1>14. CASE DatabaseRaises(d)
  BY <1>1, <1>14 DEF DatabaseRaises
<1> QED
  BY <1>7, <1>8, <1>9, <1>11, <1>12, <1>13, <1>14 DEF Deliver

LEMMA AloneStep ==
    ASSUME ~Overlap, AloneInv, TypeOK, InHand, [Next]_vars
    PROVE  AloneInv'
<1>1. ASSUME NEW m \in Ids, NEW r \in Routes, Post(m, r[1], r[2]) PROVE AloneInv'
  BY <1>1, PostAlone
<1>2. ASSUME NEW d \in Jobs, Deliver(d) PROVE AloneInv'
  BY <1>2, DeliverAlone
<1>3. ASSUME NEW m \in Ids, Age(m) PROVE AloneInv'
  <2>1. \A n \in Ids : rows'[n].to = rows[n].to /\ rows'[n].st = rows[n].st
    <3>1. rows[m] \in RowType /\ rows' = [rows EXCEPT ![m].aged = TRUE]
      BY <1>3, TypesOf DEF Age
    <3> QED
      BY <3>1, TypesOf DEF RowType
  <2> QED
    BY <1>3, <2>1, BeginsAndEnds DEF Age, agent
<1>4. ASSUME NEW d \in Jobs, NEW t \in Receivers, Begin(d, t)
      PROVE  \A e \in Jobs : job'[e] = job[e] \/ job'[e].pc \in {"idle", "begin"}
  BY <1>4, Begins
<1>5. CASE TakeEvent
  <2>1. events \in Seq(Receivers) /\ events # <<>>
    BY <1>5 DEF TakeEvent, TypeOK
  <2>2. Head(events) \in Receivers /\ "event" \in Jobs
    BY <2>1 DEF Jobs
  <2> QED
    BY <1>4, <1>5, <2>2, BeginsAndEnds DEF TakeEvent, agent, table
<1>6. ASSUME NEW d \in Pollers, NextReceiver(d) PROVE AloneInv'
  <2>1. PICK t \in todo[d] : Begin(d, t)
    BY <1>6 DEF NextReceiver
  <2>2. t \in Receivers /\ d \in Jobs
    BY DEF TypeOK, Pollers, Jobs
  <2> QED
    BY <1>4, <1>6, <2>1, <2>2, BeginsAndEnds DEF NextReceiver, agent, table
<1>7. CASE Crash
  <2>1. \A e \in Jobs : job'[e].pc = "idle"
    BY <1>7, Blanks DEF Crash
  <2> QED
    BY <1>7, <2>1, BeginsAndEnds DEF Crash, agent, table
<1>8. CASE UNCHANGED <<rows, job, typed>>
  BY <1>8, BeginsAndEnds
<1>9. ASSUME NEW t \in Receivers,
             BeginTurn(t) \/ Proceed(t) \/ Answer(t) \/ ReadMidTurn(t) \/ Report(t)
      PROVE  UNCHANGED <<rows, job, typed>>
  BY <1>9 DEF BeginTurn, Proceed, Answer, ReadMidTurn, Report, AgentOnly, table
<1>10. ASSUME \/ UNCHANGED vars \/ \E t \in Terminals : DeleteTerminal(t)
              \/ \E d \in Pollers : ListReceivers(d)
       PROVE  UNCHANGED <<rows, job, typed>>
  BY <1>10 DEF vars, DeleteTerminal, ListReceivers, agent, table
<1> QED
  BY <1>1, <1>2, <1>3, <1>5, <1>6, <1>7, <1>8, <1>9, <1>10 DEF Next, Agents

LEMMA InitAlone == Init => AloneInv
<1> SUFFICES ASSUME Init PROVE AloneInv
  OBVIOUS
<1>1. \A d \in Jobs : job[d].pc = "idle"
  BY Blanks DEF Init
<1>2. \A n \in Ids : rows[n].st = "NONE"
  BY Blanks DEF Init
<1>3. \A t \in Receivers : typed[t] = <<>>
  BY DEF Init
<1> QED
  BY <1>1, <1>2, <1>3
     DEF AloneInv, Solo, InOrder, TypedIsSettled, Foremost, Staged, Active, Flying

-----------------------------------------------------------------------------
(* Every step of them is a step of the mailbox.                                 *)

FateOf(m) ==
    IF rows[m].st = "NONE" THEN "none"
    ELSE IF WasTyped(m) THEN "typed"
    ELSE IF rows[m].st = "PENDING" \/ InFlight(m) THEN "queued"
    ELSE IF rows[m].st = "FAILED" THEN "failed"
    ELSE "lost"

LEMMA FateIs ==
    /\ Fate = [m \in Ids |-> FateOf(m)] /\ Fate' = [m \in Ids |-> FateOf(m)']
    /\ \A m \in Ids : Fate[m] = FateOf(m) /\ Fate'[m] = FateOf(m)'
BY DEF Fate, FateOf

\* Where the fate of nothing changes.
LEMMA Stutters ==
    ASSUME UNCHANGED typed, \A m \in Ids : rows'[m].to = rows[m].to,
           \A m \in Ids : FateOf(m)' = FateOf(m)
    PROVE  UNCHANGED Mail!mail
<1>1. Fate' = Fate
  BY FateIs
<1>2. [m \in Ids |-> rows[m].to]' = [m \in Ids |-> rows[m].to]
  <2>1. Ids' = Ids
    BY DEF Ids
  <2> QED
    BY <2>1
<1> QED
  BY <1>1, <1>2 DEF Mail!mail

\* Where the fate of one message changes.
LEMMA FateChanges ==
    ASSUME NEW m \in Ids, NEW f, FateOf(m)' = f, \A n \in Ids \ {m} : FateOf(n)' = FateOf(n)
    PROVE  Fate' = [Fate EXCEPT ![m] = f]
<1>1. \A n \in Ids : Fate'[n] = [Fate EXCEPT ![m] = f][n]
  BY FateIs
<1>2. /\ Fate' = [n \in Ids |-> Fate'[n]]
      /\ [Fate EXCEPT ![m] = f] = [n \in Ids |-> [Fate EXCEPT ![m] = f][n]]
  <2>1. Fate \in [Ids -> {FateOf(n) : n \in Ids}] /\ Fate' \in [Ids -> {FateOf(n)' : n \in Ids}]
    BY FateIs
  <2> QED
    BY <2>1
<1> QED
  BY <1>1, <1>2

\* The message of a delivery is the oldest of its box.
LEMMA TypesOldest ==
    ASSUME NEW m \in Ids, FateOf(m) = "queued",
           \A n \in Ids : FateOf(n) = "queued" /\ rows[n].to = rows[m].to => n >= m,
           \A n \in Ids : rows'[n].to = rows[n].to,
           \A n \in Ids \ {m} : FateOf(n)' = FateOf(n)
    PROVE  /\ FateOf(m)' = "typed" /\ typed' = [typed EXCEPT ![rows[m].to] = Append(@, m)]
                => Mail!Type(m)
           /\ FateOf(m)' \in {"failed", "lost"} /\ UNCHANGED typed => Mail!Discard(m)
<1>1. Fate[m] = "queued" /\ Mail!Oldest(m)
  BY FateIs DEF Mail!Oldest
<1>2. [n \in Ids |-> rows[n].to]' = [n \in Ids |-> rows[n].to]
  BY DEF Ids
<1>3. [n \in Ids |-> rows[n].to][m] = rows[m].to
  OBVIOUS
<1>4. ASSUME NEW f, FateOf(m)' = f PROVE Fate' = [Fate EXCEPT ![m] = f]
  BY <1>4, FateChanges
<1>5. ASSUME FateOf(m)' = "typed", typed' = [typed EXCEPT ![rows[m].to] = Append(@, m)]
      PROVE  Mail!Type(m)
  BY <1>1, <1>2, <1>3, <1>4, <1>5 DEF Mail!Type
<1>6. ASSUME FateOf(m)' \in {"failed", "lost"}, UNCHANGED typed PROVE Mail!Discard(m)
  <2>1. \E f \in {"failed", "lost"} : Fate' = [Fate EXCEPT ![m] = f]
    BY <1>4, <1>6
  <2> QED
    BY <1>1, <1>2, <1>6, <2>1 DEF Mail!Discard
<1> QED
  BY <1>5, <1>6

\* A new row is queued in the box of its receiver.
LEMMA PostQueues ==
    ASSUME AloneInv, TypeOK, InHand, NEW m \in Ids, NEW r \in Routes, Post(m, r[1], r[2])
    PROVE  Mail!Queue(m)
<1>1. /\ rows[m].st = "NONE" /\ rows'[m].st = "PENDING" /\ rows'[m].to = r[2]
      /\ \A n \in Ids \ {m} : rows'[n] = rows[n]
      /\ UNCHANGED typed /\ Begin("post", r[2]) /\ r[2] \in Receivers
      /\ job["post"].pc = "idle"
  BY ZenonT(40), Posts DEF Post, agent, LoopFree
<1>2. \A e \in Jobs : job[e].pc \in Flying \/ job'[e].pc \in Flying => job'[e] = job[e]
  BY <1>1, Begins DEF Jobs, Flying
<1>3. \A n \in Ids \ {m} : FateOf(n)' = FateOf(n)
  <2> SUFFICES ASSUME NEW n \in Ids \ {m} PROVE FateOf(n)' = FateOf(n)
    OBVIOUS
  <2>1. InFlight(n)' <=> InFlight(n)
    BY <1>2 DEF InFlight, Flying
  <2>2. WasTyped(n)' <=> WasTyped(n)
    BY <1>1 DEF WasTyped
  <2> QED
    BY <1>1, <2>1, <2>2 DEF FateOf
<1>4. FateOf(m) = "none" /\ FateOf(m)' = "queued"
  <2>1. ~WasTyped(m)'
    <3>1. ASSUME NEW i \in 1..Len(typed[r[2]]), typed[r[2]][i] = m PROVE FALSE
      BY <1>1, <3>1 DEF AloneInv, TypedIsSettled
    <3> QED
      BY <1>1, <3>1 DEF WasTyped
  <2> QED
    BY <1>1, <2>1 DEF FateOf
<1>5. \A n \in Ids : n > m => FateOf(n) = "none"
  BY <1>1 DEF AloneInv, InOrder, FateOf, Ids
<1>6. Fate' = [Fate EXCEPT ![m] = "queued"]
  BY <1>3, <1>4, FateChanges
<1>7. [n \in Ids |-> rows[n].to]' = [[n \in Ids |-> rows[n].to] EXCEPT ![m] = r[2]]
  <2>1. \A n \in Ids : rows'[n].to = IF n = m THEN r[2] ELSE rows[n].to
    BY <1>1
  <2> QED
    BY <2>1 DEF Ids
<1> QED
  BY <1>1, <1>4, <1>5, <1>6, <1>7, FateIs DEF Mail!Queue

\* What the delivery d does to the fate of its own message, m, and of the others.
LEMMA DeliverImplements ==
    ASSUME ~Overlap, AloneInv, TypeOK, InHand, NEW d \in Jobs, Deliver(d)
    PROVE  Mail!MailNext \/ UNCHANGED Mail!mail
<1> USE DEF AloneInv
<1>0. \A n \in Ids : rows'[n].to = rows[n].to
  <2>1. CASE UNCHANGED rows
    BY <2>1
  <2>2. CASE \E st \in {"NONE", "PENDING", "DELIVERED", "FAILED"} : SetStatus(job[d].msg, st)
    BY <2>2, StatusSet
  <2> QED
    BY <2>1, <2>2 DEF Deliver, ReadPending, CheckGate, MarkDelivered, SendInput,
                      SendInputRaises, ResetPending, MarkFailed, DatabaseRaises
<1>1. CASE job[d].pc = "begin" \/ CheckGate(d)
\* Nothing is written, and no delivery begins or ends to be in flight.
  <2>1. ReadPending(d) \/ DatabaseRaises(d) \/ CheckGate(d)
    BY <1>1 DEF Deliver, MarkDelivered, SendInput, SendInputRaises, ResetPending, MarkFailed, At
  <2>2. UNCHANGED <<rows, typed>>
    BY <2>1 DEF ReadPending, DatabaseRaises, CheckGate, DeliverOnly
  <2>3. \A e \in Jobs \ {d} : job'[e] = job[e]
    BY <2>1, Reads, Ends, GoesTo DEF DatabaseRaises, CheckGate, Stages
  <2>4. job[d].pc \notin Flying /\ job'[d].pc \notin Flying
    BY <1>1, <2>1, Reads, Ends, GoesTo DEF DatabaseRaises, CheckGate, Stages, Flying, At
  <2>5. \A n \in Ids : FateOf(n)' = FateOf(n)
    <3> SUFFICES ASSUME NEW n \in Ids PROVE FateOf(n)' = FateOf(n)
      OBVIOUS
    <3>1. InFlight(n)' <=> InFlight(n)
      BY <2>3, <2>4 DEF InFlight, Flying
    <3> QED
      BY <2>2, <3>1 DEF FateOf, WasTyped
  <2> QED
    BY <1>0, <2>2, <2>5, Stutters
<1>2. CASE job[d].pc # "begin" /\ ~CheckGate(d)
\* The delivery has its message, and all other deliveries are inactive.
  <2>1. Active(d) /\ job[d].pc \in {"checked"} \cup Flying
    BY <1>2 DEF Deliver, ReadPending, MarkDelivered, SendInput, SendInputRaises, ResetPending,
                MarkFailed, DatabaseRaises, At, Active, Flying
  <2>2. PICK m \in Ids : job[d].msg = m
    BY <2>1 DEF InHand
  <2>3. \A e \in Jobs \ {d} : job'[e] = job[e] /\ job[e].pc \notin Flying
    <3>1. \A e \in Jobs \ {d} : job'[e] = job[e]
      BY <1>2, Reads, Ends, GoesTo
         DEF Deliver, ReadPending, MarkDelivered, SendInput, SendInputRaises, ResetPending,
             MarkFailed, DatabaseRaises, Stages, AfterError, AfterUnresolved, At
    <3> QED
      BY <2>1, <3>1 DEF Solo, Active, Flying
  <2>4. /\ InFlight(m) <=> job[d].pc \in Flying
        /\ \A n \in Ids \ {m} : ~InFlight(n)
        /\ rows[m].to = job[d].on /\ rows[m].st # "NONE"
        /\ \A n \in Ids : rows[n].st = "PENDING" /\ rows[n].to = job[d].on => m <= n
    <3>1. \A n \in Ids : InFlight(n) <=> n = m /\ job[d].pc \in Flying
      BY <2>2, <2>3 DEF InFlight, Flying
    <3> QED
      BY <2>1, <2>2, <3>1 DEF InHand, Foremost
  <2>5. job'[d].pc \in Flying => job'[d].msg = m
    BY <1>2, <2>1, <2>2, Reads, Ends, GoesTo
       DEF Deliver, ReadPending, CheckGate, MarkDelivered, SendInput, SendInputRaises,
           ResetPending, MarkFailed, DatabaseRaises, Stages, Flying, AfterError,
           AfterUnresolved, At
  <2>6. \A n \in Ids : InFlight(n)' <=> n = m /\ job'[d].pc \in Flying
    BY <2>3, <2>5 DEF InFlight, Flying
  <2>7. \A n \in Ids : FateOf(n) = "queued" /\ rows[n].to = rows[m].to => n >= m
    BY <2>4 DEF FateOf, Ids
  <2>8. TypeKeys(d) => typed' = [typed EXCEPT ![rows[m].to] = Append(@, m)]
    BY <2>2, <2>4 DEF TypeKeys
  <2>9. ASSUME rows'[m].st # "NONE", \A n \in Ids \ {m} : rows'[n].st = rows[n].st,
               UNCHANGED typed \/ (TypeKeys(d) /\ At(d, "send") /\ UNCHANGED rows)
        PROVE  \A n \in Ids \ {m} : FateOf(n)' = FateOf(n)
    <3> SUFFICES ASSUME NEW n \in Ids \ {m} PROVE FateOf(n)' = FateOf(n)
      OBVIOUS
    <3>1. WasTyped(n)' <=> WasTyped(n)
      <4>1. CASE UNCHANGED typed
        BY <1>0, <4>1 DEF WasTyped
      <4>2. CASE TypeKeys(d) /\ At(d, "send") /\ UNCHANGED rows
        <5>1. WasTyped(n) => WasTyped(n)'
          BY <4>2, TypingAdds
        <5>2. ASSUME WasTyped(n)' PROVE WasTyped(n)
          <6>1. PICK i \in 1..Len(typed'[rows[n].to]) : typed'[rows[n].to][i] = n
            BY <1>0, <5>2 DEF WasTyped
          <6>2. rows[n].to \in Receivers
            BY TypesOf DEF RowType
          <6>3. i \in 1..Len(typed[rows[n].to]) /\ typed'[rows[n].to][i] = typed[rows[n].to][i]
            BY <2>2, <4>2, <6>1, <6>2, TypingOnly
          <6> QED
            BY <6>1, <6>3 DEF WasTyped
        <5> QED
          BY <5>1, <5>2
      <4> QED
        BY <2>9, <4>1, <4>2
    <3>2. ~InFlight(n)' /\ ~InFlight(n)
      BY <2>4, <2>6
    <3> QED
      BY <2>9, <3>1, <3>2 DEF FateOf
  <2>10. ASSUME FateOf(m)' = FateOf(m), UNCHANGED typed,
                \A n \in Ids \ {m} : FateOf(n)' = FateOf(n)
         PROVE  UNCHANGED Mail!mail
    BY <1>0, <2>10, Stutters
  <2>11. CASE MarkDelivered(d)
    <3>1. /\ rows[m].st = "PENDING" /\ ~WasTyped(m)
      BY <2>2, <2>11, TypedRow DEF MarkDelivered, At, Staged
    <3>2. /\ rows'[m].st = "DELIVERED" /\ \A n \in Ids \ {m} : rows'[n].st = rows[n].st
          /\ UNCHANGED typed /\ job'[d].pc \in Flying
      BY <2>2, <2>11, StatusSet, GoesTo DEF MarkDelivered, Stages, Flying
    <3>3. ~WasTyped(m)'
      BY <1>0, <3>1, <3>2 DEF WasTyped
    <3>4. FateOf(m) = "queued" /\ FateOf(m)' = "queued"
      BY <2>6, <3>1, <3>2, <3>3 DEF FateOf
    <3> QED
      BY <2>9, <2>10, <3>2, <3>4
  <2>12. CASE TypeKeys(d) /\ At(d, "send") /\ UNCHANGED rows
    <3>1. FateOf(m) = "queued"
      BY <2>2, <2>4, <2>12 DEF FateOf, At, Staged, Flying
    <3>2. WasTyped(m)'
      BY <2>2, <2>12, TypingAdds
    <3>3. FateOf(m)' = "typed"
      BY <2>4, <2>12, <3>2 DEF FateOf
    <3>4. Mail!Type(m)
      BY <1>0, <2>4, <2>7, <2>8, <2>9, <2>12, <3>1, <3>3, TypesOldest
    <3> QED
      BY <3>4 DEF Mail!MailNext
  <2>13. CASE SendInputRaises(d) /\ UNCHANGED typed
    <3>1. UNCHANGED rows /\ job[d].pc = "send" /\ job'[d].pc \in Flying
      BY <2>13, GoesTo DEF SendInputRaises, Stages, Flying, AfterError, AfterUnresolved, At
    <3>2. InFlight(m)' /\ InFlight(m)
      BY <2>4, <2>6, <3>1 DEF Flying
    <3>3. FateOf(m)' = FateOf(m)
      BY <2>13, <3>1, <3>2 DEF FateOf, WasTyped
    <3> QED
      BY <2>4, <2>9, <2>10, <2>13, <3>1, <3>3
  <2>14. CASE ResetPending(d)
    <3>1. /\ rows'[m].st = "PENDING" /\ \A n \in Ids \ {m} : rows'[n].st = rows[n].st
          /\ UNCHANGED typed /\ job[d].pc = "reset"
      BY <2>2, <2>14, StatusSet DEF ResetPending, At
    <3>2. ~WasTyped(m) /\ InFlight(m)
      BY <2>2, <2>4, <3>1 DEF Staged, Flying
    <3>3. ~WasTyped(m)'
      BY <1>0, <3>1, <3>2 DEF WasTyped
    <3>4. FateOf(m) = "queued" /\ FateOf(m)' = "queued"
      BY <2>4, <3>1, <3>2, <3>3 DEF FateOf
    <3> QED
      BY <2>9, <2>10, <3>1, <3>4
  <2>15. CASE MarkFailed(d) \/ DatabaseRaises(d)
    <3>1. /\ rows'[m].st \in {"FAILED", rows[m].st} /\ \A n \in Ids \ {m} : rows'[n].st = rows[n].st
          /\ UNCHANGED typed /\ job'[d].pc = "idle"
      <4>1. CASE MarkFailed(d)
        BY <2>2, <4>1, StatusSet, Ends DEF MarkFailed
      <4>2. CASE DatabaseRaises(d)
        BY <4>2, Ends DEF DatabaseRaises, DeliverOnly
      <4> QED
        BY <2>15, <4>1, <4>2
    <3>2. \A n \in Ids \ {m} : FateOf(n)' = FateOf(n)
      BY <2>4, <2>9, <3>1
    <3>3. WasTyped(m)' <=> WasTyped(m)
      BY <1>0, <3>1 DEF WasTyped
    <3>4. CASE job[d].pc = "checked"
      <4>1. rows[m].st = "PENDING" /\ rows'[m].st = "PENDING"
        BY <2>2, <2>15, <3>4 DEF Staged, MarkFailed, DatabaseRaises, At
      <4>2. FateOf(m)' = FateOf(m)
        BY <3>3, <4>1 DEF FateOf
      <4> QED
        BY <2>10, <3>1, <3>2, <4>2
    <3>5. CASE job[d].pc # "checked" /\ WasTyped(m)
      <4>1. FateOf(m)' = FateOf(m)
        BY <2>4, <3>1, <3>3, <3>5 DEF FateOf
      <4> QED
        BY <2>10, <3>1, <3>2, <4>1
    <3>6. CASE job[d].pc # "checked" /\ ~WasTyped(m)
      <4>1. job[d].pc \in Flying /\ rows[m].st = "DELIVERED"
        BY <2>1, <2>2, <3>6 DEF Staged
      <4>2. FateOf(m) = "queued"
        BY <2>4, <3>6, <4>1 DEF FateOf
      <4>3. FateOf(m)' \in {"failed", "lost"}
        BY <2>6, <3>1, <3>3, <3>6, <4>1 DEF FateOf, Flying
      <4>4. Mail!Discard(m)
        BY <1>0, <2>7, <3>1, <3>2, <4>2, <4>3, TypesOldest
      <4> QED
        BY <4>4 DEF Mail!MailNext
    <3> QED
      BY <3>4, <3>5, <3>6
  <2> QED
    <3>1. ASSUME SendInput(d) PROVE TypeKeys(d) /\ At(d, "send") /\ UNCHANGED rows
      BY <3>1 DEF SendInput
    <3>2. ASSUME SendInputRaises(d)
          PROVE  UNCHANGED typed \/ (TypeKeys(d) /\ At(d, "send") /\ UNCHANGED rows)
      BY <3>2 DEF SendInputRaises
    <3>3. ~ReadPending(d)
      BY <1>2 DEF ReadPending, At
    <3> QED
      BY <1>2, <2>11, <2>12, <2>13, <2>14, <2>15, <3>1, <3>2, <3>3 DEF Deliver
<1> QED
  BY <1>1, <1>2

LEMMA AloneImplements ==
    ASSUME ~Overlap, AloneInv, TypeOK, InHand, [Next]_vars
    PROVE  Mail!MailNext \/ UNCHANGED Mail!mail
\* Where nothing is written and deliveries go on as they were.
<1>1. ASSUME \A n \in Ids : rows'[n].to = rows[n].to /\ rows'[n].st = rows[n].st, UNCHANGED typed,
             \A e \in Jobs : job'[e] = job[e] \/ (job[e].pc \notin Flying /\ job'[e].pc \notin Flying)
      PROVE  UNCHANGED Mail!mail
  <2>1. \A n \in Ids : FateOf(n)' = FateOf(n)
    <3> SUFFICES ASSUME NEW n \in Ids PROVE FateOf(n)' = FateOf(n)
      OBVIOUS
    <3>1. InFlight(n)' <=> InFlight(n)
      BY <1>1 DEF InFlight, Flying
    <3>2. WasTyped(n)' <=> WasTyped(n)
      BY <1>1 DEF WasTyped
    <3> QED
      BY <1>1, <3>1, <3>2 DEF FateOf
  <2> QED
    BY <1>1, <2>1, Stutters
<1>2. ASSUME NEW d \in Jobs, NEW t \in Receivers, Begin(d, t), job[d].pc = "idle"
      PROVE  \A e \in Jobs : job'[e] = job[e] \/ (job[e].pc \notin Flying /\ job'[e].pc \notin Flying)
  BY <1>2, Begins DEF Flying
<1>3. ASSUME NEW m \in Ids, NEW r \in Routes, Post(m, r[1], r[2]) PROVE Mail!MailNext
  BY <1>3, PostQueues DEF Mail!MailNext
<1>4. ASSUME NEW d \in Jobs, Deliver(d) PROVE Mail!MailNext \/ UNCHANGED Mail!mail
  BY <1>4, DeliverImplements
<1>5. ASSUME NEW m \in Ids, Age(m) PROVE UNCHANGED Mail!mail
  <2>1. \A n \in Ids : rows'[n].to = rows[n].to /\ rows'[n].st = rows[n].st
    <3>1. rows[m] \in RowType /\ rows' = [rows EXCEPT ![m].aged = TRUE]
      BY <1>5, TypesOf DEF Age
    <3> QED
      BY <3>1, TypesOf DEF RowType
  <2> QED
    BY <1>1, <1>5, <2>1 DEF Age, agent
<1>6. CASE TakeEvent
  <2>1. events \in Seq(Receivers) /\ events # <<>>
    BY <1>6 DEF TakeEvent, TypeOK
  <2>2. Head(events) \in Receivers /\ "event" \in Jobs
    BY <2>1 DEF Jobs
  <2> QED
    BY <1>1, <1>2, <1>6, <2>2 DEF TakeEvent, agent, table
<1>7. ASSUME NEW d \in Pollers, NextReceiver(d) PROVE UNCHANGED Mail!mail
  <2>1. PICK t \in todo[d] : Begin(d, t)
    BY <1>7 DEF NextReceiver
  <2>2. t \in Receivers /\ d \in Jobs
    BY DEF TypeOK, Pollers, Jobs
  <2> QED
    BY <1>1, <1>2, <1>7, <2>1, <2>2 DEF NextReceiver, agent, table
\* A crash cuts the one delivery off that there may be.
<1>8. CASE Crash
  <2>1. (\A n \in Ids : ~InFlight(n)') /\ UNCHANGED <<rows, typed>>
    BY <1>8, Blanks DEF Crash, InFlight, agent, table
  <2>2. \A n \in Ids : FateOf(n)' = FateOf(n) \/ (FateOf(n) = "queued" /\ FateOf(n)' \in {"failed", "lost"} /\ InFlight(n))
    BY <2>1 DEF FateOf, WasTyped
  <2>3. CASE \A n \in Ids : FateOf(n)' = FateOf(n)
    BY <2>1, <2>3, Stutters
  <2>4. ASSUME NEW m \in Ids, FateOf(m)' # FateOf(m) PROVE Mail!MailNext
    <3>1. FateOf(m) = "queued" /\ FateOf(m)' \in {"failed", "lost"} /\ InFlight(m)
      BY <2>2, <2>4
    <3>2. PICK d \in Jobs : job[d].msg = m /\ job[d].pc \in Flying
      BY <3>1 DEF InFlight, Flying
    <3>3. \A n \in Ids \ {m} : ~InFlight(n)
      BY <3>2 DEF AloneInv, Solo, Active, InFlight, Flying
    <3>4. \A n \in Ids \ {m} : FateOf(n)' = FateOf(n)
      BY <2>2, <3>3
    <3>5. \A n \in Ids : rows[n].st = "PENDING" /\ rows[n].to = rows[m].to => m <= n
      BY <3>2 DEF AloneInv, Foremost, InHand, Active, Flying
    <3>6. \A n \in Ids : FateOf(n) = "queued" /\ rows[n].to = rows[m].to => n >= m
      BY <3>3, <3>5 DEF FateOf, Ids
    <3>7. Mail!Discard(m)
      BY <2>1, <3>1, <3>4, <3>6, TypesOldest
    <3> QED
      BY <3>7 DEF Mail!MailNext
  <2> QED
    BY <2>3, <2>4
<1>9. CASE UNCHANGED <<rows, job, typed>>
  BY <1>1, <1>9
<1>10. ASSUME NEW t \in Receivers,
             BeginTurn(t) \/ Proceed(t) \/ Answer(t) \/ ReadMidTurn(t) \/ Report(t)
      PROVE  UNCHANGED <<rows, job, typed>>
  BY <1>10 DEF BeginTurn, Proceed, Answer, ReadMidTurn, Report, AgentOnly, table
<1>11. ASSUME \/ UNCHANGED vars \/ \E t \in Terminals : DeleteTerminal(t)
              \/ \E d \in Pollers : ListReceivers(d)
       PROVE  UNCHANGED <<rows, job, typed>>
  BY <1>11 DEF vars, DeleteTerminal, ListReceivers, agent, table
<1> QED
  BY <1>3, <1>4, <1>5, <1>6, <1>7, <1>8, <1>9, <1>10, <1>11 DEF Next, Agents

LEMMA InitImplements == Init => Mail!MailInit
<1> SUFFICES ASSUME Init PROVE Mail!MailInit
  OBVIOUS
<1>1. \A n \in Ids : rows[n].st = "NONE" /\ rows[n].to \in Receivers
  BY Blanks DEF Init, RowType
<1>2. Fate = [m \in Ids |-> "none"]
  BY <1>1 DEF Fate
<1>3. typed = [t \in Receivers |-> <<>>]
  BY DEF Init
<1>4. [m \in Ids |-> rows[m].to] \in [Ids -> Receivers]
  BY <1>1
<1> QED
  BY <1>2, <1>3, <1>4 DEF Mail!MailInit

\* Deliveries that do not overlap implement the mailbox: a message is typed at most once, in
\* the order of the ids of its receiver, whichever of the four callers delivers it, or it
\* fails, or is lost with a crash or a write that failed.
THEOREM SpecIsMailbox == ASSUME ~Overlap PROVE Spec => MailboxSpec
<1>1. Init => Mail!MailInit
  BY InitImplements
<1>2. TypeOK /\ InHand /\ AloneInv /\ [Next]_vars => AloneInv' /\ [Mail!MailNext]_(Mail!mail)
  BY AloneStep, AloneImplements
<1> QED
  BY <1>1, <1>2, InitAlone, SpecTypeOK, PTL DEF Spec, MailboxSpec, Mail!MailSpec

\* The same of the deliveries that do not overlap beside those that do.
THEOREM ModesAreMailbox == ASSUME ~Overlap PROVE ModesSpec => AloneIsMailbox
<1> DEFINE Inv == mode # "races" => TypeOK /\ InHand /\ AloneInv
<1>1. ModesInit => Inv /\ (mode # "races" => Mail!MailInit)
  <2>1. Init => InHand
    BY Blanks DEF Init, InHand, Active
  <2> QED
    BY <2>1, InitTypes, InitAlone, InitImplements DEF ModesInit
<1>2. Inv /\ [ModesNext]_modes
        => Inv' /\ [mode # "races" => UNCHANGED Mail!mail \/ Mail!MailNext]_modes
  <2> SUFFICES ASSUME Inv, [ModesNext]_modes, mode # "races" \/ mode' # "races"
               PROVE  Inv' /\ (mode # "races" => UNCHANGED Mail!mail \/ Mail!MailNext)
    OBVIOUS
  <2>1. mode # "races" /\ mode' # "races" /\ [Next]_vars
    BY DEF ModesNext, modes
  <2>2. TypeOK' /\ InHand' /\ AloneInv'
    BY <2>1, NextTypes, InHandStep, AloneStep
  <2> QED
    BY <2>1, <2>2, AloneImplements
<1> QED
  BY <1>1, <1>2, PTL DEF ModesSpec, AloneIsMailbox
=============================================================================
