-------------------------- MODULE TerminalSideProofs ---------------------------
(* Proofs about TerminalLifecycle.  No window is orphaned and no session inherits  *)
(* the environment of an earlier one, for any number of calls, threads and faults, *)
(* also when sessions are recycled and deleted while others use them.  Where they  *)
(* are not, a terminal is whole or gone, and a caller is told of its worker.  In    *)
(* sections of their own, proofs about PaneInput: a call reaches the window it      *)
(* names, and what it answers of it is so.                                         *)
EXTENDS TerminalSide, SequenceTheorems, TLAPS

\* Past "made" a call has written its row, or will never do it.
Written(t) == call[t].pc \notin {"unused", "made"}

\* The kill is over.
Killed(t) == t \notin windows \/ t \in left \/ t \notin rows

DelOK(d) ==
    /\ \A t \in del[d].todo : Written(t)
    /\ del[d].on \in Calls => Written(del[d].on)
    /\ del[d].pc = "row" /\ del[d].on \in Calls => Killed(del[d].on)

\* A window without a row is excused, or its call still holds it.
WindowOK(t) ==
    /\ call[t].pc # "unused"
    /\ t \in rows \/ t \in left \/ call[t].pc \in {"made", "rollback"}

EnvOK == \A n \in Names : env[n] \in {NoCall, founder[n]}

Inv ==
    /\ TypeOK
    /\ \A t \in windows : WindowOK(t)
    /\ \A t \in rows : Written(t)
    /\ \A d \in Deleting : DelOK(d)
    /\ EnvOK

USE LifecycleAssumption

LEMMA DeletionType == NoDeletion \in DelType
BY DEF NoDeletion, DelType

LEMMA InitInv == Init => Inv
<1> SUFFICES ASSUME Init PROVE Inv
  OBVIOUS
<1> USE DEF Init
<1>1. TypeOK
  <2>1. (CHOOSE n \in Names : TRUE) \in Names
    OBVIOUS
  <2>2. home \in [Calls -> Names]
    BY <2>1
  <2>3. founder \in [Names -> Calls \cup {NoCall}]
    BY Zenon
  <2>4. env \in [Names -> Calls \cup {NoCall}]
    BY <2>3
  <2>5. call \in [Calls -> CallType]
    BY DEF CallType, AllKinds
  <2> QED
    BY <2>2, <2>3, <2>4, <2>5, DeletionType DEF TypeOK
<1>2. \A t \in windows : WindowOK(t)
  BY DEF WindowOK
<1>3. \A t \in rows : Written(t)
  BY DEF Written
<1>4. \A d \in Deleting : DelOK(d)
  BY DEF DelOK, Written, NoDeletion
<1>5. EnvOK
  BY DEF EnvOK
<1> QED BY <1>1, <1>2, <1>3, <1>4, <1>5 DEF Inv

-----------------------------------------------------------------------------
(* What the operators the actions are built from do.                            *)

LEMMA FaultCounts ==
    ASSUME NEW k, faults \in 0..MaxFaults, Fault(k)
    PROVE  faults' \in 0..MaxFaults
BY DEF Fault

LEMMA GoToEffect ==
    ASSUME TypeOK, NEW c \in Calls, NEW p \in {"written", "init", "rollback", "deferred",
       "sending", "notify", "deleting",
                     "ready", "failed", "gone"},
           GoTo(c, p)
    PROVE  /\ call' \in [Calls -> CallType]
           /\ call'[c].pc = p /\ call'[c].kind = call[c].kind
           /\ \A x \in Calls \ {c} : call'[x] = call[x]
BY DEF TypeOK, GoTo, CallType, Active

LEMMA BeginEffect ==
    ASSUME TypeOK, NEW c \in Calls, NEW k \in AllKinds, NEW n \in Names,
           NEW p \in {"made", "failed"}, Begin(c, k, n, p)
    PROVE  /\ call' \in [Calls -> CallType]
           /\ call[c].pc = "unused" /\ call'[c].pc = p
           /\ \A x \in Calls \ {c} : call'[x] = call[x]
           /\ home' \in [Calls -> Names]
           /\ home'[c] = n /\ \A x \in Calls \ {c} : home'[x] = home[x]
           /\ loop' = IF p = "made" THEN c ELSE NoCall
           /\ UNCHANGED <<del, told, restoring, sweeping, aged, deleted, left, faults>>
BY DEF TypeOK, Begin, CallType, Active, startup, history

LEMMA MakeSessionType ==
    ASSUME TypeOK, NEW c \in Calls, NEW n \in Names, NEW f \in Calls \cup {NoCall},
           MakeSession(c, n, f)
    PROVE  /\ env' \in [Names -> Calls \cup {NoCall}]
           /\ founder' \in [Names -> Calls \cup {NoCall}]
BY DEF TypeOK, MakeSession, Stored

LEMMA DeleteEffect ==
    ASSUME TypeOK, NEW d \in Deleting, NEW r \in DelType, Delete(d, r)
    PROVE  /\ del' \in [Deleting -> DelType] /\ del'[d] = r
           /\ \A e \in Deleting \ {d} : del'[e] = del[e]
BY DEF TypeOK, Delete

-----------------------------------------------------------------------------
(* Steps.                                                                       *)

LEMMA NextRecord ==
    ASSUME NEW r \in DelType, NEW T \in SUBSET Calls
    PROVE  /\ [r EXCEPT !.pc = "next", !.todo = T] \in DelType
           /\ [r EXCEPT !.pc = "next", !.on = NoCall] \in DelType
BY DEF DelType

LEMMA DeletionRecords ==
    ASSUME TypeOK, NEW d \in Deleting
    PROVE  /\ [del[d] EXCEPT !.pc = "next", !.todo = list_terminals_by_session(del[d].name)]
                  \in DelType
           /\ del[d].pc = "stop" => [del[d] EXCEPT !.pc = "kill"] \in DelType
           /\ del[d].pc = "kill" => [del[d] EXCEPT !.pc = "row"] \in DelType
           /\ [del[d] EXCEPT !.pc = "next", !.on = NoCall] \in DelType
           /\ [del[d] EXCEPT !.pc = "env"] \in DelType
<1>1. del[d] \in DelType /\ list_terminals_by_session(del[d].name) \in SUBSET Calls
  BY DEF TypeOK, list_terminals_by_session, Of
<1>2. /\ del[d].pc = "stop" => [del[d] EXCEPT !.pc = "kill"] \in DelType
      /\ del[d].pc = "kill" => [del[d] EXCEPT !.pc = "row"] \in DelType
      /\ [del[d] EXCEPT !.pc = "env"] \in DelType
  BY <1>1 DEF DelType
<1> QED BY <1>1, <1>2, NextRecord

LEMMA ReadRecord ==
    ASSUME NEW r \in DelType, NEW t \in Calls, NEW p \in {"stop", "row"}
    PROVE  [r EXCEPT !.pc = p, !.on = t, !.todo = @ \ {t}] \in DelType
BY DEF DelType

LEMMA ReadRec ==
    ASSUME TypeOK, NEW d \in Deleting, ReadMetadata(d)
    PROVE  \E r \in DelType :
              /\ Delete(d, r)
              /\ r.todo \subseteq del[d].todo
              /\ r.on \in Calls => r.on \in del[d].todo \/ r.on = del[d].on
              /\ r.pc = "row" => r.on \notin rows
<1> USE DEF TypeOK, DelType
<1>1. CASE del[d].todo = {} /\ Delete(d, IF del[d].whole THEN [del[d] EXCEPT !.pc =
   "session"] ELSE NoDeletion)
  <2>1. [del[d] EXCEPT !.pc = "session"] \in DelType
    OBVIOUS
  <2> QED BY <1>1, <2>1, DeletionType DEF NoDeletion
<1>2. ASSUME NEW t \in del[d].todo,
             Delete(d, [del[d] EXCEPT !.pc = IF t \in rows THEN "stop" ELSE "row",
                                      !.on = t, !.todo = @ \ {t}])
      PROVE  \E r \in DelType :
              /\ Delete(d, r)
              /\ r.todo \subseteq del[d].todo
              /\ r.on \in Calls => r.on \in del[d].todo \/ r.on = del[d].on
              /\ r.pc = "row" => r.on \notin rows
  <2> DEFINE r == [del[d] EXCEPT !.pc = IF t \in rows THEN "stop" ELSE "row",
                                 !.on = t, !.todo = @ \ {t}]
  <2>1. /\ r \in DelType /\ r.on = t /\ r.todo = del[d].todo \ {t}
        /\ r.pc = IF t \in rows THEN "stop" ELSE "row"
    <3>1. t \in Calls /\ del[d].todo \ {t} \subseteq Calls
      OBVIOUS
    <3>2. /\ r.on = t /\ r.todo = del[d].todo \ {t}
          /\ r.pc = IF t \in rows THEN "stop" ELSE "row"
      OBVIOUS
    <3>3. r \in DelType
      BY <1>2, <3>1, ReadRecord
    <3> QED BY <3>2, <3>3
  <2>2. Delete(d, r)
    BY <1>2
  <2> HIDE DEF r
  <2> QED BY <2>1, <2>2
<1> QED BY <1>1, <1>2 DEF ReadMetadata

LEMMA DelOKKept ==
    ASSUME Inv, NEW e \in Deleting, del'[e] = del[e],
           \A t \in Calls : Written(t) => Written(t)',
           \A t \in Calls : Written(t) /\ Killed(t) => Killed(t)'
    PROVE  DelOK(e)'
<1>1. del[e].todo \subseteq Calls /\ del[e].on \in Calls \cup {NoCall}
  BY DEF Inv, TypeOK, DelType
<1>2. (del[e].on \in Calls)' <=> del[e].on \in Calls
  OBVIOUS
<1> QED
  BY <1>1, <1>2 DEF Inv, DelOK, Written, Killed

LEMMA StepType == TypeOK /\ [Next]_vars => TypeOK'
<1> SUFFICES ASSUME TypeOK, [Next]_vars PROVE TypeOK'
  OBVIOUS
<1> USE DeletionType DEF AllKinds, Active, Deleting, DelType, CallType
<1>1. ASSUME NEW c \in Calls, NEW n \in Names, CreateSession(c, n) PROVE TypeOK'
  <2>1. PICK p \in {"made", "failed"} : Begin(c, "session", n, p)
    BY <1>1 DEF CreateSession
  <2>2. /\ call' \in [Calls -> CallType] /\ home' \in [Calls -> Names]
        /\ loop' \in Calls \cup {NoCall}
        /\ loop' # NoCall => call'[loop'].pc \in {"made", "written", "rollback"}
    BY <2>1, BeginEffect
  <2>3. windows' \subseteq Calls /\ rows' \subseteq Calls /\ readers' \subseteq Calls /\
     provs' \subseteq Calls
    BY <1>1 DEF TypeOK, CreateSession, Refuse, made, MakeSession
  <2>4. env' \in [Names -> Calls \cup {NoCall}] /\ founder' \in [Names -> Calls \cup
     {NoCall}]
    <3>1. CASE Refuse
      BY <3>1 DEF TypeOK, Refuse
    <3>2. ASSUME NEW f \in {c, NoCall}, MakeSession(c, n, f)
          PROVE  env' \in [Names -> Calls \cup {NoCall}] /\ founder' \in [Names -> Calls
             \cup {NoCall}]
      <4> f \in Calls \cup {NoCall}
        OBVIOUS
      <4> QED BY <3>2, MakeSessionType
    <3> QED BY <1>1, <3>1, <3>2 DEF CreateSession
  <2> QED
    BY <2>1, <2>2, <2>3, <2>4, BeginEffect DEF TypeOK
<1>2. ASSUME NEW c \in Calls, NEW n \in Names, ExecuteFlow(c, n) PROVE TypeOK'
  <2>1. PICK p \in {"made", "failed"} : Begin(c, "flow", n, p)
    BY <1>2 DEF ExecuteFlow
  <2>2. /\ call' \in [Calls -> CallType] /\ home' \in [Calls -> Names]
        /\ loop' \in Calls \cup {NoCall}
        /\ loop' # NoCall => call'[loop'].pc \in {"made", "written", "rollback"}
    BY <2>1, BeginEffect
  <2>3. windows' \subseteq Calls /\ rows' \subseteq Calls /\ readers' \subseteq Calls /\
     provs' \subseteq Calls
    BY <1>2 DEF TypeOK, ExecuteFlow, Refuse, made, MakeSession
  <2>4. env' \in [Names -> Calls \cup {NoCall}] /\ founder' \in [Names -> Calls \cup
     {NoCall}]
    <3>1. CASE Refuse
      BY <3>1 DEF TypeOK, Refuse
    <3>2. CASE MakeSession(c, n, NoCall)
      BY <3>2, MakeSessionType
    <3> QED BY <1>2, <3>1, <3>2 DEF ExecuteFlow
  <2> QED
    BY <2>1, <2>2, <2>3, <2>4, BeginEffect DEF TypeOK
<1>3. ASSUME NEW c \in Calls, NEW n \in Names, NEW kind \in {"join", "assign"},
   JoinSession(c, n, kind) PROVE TypeOK'
  BY <1>3, FaultCounts, BeginEffect DEF TypeOK, JoinSession, startup, history, Refuse,
     made, session_exists, Of, Free
<1>4. ASSUME NEW c \in Calls, WriteRow(c) PROVE TypeOK'
  BY <1>4, FaultCounts, GoToEffect DEF TypeOK, WriteRow, InCall, session, startup, history,
     At
<1>5. ASSUME NEW c \in Calls, StartReader(c) PROVE TypeOK'
  BY <1>5, FaultCounts, GoToEffect DEF TypeOK, StartReader, InCall, session, startup,
     history, At
<1>6. ASSUME NEW c \in Calls, Initialized(c) PROVE TypeOK'
  BY <1>6, FaultCounts, GoToEffect DEF TypeOK, Initialized, InCall, made, session, startup,
     history, At, Free
<1>7. ASSUME NEW c \in Calls, InitRaises(c) PROVE TypeOK'
  BY <1>7, FaultCounts, GoToEffect DEF TypeOK, InitRaises, InCall, made, session, startup,
     history, At, Free
<1>8. ASSUME NEW c \in Calls, Rollback(c) PROVE TypeOK'
  BY <1>8, FaultCounts, GoToEffect DEF TypeOK, Rollback, RolledBack, Forgotten, startup,
     Of, At
<1>9. ASSUME NEW c \in Calls, SendInput(c) PROVE TypeOK'
  <2>1. told' \subseteq Calls \X {"sent", "failed"}
    BY <1>9 DEF TypeOK, SendInput, Notice
  <2>2. call' \in [Calls -> CallType] /\ (loop # NoCall => loop # c)
    BY <1>9, GoToEffect DEF SendInput, TypeOK, At
  <2>3. faults' \in 0..MaxFaults
    BY <1>9, FaultCounts DEF SendInput, TypeOK
  <2> QED
    BY <1>9, <2>1, <2>2, <2>3, GoToEffect
       DEF TypeOK, SendInput, InTask, session, startup, history
<1>10. ASSUME NEW c \in Calls, NotifyCaller(c) PROVE TypeOK'
  <2>1. [NoDeletion EXCEPT !.pc = "next", !.todo = {c}, !.name = home[c]] \in DelType
    BY ZenonT(60), <1>10 DEF TypeOK, NoDeletion
  <2>2. del' \in [Deleting -> DelType]
    BY <1>10, <2>1 DEF TypeOK, NotifyCaller
  <2>3. call' \in [Calls -> CallType]
    BY <1>10, GoToEffect DEF NotifyCaller
  <2>4. told' \subseteq Calls \X {"sent", "failed"}
    BY <1>10 DEF TypeOK, NotifyCaller, Notice
  <2>5. loop # NoCall => loop # c
    BY <1>10 DEF TypeOK, NotifyCaller, At
  <2> QED
    BY <1>10, <2>2, <2>3, <2>4, <2>5, GoToEffect
       DEF TypeOK, NotifyCaller, InTask, session, startup, history
<1>11. ASSUME NEW c \in Calls, WorkerDeleted(c) PROVE TypeOK'
  BY SMTT(30), <1>11, FaultCounts, GoToEffect DEF TypeOK, WorkerDeleted, InTask, session, startup,
     history, At
<1>12. ASSUME NEW c \in Calls, Use(c) PROVE TypeOK'
  BY <1>12, FaultCounts DEF TypeOK, Use, Outside, made, history
<1>13. ASSUME NEW c \in Calls, CloseWindow(c) PROVE TypeOK'
  BY <1>13, FaultCounts DEF TypeOK, CloseWindow, Outside, startup
<1>14. ASSUME NEW c \in Calls, RestoreMonitor(c) PROVE TypeOK'
  BY <1>14, FaultCounts DEF TypeOK, RestoreMonitor, Outside, history
<1>15. ASSUME NEW d \in Threads, NEW t \in Calls, RequestTerminal(d, t) PROVE TypeOK'
  <2>1. [NoDeletion EXCEPT !.pc = "next", !.todo = {t}, !.name = home[t]] \in DelType
    BY <1>15 DEF TypeOK, RequestTerminal, session_exists
  <2>2. del' \in [Deleting -> DelType]
    BY <1>15, <2>1, DeleteEffect DEF RequestTerminal
  <2> QED
    BY <1>15, <2>2, FaultCounts DEF TypeOK, RequestTerminal, InThread, startup, made,
       Unready, Free
<1>16. ASSUME NEW d \in Threads, NEW n \in Names, RequestSession(d, n) PROVE TypeOK'
  <2>1. [NoDeletion EXCEPT !.pc = "list", !.name = n, !.whole = TRUE,
                                    !.alive = session_exists(n)] \in DelType
    BY <1>16 DEF TypeOK, RequestSession, session_exists
  <2>2. del' \in [Deleting -> DelType]
    BY <1>16, <2>1, DeleteEffect DEF RequestSession
  <2> QED
    BY <1>16, <2>2, FaultCounts DEF TypeOK, RequestSession, InThread, startup, history,
       made, Free
<1>17. ASSUME NEW d \in Deleting, ListTerminals(d) PROVE TypeOK'
  <2>1. [del[d] EXCEPT !.pc = "next", !.todo = list_terminals_by_session(del[d].name)] \in
     DelType
    BY <1>17, DeletionRecords DEF ListTerminals
  <2>2. del' \in [Deleting -> DelType]
    BY <1>17, <2>1, DeleteEffect DEF ListTerminals
  <2> QED
    BY <1>17, <2>2, FaultCounts DEF TypeOK, ListTerminals, InThread, startup, history,
       made, list_terminals_by_session, Of, Unready
<1>18. ASSUME NEW d \in Deleting, ReadMetadata(d) PROVE TypeOK'
  <2>1. PICK r \in DelType : Delete(d, r)
    BY <1>18, ReadRec DEF TypeOK, ReadMetadata
  <2>2. del' \in [Deleting -> DelType]
    BY <2>1, DeleteEffect
  <2> QED
    BY <1>18, <2>2 DEF TypeOK, ReadMetadata, InThread, startup, history, made
<1>19. ASSUME NEW d \in Deleting, StopReader(d) PROVE TypeOK'
  <2>1. [del[d] EXCEPT !.pc = "kill"] \in DelType
    BY <1>19, DeletionRecords DEF StopReader
  <2>2. del' \in [Deleting -> DelType]
    BY <1>19, <2>1, DeleteEffect DEF StopReader
  <2> QED
    BY <1>19, <2>2, FaultCounts DEF TypeOK, StopReader, InThread, startup, history, made
<1>20. ASSUME NEW d \in Deleting, KillWindow(d) PROVE TypeOK'
  <2>1. [del[d] EXCEPT !.pc = "row"] \in DelType
    BY <1>20, DeletionRecords DEF KillWindow
  <2>2. del' \in [Deleting -> DelType]
    BY <1>20, <2>1, DeleteEffect DEF KillWindow
  <2>3. windows' \subseteq Calls /\ left' \subseteq Calls
    <3>1. CASE windows' = windows \ {del[d].on} /\ UNCHANGED <<left, faults>>
      BY <3>1 DEF TypeOK
    <3>2. CASE left' = left \cup {del[d].on} /\ UNCHANGED windows
      <4> del[d].on \in Calls
        BY <1>20 DEF TypeOK, KillWindow
      <4> QED BY <3>2 DEF TypeOK
    <3> QED BY <1>20, <3>1, <3>2 DEF KillWindow
  <2> QED
    BY <1>20, <2>2, <2>3, FaultCounts DEF TypeOK, KillWindow, InThread, startup, history,
       made
<1>21. ASSUME NEW d \in Deleting, DeleteRow(d) PROVE TypeOK'
  <2>1. [del[d] EXCEPT !.pc = "next", !.on = NoCall] \in DelType
    BY <1>21, DeletionRecords DEF DeleteRow
  <2>2. del' \in [Deleting -> DelType]
    BY <1>21, <2>1, DeleteEffect DEF DeleteRow
  <2> QED
    BY <1>21, <2>2, FaultCounts DEF TypeOK, DeleteRow, InThread, startup, history, made
<1>22. ASSUME NEW d \in Deleting, KillSession(d) PROVE TypeOK'
  <2>1. [del[d] EXCEPT !.pc = "env"] \in DelType
    BY <1>22, DeletionRecords DEF KillSession
  <2>2. del' \in [Deleting -> DelType]
    BY <1>22, <2>1, DeleteEffect DEF KillSession
  <2> QED
    BY <1>22, <2>2, FaultCounts DEF TypeOK, KillSession, InThread, startup, history, made,
       Of
<1>23. ASSUME NEW d \in Deleting, ClearSessionEnv(d) PROVE TypeOK'
  <2>1. NoDeletion \in DelType
    BY <1>23 DEF TypeOK, ClearSessionEnv, session_exists
  <2>2. del' \in [Deleting -> DelType]
    BY <1>23, <2>1, DeleteEffect DEF ClearSessionEnv
  <2> QED
    BY <1>23, <2>2, FaultCounts DEF TypeOK, ClearSessionEnv, InThread, startup, history,
       made
<1>24. ASSUME SweepRows PROVE TypeOK'
  BY <1>24, FaultCounts DEF TypeOK, SweepRows, Outside
<1>25. ASSUME NEW t \in Calls, SweepReader(t) PROVE TypeOK'
  BY <1>25, FaultCounts DEF TypeOK, SweepReader, Outside
<1>26. ASSUME Crash PROVE TypeOK'
  <2>1. call' \in [Calls -> CallType]
    BY <1>26 DEF TypeOK, Crash
  <2>2. del' \in [Deleting -> DelType]
    BY <1>26 DEF TypeOK, Crash
  <2>3. aged' \subseteq Calls /\ sweeping' \subseteq Calls /\ restoring' \subseteq Calls
    BY <1>26 DEF TypeOK, Crash
  <2>4. left' \subseteq Calls
    BY <1>26 DEF TypeOK, Crash
  <2>5. env' \in [Names -> Calls \cup {NoCall}]
    BY <1>26 DEF Crash
  <2> QED
    BY <1>26, <2>1, <2>2, <2>3, <2>4, <2>5, FaultCounts DEF TypeOK, Crash, Outside
<1>90. CASE UNCHANGED vars
  BY <1>90 DEF TypeOK, vars
<1> QED
  BY <1>1, <1>2, <1>3, <1>4, <1>5, <1>6, <1>7, <1>8, <1>9, <1>10, <1>11, <1>12, <1>13,
     <1>14, <1>15, <1>16, <1>17, <1>18, <1>19, <1>20, <1>21, <1>22, <1>23, <1>24, <1>25,
     <1>26, <1>90
     DEF Next, Start, Step, Deletion, Sweep

LEMMA StepInv == Inv /\ [Next]_vars => Inv'
<1> SUFFICES ASSUME Inv, [Next]_vars PROVE Inv'
  OBVIOUS
<1>t. TypeOK /\ TypeOK'
  BY StepType DEF Inv
<1> USE <1>t DEF Inv, Deleting, Active, AllKinds
<1>1. ASSUME NEW c \in Calls, NEW n \in Names, CreateSession(c, n) PROVE Inv'
  <2>1. \A w \in windows' : WindowOK(w)'
    BY <1>1, BeginEffect DEF TypeOK, WindowOK, DelOK, Written, Killed, CreateSession,
       startup, history, Refuse, made, MakeSession, Stored, session_exists, Of, Free
  <2>2. \A r \in rows' : Written(r)'
    BY <1>1, BeginEffect DEF TypeOK, Written, CreateSession, startup, history, Refuse,
       made, MakeSession, Stored, session_exists, Of, Free
  <2>3. \A t \in Calls : (Written(t) => Written(t)') /\ (Written(t) /\ Killed(t) =>
     Killed(t)')
    BY <1>1, BeginEffect DEF TypeOK, Written, Killed, DelOK, CreateSession, startup,
       history, Refuse, made, MakeSession, Stored, session_exists, Of, Free
  <2>6. del' = del
    BY <1>1, BeginEffect DEF CreateSession, startup, history, Refuse, made, MakeSession,
       Stored, session_exists, Of, Free
  <2>7. \A e \in Deleting : DelOK(e)'
    BY <2>3, <2>6, DelOKKept
  <2>8. EnvOK'
    BY <1>1, BeginEffect DEF TypeOK, EnvOK, CreateSession, startup, history, Refuse, made,
       MakeSession, Stored, session_exists, Of, Free
  <2> QED BY <2>1, <2>2, <2>7, <2>8
<1>2. ASSUME NEW c \in Calls, NEW n \in Names, ExecuteFlow(c, n) PROVE Inv'
  <2>1. \A w \in windows' : WindowOK(w)'
    BY <1>2, BeginEffect DEF TypeOK, WindowOK, DelOK, Written, Killed, ExecuteFlow,
       startup, history, Refuse, made, MakeSession, Stored, session_exists,
       list_terminals_by_session, Of, Free
  <2>2. \A r \in rows' : Written(r)'
    BY <1>2, BeginEffect DEF TypeOK, Written, ExecuteFlow, startup, history, Refuse, made,
       MakeSession, Stored, session_exists, list_terminals_by_session, Of, Free
  <2>3. \A t \in Calls : (Written(t) => Written(t)') /\ (Written(t) /\ Killed(t) =>
     Killed(t)')
    BY <1>2, BeginEffect DEF TypeOK, Written, Killed, DelOK, ExecuteFlow, startup, history,
       Refuse, made, MakeSession, Stored, session_exists, list_terminals_by_session, Of,
       Free
  <2>6. del' = del
    BY <1>2, BeginEffect DEF ExecuteFlow, startup, history, Refuse, made, MakeSession,
       Stored, session_exists, list_terminals_by_session, Of, Free
  <2>7. \A e \in Deleting : DelOK(e)'
    BY <2>3, <2>6, DelOKKept
  <2>8. EnvOK'
    BY <1>2, BeginEffect DEF TypeOK, EnvOK, ExecuteFlow, startup, history, Refuse, made,
       MakeSession, Stored, session_exists, list_terminals_by_session, Of, Free
  <2> QED BY <2>1, <2>2, <2>7, <2>8
<1>3. ASSUME NEW c \in Calls, NEW n \in Names, NEW kind \in {"join", "assign"},
   JoinSession(c, n, kind) PROVE Inv'
  <2>1. \A w \in windows' : WindowOK(w)'
    BY <1>3, BeginEffect DEF TypeOK, WindowOK, DelOK, Written, Killed, JoinSession,
       startup, history, Refuse, made, session_exists, Of, Free
  <2>2. \A r \in rows' : Written(r)'
    BY <1>3, BeginEffect DEF TypeOK, Written, JoinSession, startup, history, Refuse, made,
       session_exists, Of, Free
  <2>3. \A t \in Calls : (Written(t) => Written(t)') /\ (Written(t) /\ Killed(t) =>
     Killed(t)')
    BY SMTT(30), <1>3, BeginEffect DEF TypeOK, Written, Killed, DelOK, JoinSession, startup, history,
       Refuse, made, session_exists, Of, Free
  <2>6. del' = del
    BY <1>3, BeginEffect DEF JoinSession, startup, history, Refuse, made, session_exists,
       Of, Free
  <2>7. \A e \in Deleting : DelOK(e)'
    BY <2>3, <2>6, DelOKKept
  <2>8. EnvOK'
    BY <1>3, BeginEffect DEF TypeOK, EnvOK, JoinSession, startup, history, Refuse, made,
       session_exists, Of, Free
  <2> QED BY <2>1, <2>2, <2>7, <2>8
<1>4. ASSUME NEW c \in Calls, WriteRow(c) PROVE Inv'
  <2>1. \A w \in windows' : WindowOK(w)'
    BY <1>4, GoToEffect DEF TypeOK, WindowOK, DelOK, Written, Killed, WriteRow, InCall,
       session, startup, history, At
  <2>2. \A r \in rows' : Written(r)'
    BY <1>4, GoToEffect DEF TypeOK, Written, WriteRow, InCall, session, startup, history, At
  <2>3. \A t \in Calls : (Written(t) => Written(t)') /\ (Written(t) /\ Killed(t) =>
     Killed(t)')
    BY <1>4, GoToEffect DEF TypeOK, Written, Killed, DelOK, WriteRow, InCall, session,
       startup, history, At
  <2>6. del' = del
    BY <1>4, GoToEffect DEF WriteRow, InCall, session, startup, history, At
  <2>7. \A e \in Deleting : DelOK(e)'
    BY <2>3, <2>6, DelOKKept
  <2>8. EnvOK'
    BY <1>4, GoToEffect DEF TypeOK, EnvOK, WriteRow, InCall, session, startup, history, At
  <2> QED BY <2>1, <2>2, <2>7, <2>8
<1>5. ASSUME NEW c \in Calls, StartReader(c) PROVE Inv'
  <2>1. \A w \in windows' : WindowOK(w)'
    BY <1>5, GoToEffect DEF TypeOK, WindowOK, DelOK, Written, Killed, StartReader, InCall,
       session, startup, history, At
  <2>2. \A r \in rows' : Written(r)'
    BY <1>5, GoToEffect DEF TypeOK, Written, StartReader, InCall, session, startup,
       history, At
  <2>3. \A t \in Calls : (Written(t) => Written(t)') /\ (Written(t) /\ Killed(t) =>
     Killed(t)')
    BY <1>5, GoToEffect DEF TypeOK, Written, Killed, DelOK, StartReader, InCall, session,
       startup, history, At
  <2>6. del' = del
    BY <1>5, GoToEffect DEF StartReader, InCall, session, startup, history, At
  <2>7. \A e \in Deleting : DelOK(e)'
    BY <2>3, <2>6, DelOKKept
  <2>8. EnvOK'
    BY <1>5, GoToEffect DEF TypeOK, EnvOK, StartReader, InCall, session, startup, history,
       At
  <2> QED BY <2>1, <2>2, <2>7, <2>8
<1>6. ASSUME NEW c \in Calls, Initialized(c) PROVE Inv'
  <2>1. \A w \in windows' : WindowOK(w)'
    BY <1>6, GoToEffect DEF TypeOK, WindowOK, DelOK, Written, Killed, Initialized, InCall,
       made, session, startup, history, At, Free
  <2>2. \A r \in rows' : Written(r)'
    BY <1>6, GoToEffect DEF TypeOK, Written, Initialized, InCall, made, session, startup,
       history, At, Free
  <2>3. \A t \in Calls : (Written(t) => Written(t)') /\ (Written(t) /\ Killed(t) =>
     Killed(t)')
    BY <1>6, GoToEffect DEF TypeOK, Written, Killed, DelOK, Initialized, InCall, made,
       session, startup, history, At, Free
  <2>6. del' = del
    BY <1>6, GoToEffect DEF Initialized, InCall, made, session, startup, history, At, Free
  <2>7. \A e \in Deleting : DelOK(e)'
    BY <2>3, <2>6, DelOKKept
  <2>8. EnvOK'
    BY <1>6, GoToEffect DEF TypeOK, EnvOK, Initialized, InCall, made, session, startup,
       history, At, Free
  <2> QED BY <2>1, <2>2, <2>7, <2>8
<1>7. ASSUME NEW c \in Calls, InitRaises(c) PROVE Inv'
  <2>1. \A w \in windows' : WindowOK(w)'
    BY <1>7, GoToEffect DEF TypeOK, WindowOK, DelOK, Written, Killed, InitRaises, InCall,
       made, session, startup, history, At, Free
  <2>2. \A r \in rows' : Written(r)'
    BY <1>7, GoToEffect DEF TypeOK, Written, InitRaises, InCall, made, session, startup,
       history, At, Free
  <2>3. \A t \in Calls : (Written(t) => Written(t)') /\ (Written(t) /\ Killed(t) =>
     Killed(t)')
    BY <1>7, GoToEffect DEF TypeOK, Written, Killed, DelOK, InitRaises, InCall, made,
       session, startup, history, At, Free
  <2>6. del' = del
    BY <1>7, GoToEffect DEF InitRaises, InCall, made, session, startup, history, At, Free
  <2>7. \A e \in Deleting : DelOK(e)'
    BY <2>3, <2>6, DelOKKept
  <2>8. EnvOK'
    BY <1>7, GoToEffect DEF TypeOK, EnvOK, InitRaises, InCall, made, session, startup,
       history, At, Free
  <2> QED BY <2>1, <2>2, <2>7, <2>8
<1>8. ASSUME NEW c \in Calls, Rollback(c) PROVE Inv'
  <2>1. \A w \in windows' : WindowOK(w)'
    BY <1>8, GoToEffect DEF TypeOK, WindowOK, DelOK, Written, Killed, Rollback, RolledBack,
       Forgotten, startup, Of, At
  <2>2. \A r \in rows' : Written(r)'
    BY <1>8, GoToEffect DEF TypeOK, Written, Rollback, RolledBack, Forgotten, startup, Of,
       At
  <2>3. \A t \in Calls : (Written(t) => Written(t)') /\ (Written(t) /\ Killed(t) =>
     Killed(t)')
    BY <1>8, GoToEffect DEF TypeOK, Written, Killed, DelOK, Rollback, RolledBack,
       Forgotten, startup, Of, At
  <2>6. del' = del
    BY <1>8, GoToEffect DEF Rollback, RolledBack, Forgotten, startup, Of, At
  <2>7. \A e \in Deleting : DelOK(e)'
    BY <2>3, <2>6, DelOKKept
  <2>8. EnvOK'
    BY <1>8, GoToEffect DEF TypeOK, EnvOK, Rollback, RolledBack, Forgotten, startup, Of, At
  <2> QED BY <2>1, <2>2, <2>7, <2>8
<1>9. ASSUME NEW c \in Calls, SendInput(c) PROVE Inv'
  <2>1. \A w \in windows' : WindowOK(w)'
    BY <1>9, GoToEffect DEF TypeOK, WindowOK, DelOK, Written, Killed, SendInput, InTask,
       session, startup, history, Notice, At
  <2>2. \A r \in rows' : Written(r)'
    BY <1>9, GoToEffect DEF TypeOK, Written, SendInput, InTask, session, startup, history,
       Notice, At
  <2>3. \A t \in Calls : (Written(t) => Written(t)') /\ (Written(t) /\ Killed(t) =>
     Killed(t)')
    BY <1>9, GoToEffect DEF TypeOK, Written, Killed, DelOK, SendInput, InTask, session,
       startup, history, Notice, At
  <2>6. del' = del
    BY <1>9, GoToEffect DEF SendInput, InTask, session, startup, history, Notice, At
  <2>7. \A e \in Deleting : DelOK(e)'
    BY <2>3, <2>6, DelOKKept
  <2>8. EnvOK'
    BY <1>9, GoToEffect DEF TypeOK, EnvOK, SendInput, InTask, session, startup, history,
       Notice, At
  <2> QED BY <2>1, <2>2, <2>7, <2>8
<1>10. ASSUME NEW c \in Calls, NotifyCaller(c) PROVE Inv'
  <2>1. \A w \in windows' : WindowOK(w)'
    BY SMTT(30), <1>10, GoToEffect, DeletionType DEF DelType, TypeOK, WindowOK, DelOK, Written,
       Killed, NotifyCaller, InTask, session, startup, history, Notice, At
  <2>2. \A r \in rows' : Written(r)'
    BY <1>10, GoToEffect, DeletionType DEF DelType, TypeOK, Written, NotifyCaller, InTask,
       session, startup, history, Notice, At
  <2>3. \A t \in Calls : (Written(t) => Written(t)') /\ (Written(t) /\ Killed(t) =>
     Killed(t)')
    BY <1>10, GoToEffect, DeletionType DEF DelType, TypeOK, Written, Killed, DelOK,
       NotifyCaller, InTask, session, startup, history, Notice, At
  <2>3a. [NoDeletion EXCEPT !.pc = "next", !.todo = {c}, !.name = home[c]] \in DelType
    BY <1>10, DeletionType DEF DelType, TypeOK, NotifyCaller, session_exists
  <2>4. PICK r \in DelType :
          /\ r = [NoDeletion EXCEPT !.pc = "next", !.todo = {c}, !.name = home[c]]
          /\ r.pc = "next" /\ r.on = NoCall /\ r.todo = {c}
    BY <1>10, <2>3a DEF DelType, NoDeletion, TypeOK
  <2>5. del'[c] = r /\ \A e \in Deleting \ {c} : del'[e] = del[e]
    BY <1>10, <2>4 DEF TypeOK, NotifyCaller
  <2>6. DelOK(c)'
    <3> USE <2>4 DEF TypeOK, DelType
    <3>1. \A t \in r.todo : Written(t)'
      BY <1>10, <2>3 DEF DelOK, Written, NotifyCaller, list_terminals_by_session, Of, At
    <3>2. r.on \in Calls => Written(r.on)'
      BY <1>10, <2>3 DEF DelOK
    <3>3. r.pc = "row" /\ r.on \in Calls => Killed(r.on)'
      BY <1>10, <2>3 DEF DelOK, Killed, NotifyCaller
    <3> QED BY <2>5, <3>1, <3>2, <3>3 DEF DelOK
  <2>7. \A e \in Deleting : DelOK(e)'
    BY <2>3, <2>5, <2>6, DelOKKept
  <2>8. EnvOK'
    BY <1>10, GoToEffect, DeletionType DEF DelType, TypeOK, EnvOK, NotifyCaller, InTask,
       session, startup, history, Notice, At
  <2> QED BY <2>1, <2>2, <2>7, <2>8
<1>11. ASSUME NEW c \in Calls, WorkerDeleted(c) PROVE Inv'
  <2>1. \A w \in windows' : WindowOK(w)'
    BY <1>11, GoToEffect DEF TypeOK, WindowOK, DelOK, Written, Killed, WorkerDeleted,
       InTask, session, startup, history, At
  <2>2. \A r \in rows' : Written(r)'
    BY <1>11, GoToEffect DEF TypeOK, Written, WorkerDeleted, InTask, session, startup,
       history, At
  <2>3. \A t \in Calls : (Written(t) => Written(t)') /\ (Written(t) /\ Killed(t) =>
     Killed(t)')
    BY <1>11, GoToEffect DEF TypeOK, Written, Killed, DelOK, WorkerDeleted, InTask,
       session, startup, history, At
  <2>6. del' = del
    BY <1>11, GoToEffect DEF WorkerDeleted, InTask, session, startup, history, At
  <2>7. \A e \in Deleting : DelOK(e)'
    BY <2>3, <2>6, DelOKKept
  <2>8. EnvOK'
    BY <1>11, GoToEffect DEF TypeOK, EnvOK, WorkerDeleted, InTask, session, startup,
       history, At
  <2> QED BY <2>1, <2>2, <2>7, <2>8
<1>12. ASSUME NEW c \in Calls, Use(c) PROVE Inv'
  <2>1. \A w \in windows' : WindowOK(w)'
    BY <1>12 DEF TypeOK, WindowOK, DelOK, Written, Killed, Use, Outside, made, history
  <2>2. \A r \in rows' : Written(r)'
    BY <1>12 DEF TypeOK, Written, Use, Outside, made, history
  <2>3. \A t \in Calls : (Written(t) => Written(t)') /\ (Written(t) /\ Killed(t) =>
     Killed(t)')
    BY <1>12 DEF TypeOK, Written, Killed, DelOK, Use, Outside, made, history
  <2>6. del' = del
    BY <1>12 DEF Use, Outside, made, history
  <2>7. \A e \in Deleting : DelOK(e)'
    BY <2>3, <2>6, DelOKKept
  <2>8. EnvOK'
    BY <1>12 DEF TypeOK, EnvOK, Use, Outside, made, history
  <2> QED BY <2>1, <2>2, <2>7, <2>8
<1>13. ASSUME NEW c \in Calls, CloseWindow(c) PROVE Inv'
  <2>1. \A w \in windows' : WindowOK(w)'
    BY <1>13 DEF TypeOK, WindowOK, DelOK, Written, Killed, CloseWindow, Outside, startup
  <2>2. \A r \in rows' : Written(r)'
    BY <1>13 DEF TypeOK, Written, CloseWindow, Outside, startup
  <2>3. \A t \in Calls : (Written(t) => Written(t)') /\ (Written(t) /\ Killed(t) =>
     Killed(t)')
    BY <1>13 DEF TypeOK, Written, Killed, DelOK, CloseWindow, Outside, startup
  <2>6. del' = del
    BY <1>13 DEF CloseWindow, Outside, startup
  <2>7. \A e \in Deleting : DelOK(e)'
    BY <2>3, <2>6, DelOKKept
  <2>8. EnvOK'
    BY <1>13 DEF TypeOK, EnvOK, CloseWindow, Outside, startup
  <2> QED BY <2>1, <2>2, <2>7, <2>8
<1>14. ASSUME NEW c \in Calls, RestoreMonitor(c) PROVE Inv'
  <2>1. \A w \in windows' : WindowOK(w)'
    BY <1>14 DEF TypeOK, WindowOK, DelOK, Written, Killed, RestoreMonitor, Outside, history
  <2>2. \A r \in rows' : Written(r)'
    BY <1>14 DEF TypeOK, Written, RestoreMonitor, Outside, history
  <2>3. \A t \in Calls : (Written(t) => Written(t)') /\ (Written(t) /\ Killed(t) =>
     Killed(t)')
    BY <1>14 DEF TypeOK, Written, Killed, DelOK, RestoreMonitor, Outside, history
  <2>6. del' = del
    BY <1>14 DEF RestoreMonitor, Outside, history
  <2>7. \A e \in Deleting : DelOK(e)'
    BY <2>3, <2>6, DelOKKept
  <2>8. EnvOK'
    BY <1>14 DEF TypeOK, EnvOK, RestoreMonitor, Outside, history
  <2> QED BY <2>1, <2>2, <2>7, <2>8
<1>15. ASSUME NEW d \in Threads, NEW t \in Calls, RequestTerminal(d, t) PROVE Inv'
  <2>1. \A w \in windows' : WindowOK(w)'
    BY <1>15, DeleteEffect, DeletionType DEF DelType, TypeOK, WindowOK, DelOK, Written,
       Killed, RequestTerminal, InThread, startup, made, Unready, Free
  <2>2. \A r \in rows' : Written(r)'
    BY <1>15, DeleteEffect, DeletionType DEF DelType, TypeOK, Written, RequestTerminal,
       InThread, startup, made, Unready, Free
  <2>3. \A u \in Calls : (Written(u) => Written(u)') /\ (Written(u) /\ Killed(u) =>
     Killed(u)')
    BY <1>15, DeleteEffect, DeletionType DEF DelType, TypeOK, Written, Killed, DelOK,
       RequestTerminal, InThread, startup, made, Unready, Free
  <2>3a. [NoDeletion EXCEPT !.pc = "next", !.todo = {t}, !.name = home[t]] \in DelType
    BY ZenonT(60), <1>15, DeletionType DEF DelType, TypeOK, RequestTerminal, session_exists
  <2>4. PICK r \in DelType :
          /\ r = [NoDeletion EXCEPT !.pc = "next", !.todo = {t}, !.name = home[t]]
          /\ r.pc = "next" /\ r.on = NoCall /\ r.todo = {t}
    BY <1>15, <2>3a DEF DelType, NoDeletion, TypeOK
  <2>5. del'[d] = r /\ \A e \in Deleting \ {d} : del'[e] = del[e]
    BY <1>15, <2>4, DeleteEffect DEF TypeOK, RequestTerminal
  <2>6. DelOK(d)'
    <3> USE <2>4 DEF TypeOK, DelType
    <3>1. \A u \in r.todo : Written(u)'
      BY <1>15, <2>3 DEF DelOK, Written, RequestTerminal, list_terminals_by_session, Of, At
    <3>2. r.on \in Calls => Written(r.on)'
      BY <1>15, <2>3 DEF DelOK
    <3>3. r.pc = "row" /\ r.on \in Calls => Killed(r.on)'
      BY <1>15, <2>3 DEF DelOK, Killed, RequestTerminal
    <3> QED BY <2>5, <3>1, <3>2, <3>3 DEF DelOK
  <2>7. \A e \in Deleting : DelOK(e)'
    BY <2>3, <2>5, <2>6, DelOKKept
  <2>8. EnvOK'
    BY <1>15, DeleteEffect, DeletionType DEF DelType, TypeOK, EnvOK, RequestTerminal,
       InThread, startup, made, Unready, Free
  <2> QED BY <2>1, <2>2, <2>7, <2>8
<1>16. ASSUME NEW d \in Threads, NEW n \in Names, RequestSession(d, n) PROVE Inv'
  <2>1. \A w \in windows' : WindowOK(w)'
    BY <1>16, DeleteEffect, DeletionType DEF DelType, TypeOK, WindowOK, DelOK, Written,
       Killed, RequestSession, InThread, startup, history, made, Free
  <2>2. \A r \in rows' : Written(r)'
    BY <1>16, DeleteEffect, DeletionType DEF DelType, TypeOK, Written, RequestSession,
       InThread, startup, history, made, Free
  <2>3. \A t \in Calls : (Written(t) => Written(t)') /\ (Written(t) /\ Killed(t) =>
     Killed(t)')
    BY <1>16, DeleteEffect, DeletionType DEF DelType, TypeOK, Written, Killed, DelOK,
       RequestSession, InThread, startup, history, made, Free
  <2>3a. [NoDeletion EXCEPT !.pc = "list", !.name = n, !.whole = TRUE,
                                    !.alive = session_exists(n)] \in DelType
    BY ZenonT(60), <1>16, DeletionType DEF DelType, TypeOK, RequestSession, session_exists
  <2>4. PICK r \in DelType :
          /\ r = [NoDeletion EXCEPT !.pc = "list", !.name = n, !.whole = TRUE,
                                    !.alive = session_exists(n)]
          /\ r.pc = "list" /\ r.on = NoCall /\ r.todo = {}
    BY <1>16, <2>3a DEF DelType, NoDeletion, TypeOK
  <2>5. del'[d] = r /\ \A e \in Deleting \ {d} : del'[e] = del[e]
    BY <1>16, <2>4, DeleteEffect DEF TypeOK, RequestSession
  <2>6. DelOK(d)'
    <3> USE <2>4 DEF TypeOK, DelType
    <3>1. \A t \in r.todo : Written(t)'
      BY <1>16, <2>3 DEF DelOK, Written, RequestSession, list_terminals_by_session, Of, At
    <3>2. r.on \in Calls => Written(r.on)'
      BY <1>16, <2>3 DEF DelOK
    <3>3. r.pc = "row" /\ r.on \in Calls => Killed(r.on)'
      BY <1>16, <2>3 DEF DelOK, Killed, RequestSession
    <3> QED BY <2>5, <3>1, <3>2, <3>3 DEF DelOK
  <2>7. \A e \in Deleting : DelOK(e)'
    BY <2>3, <2>5, <2>6, DelOKKept
  <2>8. EnvOK'
    BY <1>16, DeleteEffect, DeletionType DEF DelType, TypeOK, EnvOK, RequestSession,
       InThread, startup, history, made, Free
  <2> QED BY <2>1, <2>2, <2>7, <2>8
<1>17. ASSUME NEW d \in Deleting, ListTerminals(d) PROVE Inv'
  <2>1. \A w \in windows' : WindowOK(w)'
    BY <1>17, DeleteEffect, DeletionType DEF DelType, TypeOK, WindowOK, DelOK, Written,
       Killed, ListTerminals, InThread, startup, history, made, list_terminals_by_session,
       Of, Unready
  <2>2. \A r \in rows' : Written(r)'
    BY <1>17, DeleteEffect, DeletionType DEF DelType, TypeOK, Written, ListTerminals,
       InThread, startup, history, made, list_terminals_by_session, Of, Unready
  <2>3. \A t \in Calls : (Written(t) => Written(t)') /\ (Written(t) /\ Killed(t) =>
     Killed(t)')
    BY <1>17, DeleteEffect, DeletionType DEF DelType, TypeOK, Written, Killed, DelOK,
       ListTerminals, InThread, startup, history, made, list_terminals_by_session, Of,
       Unready
  <2>3a. [del[d] EXCEPT !.pc = "next", !.todo = list_terminals_by_session(del[d].name)] \in
     DelType
    BY <1>17, DeletionRecords DEF ListTerminals
  <2>4. PICK r \in DelType :
          /\ r = [del[d] EXCEPT !.pc = "next", !.todo =
             list_terminals_by_session(del[d].name)]
          /\ r.pc = "next" /\ r.on = del[d].on /\ r.todo =
             list_terminals_by_session(del[d].name)
    BY <1>17, <2>3a DEF DelType, NoDeletion, TypeOK
  <2>5. del'[d] = r /\ \A e \in Deleting \ {d} : del'[e] = del[e]
    BY <1>17, <2>4, DeleteEffect DEF TypeOK, ListTerminals
  <2>6. DelOK(d)'
    <3> USE <2>4 DEF TypeOK, DelType
    <3>1. \A t \in r.todo : Written(t)'
      BY <1>17, <2>3 DEF DelOK, Written, ListTerminals, list_terminals_by_session, Of, At
    <3>2. r.on \in Calls => Written(r.on)'
      BY <1>17, <2>3 DEF DelOK
    <3>3. r.pc = "row" /\ r.on \in Calls => Killed(r.on)'
      BY <1>17, <2>3 DEF DelOK, Killed, ListTerminals
    <3> QED BY <2>5, <3>1, <3>2, <3>3 DEF DelOK
  <2>7. \A e \in Deleting : DelOK(e)'
    BY <2>3, <2>5, <2>6, DelOKKept
  <2>8. EnvOK'
    BY <1>17, DeleteEffect, DeletionType DEF DelType, TypeOK, EnvOK, ListTerminals,
       InThread, startup, history, made, list_terminals_by_session, Of, Unready
  <2> QED BY <2>1, <2>2, <2>7, <2>8
<1>18. ASSUME NEW d \in Deleting, ReadMetadata(d) PROVE Inv'
  <2>1. \A w \in windows' : WindowOK(w)'
    BY <1>18, DeleteEffect, DeletionType DEF DelType, TypeOK, WindowOK, DelOK, Written,
       Killed, ReadMetadata, InThread, startup, history, made
  <2>2. \A r \in rows' : Written(r)'
    BY <1>18, DeleteEffect, DeletionType DEF DelType, TypeOK, Written, ReadMetadata,
       InThread, startup, history, made
  <2>3. \A t \in Calls : (Written(t) => Written(t)') /\ (Written(t) /\ Killed(t) =>
     Killed(t)')
    BY <1>18, DeleteEffect, DeletionType DEF DelType, TypeOK, Written, Killed, DelOK,
       ReadMetadata, InThread, startup, history, made
  <2>4. PICK r \in DelType :
              /\ Delete(d, r)
              /\ r.todo \subseteq del[d].todo
              /\ r.on \in Calls => r.on \in del[d].todo \/ r.on = del[d].on
              /\ r.pc = "row" => r.on \notin rows
    BY <1>18, ReadRec DEF TypeOK, ReadMetadata
  <2>5. del'[d] = r /\ \A e \in Deleting \ {d} : del'[e] = del[e]
    BY <2>4, DeleteEffect
  <2>6. DelOK(d)'
    <3> r.todo \subseteq Calls /\ rows' = rows
      BY <1>18 DEF DelType, ReadMetadata, made
    <3> QED BY <2>3, <2>4, <2>5 DEF DelOK, Written, Killed
  <2>7. \A e \in Deleting : DelOK(e)'
    BY <2>3, <2>5, <2>6, DelOKKept
  <2>8. EnvOK'
    BY <1>18, DeleteEffect, DeletionType DEF DelType, TypeOK, EnvOK, ReadMetadata,
       InThread, startup, history, made
  <2> QED BY <2>1, <2>2, <2>7, <2>8
<1>19. ASSUME NEW d \in Deleting, StopReader(d) PROVE Inv'
  <2>1. \A w \in windows' : WindowOK(w)'
    BY <1>19, DeleteEffect, DeletionType DEF DelType, TypeOK, WindowOK, DelOK, Written,
       Killed, StopReader, InThread, startup, history, made
  <2>2. \A r \in rows' : Written(r)'
    BY <1>19, DeleteEffect, DeletionType DEF DelType, TypeOK, Written, StopReader,
       InThread, startup, history, made
  <2>3. \A t \in Calls : (Written(t) => Written(t)') /\ (Written(t) /\ Killed(t) =>
     Killed(t)')
    BY <1>19, DeleteEffect, DeletionType DEF DelType, TypeOK, Written, Killed, DelOK,
       StopReader, InThread, startup, history, made
  <2>3a. [del[d] EXCEPT !.pc = "kill"] \in DelType
    BY <1>19, DeletionRecords DEF StopReader
  <2>4. PICK r \in DelType :
          /\ r = [del[d] EXCEPT !.pc = "kill"]
          /\ r.pc = "kill" /\ r.on = del[d].on /\ r.todo = del[d].todo
    BY <1>19, <2>3a DEF DelType, NoDeletion, TypeOK
  <2>5. del'[d] = r /\ \A e \in Deleting \ {d} : del'[e] = del[e]
    BY <1>19, <2>4, DeleteEffect DEF TypeOK, StopReader
  <2>6. DelOK(d)'
    <3> USE <2>4 DEF TypeOK, DelType
    <3>1. \A t \in r.todo : Written(t)'
      BY <1>19, <2>3 DEF DelOK, Written, StopReader, list_terminals_by_session, Of, At
    <3>2. r.on \in Calls => Written(r.on)'
      BY <1>19, <2>3 DEF DelOK
    <3>3. r.pc = "row" /\ r.on \in Calls => Killed(r.on)'
      BY <1>19, <2>3 DEF DelOK, Killed, StopReader
    <3> QED BY <2>5, <3>1, <3>2, <3>3 DEF DelOK
  <2>7. \A e \in Deleting : DelOK(e)'
    BY <2>3, <2>5, <2>6, DelOKKept
  <2>8. EnvOK'
    BY <1>19, DeleteEffect, DeletionType DEF DelType, TypeOK, EnvOK, StopReader, InThread,
       startup, history, made
  <2> QED BY <2>1, <2>2, <2>7, <2>8
<1>20. ASSUME NEW d \in Deleting, KillWindow(d) PROVE Inv'
  <2>1. \A w \in windows' : WindowOK(w)'
    BY <1>20, DeleteEffect, DeletionType DEF DelType, TypeOK, WindowOK, DelOK, Written,
       Killed, KillWindow, InThread, startup, history, made
  <2>2. \A r \in rows' : Written(r)'
    BY <1>20, DeleteEffect, DeletionType DEF DelType, TypeOK, Written, KillWindow,
       InThread, startup, history, made
  <2>3. \A t \in Calls : (Written(t) => Written(t)') /\ (Written(t) /\ Killed(t) =>
     Killed(t)')
    BY <1>20, DeleteEffect, DeletionType DEF DelType, TypeOK, Written, Killed, DelOK,
       KillWindow, InThread, startup, history, made
  <2>3a. [del[d] EXCEPT !.pc = "row"] \in DelType
    BY <1>20, DeletionRecords DEF KillWindow
  <2>4. PICK r \in DelType :
          /\ r = [del[d] EXCEPT !.pc = "row"]
          /\ r.pc = "row" /\ r.on = del[d].on /\ r.todo = del[d].todo
    BY <1>20, <2>3a DEF DelType, NoDeletion, TypeOK
  <2>5. del'[d] = r /\ \A e \in Deleting \ {d} : del'[e] = del[e]
    BY <1>20, <2>4, DeleteEffect DEF TypeOK, KillWindow
  <2>6. DelOK(d)'
    <3> USE <2>4 DEF TypeOK, DelType
    <3>1. \A t \in r.todo : Written(t)'
      BY <1>20, <2>3 DEF DelOK, Written, KillWindow, list_terminals_by_session, Of, At
    <3>2. r.on \in Calls => Written(r.on)'
      BY <1>20, <2>3 DEF DelOK
    <3>3. r.pc = "row" /\ r.on \in Calls => Killed(r.on)'
      BY <1>20, <2>3 DEF DelOK, Killed, KillWindow
    <3> QED BY <2>5, <3>1, <3>2, <3>3 DEF DelOK
  <2>7. \A e \in Deleting : DelOK(e)'
    BY <2>3, <2>5, <2>6, DelOKKept
  <2>8. EnvOK'
    BY <1>20, DeleteEffect, DeletionType DEF DelType, TypeOK, EnvOK, KillWindow, InThread,
       startup, history, made
  <2> QED BY <2>1, <2>2, <2>7, <2>8
<1>21. ASSUME NEW d \in Deleting, DeleteRow(d) PROVE Inv'
  <2>1. \A w \in windows' : WindowOK(w)'
    BY <1>21, DeleteEffect, DeletionType DEF DelType, TypeOK, WindowOK, DelOK, Written,
       Killed, DeleteRow, InThread, startup, history, made
  <2>2. \A r \in rows' : Written(r)'
    BY <1>21, DeleteEffect, DeletionType DEF DelType, TypeOK, Written, DeleteRow, InThread,
       startup, history, made
  <2>3. \A t \in Calls : (Written(t) => Written(t)') /\ (Written(t) /\ Killed(t) =>
     Killed(t)')
    BY <1>21, DeleteEffect, DeletionType DEF DelType, TypeOK, Written, Killed, DelOK,
       DeleteRow, InThread, startup, history, made
  <2>3a. [del[d] EXCEPT !.pc = "next", !.on = NoCall] \in DelType
    BY <1>21, DeletionRecords DEF DeleteRow
  <2>4. PICK r \in DelType :
          /\ r = [del[d] EXCEPT !.pc = "next", !.on = NoCall]
          /\ r.pc = "next" /\ r.on = NoCall /\ r.todo = del[d].todo
    BY <1>21, <2>3a DEF DelType, NoDeletion, TypeOK
  <2>5. del'[d] = r /\ \A e \in Deleting \ {d} : del'[e] = del[e]
    BY <1>21, <2>4, DeleteEffect DEF TypeOK, DeleteRow
  <2>6. DelOK(d)'
    <3> USE <2>4 DEF TypeOK, DelType
    <3>1. \A t \in r.todo : Written(t)'
      BY <1>21, <2>3 DEF DelOK, Written, DeleteRow, list_terminals_by_session, Of, At
    <3>2. r.on \in Calls => Written(r.on)'
      BY <1>21, <2>3 DEF DelOK
    <3>3. r.pc = "row" /\ r.on \in Calls => Killed(r.on)'
      BY <1>21, <2>3 DEF DelOK, Killed, DeleteRow
    <3> QED BY <2>5, <3>1, <3>2, <3>3 DEF DelOK
  <2>7. \A e \in Deleting : DelOK(e)'
    BY <2>3, <2>5, <2>6, DelOKKept
  <2>8. EnvOK'
    BY <1>21, DeleteEffect, DeletionType DEF DelType, TypeOK, EnvOK, DeleteRow, InThread,
       startup, history, made
  <2> QED BY <2>1, <2>2, <2>7, <2>8
<1>22. ASSUME NEW d \in Deleting, KillSession(d) PROVE Inv'
  <2>1. \A w \in windows' : WindowOK(w)'
    BY <1>22, DeleteEffect, DeletionType DEF DelType, TypeOK, WindowOK, DelOK, Written,
       Killed, KillSession, InThread, startup, history, made, Of
  <2>2. \A r \in rows' : Written(r)'
    BY <1>22, DeleteEffect, DeletionType DEF DelType, TypeOK, Written, KillSession,
       InThread, startup, history, made, Of
  <2>3. \A t \in Calls : (Written(t) => Written(t)') /\ (Written(t) /\ Killed(t) =>
     Killed(t)')
    BY <1>22, DeleteEffect, DeletionType DEF DelType, TypeOK, Written, Killed, DelOK,
       KillSession, InThread, startup, history, made, Of
  <2>3a. [del[d] EXCEPT !.pc = "env"] \in DelType
    BY <1>22, DeletionRecords DEF KillSession
  <2>4. PICK r \in DelType :
          /\ r = [del[d] EXCEPT !.pc = "env"]
          /\ r.pc = "env" /\ r.on = del[d].on /\ r.todo = del[d].todo
    BY <1>22, <2>3a DEF DelType, NoDeletion, TypeOK
  <2>5. del'[d] = r /\ \A e \in Deleting \ {d} : del'[e] = del[e]
    BY <1>22, <2>4, DeleteEffect DEF TypeOK, KillSession
  <2>6. DelOK(d)'
    <3> USE <2>4 DEF TypeOK, DelType
    <3>1. \A t \in r.todo : Written(t)'
      BY <1>22, <2>3 DEF DelOK, Written, KillSession, list_terminals_by_session, Of, At
    <3>2. r.on \in Calls => Written(r.on)'
      BY <1>22, <2>3 DEF DelOK
    <3>3. r.pc = "row" /\ r.on \in Calls => Killed(r.on)'
      BY <1>22, <2>3 DEF DelOK, Killed, KillSession
    <3> QED BY <2>5, <3>1, <3>2, <3>3 DEF DelOK
  <2>7. \A e \in Deleting : DelOK(e)'
    BY <2>3, <2>5, <2>6, DelOKKept
  <2>8. EnvOK'
    BY <1>22, DeleteEffect, DeletionType DEF DelType, TypeOK, EnvOK, KillSession, InThread,
       startup, history, made, Of
  <2> QED BY <2>1, <2>2, <2>7, <2>8
<1>23. ASSUME NEW d \in Deleting, ClearSessionEnv(d) PROVE Inv'
  <2>1. \A w \in windows' : WindowOK(w)'
    BY <1>23, DeleteEffect, DeletionType DEF DelType, TypeOK, WindowOK, DelOK, Written,
       Killed, ClearSessionEnv, InThread, startup, history, made
  <2>2. \A r \in rows' : Written(r)'
    BY <1>23, DeleteEffect, DeletionType DEF DelType, TypeOK, Written, ClearSessionEnv,
       InThread, startup, history, made
  <2>3. \A t \in Calls : (Written(t) => Written(t)') /\ (Written(t) /\ Killed(t) =>
     Killed(t)')
    BY <1>23, DeleteEffect, DeletionType DEF DelType, TypeOK, Written, Killed, DelOK,
       ClearSessionEnv, InThread, startup, history, made
  <2>3a. NoDeletion \in DelType
    BY <1>23, DeletionType DEF DelType, TypeOK, ClearSessionEnv, session_exists
  <2>4. PICK r \in DelType :
          /\ r = NoDeletion
          /\ r.pc = "idle" /\ r.on = NoCall /\ r.todo = {}
    BY <1>23, <2>3a DEF DelType, NoDeletion, TypeOK
  <2>5. del'[d] = r /\ \A e \in Deleting \ {d} : del'[e] = del[e]
    BY <1>23, <2>4, DeleteEffect DEF TypeOK, ClearSessionEnv
  <2>6. DelOK(d)'
    <3> USE <2>4 DEF TypeOK, DelType
    <3>1. \A t \in r.todo : Written(t)'
      BY <1>23, <2>3 DEF DelOK, Written, ClearSessionEnv, list_terminals_by_session, Of, At
    <3>2. r.on \in Calls => Written(r.on)'
      BY <1>23, <2>3 DEF DelOK
    <3>3. r.pc = "row" /\ r.on \in Calls => Killed(r.on)'
      BY <1>23, <2>3 DEF DelOK, Killed, ClearSessionEnv
    <3> QED BY <2>5, <3>1, <3>2, <3>3 DEF DelOK
  <2>7. \A e \in Deleting : DelOK(e)'
    BY <2>3, <2>5, <2>6, DelOKKept
  <2>8. EnvOK'
    BY <1>23, DeleteEffect, DeletionType DEF DelType, TypeOK, EnvOK, ClearSessionEnv,
       InThread, startup, history, made
  <2> QED BY <2>1, <2>2, <2>7, <2>8
<1>24. ASSUME SweepRows PROVE Inv'
  <2>1. \A w \in windows' : WindowOK(w)'
    BY <1>24 DEF TypeOK, WindowOK, DelOK, Written, Killed, SweepRows, Outside
  <2>2. \A r \in rows' : Written(r)'
    BY <1>24 DEF TypeOK, Written, SweepRows, Outside
  <2>3. \A t \in Calls : (Written(t) => Written(t)') /\ (Written(t) /\ Killed(t) =>
     Killed(t)')
    BY <1>24 DEF TypeOK, Written, Killed, DelOK, SweepRows, Outside
  <2>6. del' = del
    BY <1>24 DEF SweepRows, Outside
  <2>7. \A e \in Deleting : DelOK(e)'
    BY <2>3, <2>6, DelOKKept
  <2>8. EnvOK'
    BY <1>24 DEF TypeOK, EnvOK, SweepRows, Outside
  <2> QED BY <2>1, <2>2, <2>7, <2>8
<1>25. ASSUME NEW t \in Calls, SweepReader(t) PROVE Inv'
  <2>1. \A w \in windows' : WindowOK(w)'
    BY <1>25 DEF TypeOK, WindowOK, DelOK, Written, Killed, SweepReader, Outside
  <2>2. \A r \in rows' : Written(r)'
    BY <1>25 DEF TypeOK, Written, SweepReader, Outside
  <2>3. \A u \in Calls : (Written(u) => Written(u)') /\ (Written(u) /\ Killed(u) =>
     Killed(u)')
    BY <1>25 DEF TypeOK, Written, Killed, DelOK, SweepReader, Outside
  <2>6. del' = del
    BY <1>25 DEF SweepReader, Outside
  <2>7. \A e \in Deleting : DelOK(e)'
    BY <2>3, <2>6, DelOKKept
  <2>8. EnvOK'
    BY <1>25 DEF TypeOK, EnvOK, SweepReader, Outside
  <2> QED BY <2>1, <2>2, <2>7, <2>8
<1>26. ASSUME Crash PROVE Inv'
  <2>1. \A w \in windows' : WindowOK(w)'
    BY <1>26, DeletionType DEF DelType, TypeOK, WindowOK, DelOK, Written, Killed, Crash,
       Outside
  <2>2. \A r \in rows' : Written(r)'
    BY <1>26, DeletionType DEF DelType, TypeOK, Written, Crash, Outside
  <2>3. \A t \in Calls : (Written(t) => Written(t)') /\ (Written(t) /\ Killed(t) =>
     Killed(t)')
    BY <1>26, DeletionType DEF DelType, TypeOK, Written, Killed, DelOK, Crash, Outside
  <2>7. \A e \in Deleting : DelOK(e)'
    BY <1>26 DEF DelOK, NoDeletion, Crash
  <2>8. EnvOK'
    BY <1>26, DeletionType DEF DelType, TypeOK, EnvOK, Crash, Outside
  <2> QED BY <2>1, <2>2, <2>7, <2>8
<1>90. CASE UNCHANGED vars
  BY <1>90 DEF TypeOK, WindowOK, DelOK, Written, Killed, EnvOK, vars
<1> QED
  BY <1>1, <1>2, <1>3, <1>4, <1>5, <1>6, <1>7, <1>8, <1>9, <1>10, <1>11, <1>12, <1>13,
     <1>14, <1>15, <1>16, <1>17, <1>18, <1>19, <1>20, <1>21, <1>22, <1>23, <1>24, <1>25,
     <1>26, <1>90
     DEF Next, Start, Step, Deletion, Sweep

LEMMA SpecInv == Spec => []Inv
BY InitInv, StepInv, PTL DEF Spec

-----------------------------------------------------------------------------
(* Theorems.                                                                    *)

\* Every state of the terminals has its type.
THEOREM SpecTypeOK == Spec => []TypeOK
<1>1. Inv => TypeOK
  BY DEF Inv
<1> QED BY <1>1, SpecInv, PTL

\* A window that no row knows is one whose kill failed, whose creation a crash cut
\* short or whose row retention dropped, once nobody works on terminals: however
\* many creations fail, deletions run and sessions are recycled at a time.
THEOREM SpecNoOrphanWindow == Spec => []NoOrphanWindow
<1>1. Inv => NoOrphanWindow
  BY DEF Inv, TypeOK, WindowOK, NoOrphanWindow, Quiet, Active
<1> QED BY <1>1, SpecInv, PTL

\* The variables stored under a name are those of the session that has it now.
THEOREM SpecEnvIsOwn == Spec => []EnvIsOwn
<1>1. Inv => EnvIsOwn
  BY DEF Inv, EnvOK, EnvIsOwn
<1> QED BY <1>1, SpecInv, PTL

-----------------------------------------------------------------------------
(* What the rest of the properties rest on: sessions that are not recycled or      *)
(* deleted while others use them (Overlap = FALSE).                                *)

Working(c) == call[c].pc \in Active
OnLoop == {"made", "written", "rollback"}

\* The event loop is held by every call that has not awaited yet.
LoopHeld == \A c \in Calls : call[c].pc \in OnLoop => loop = c

\* What deletion d has to do with terminal t.
Meant(d, t) == t \in del[d].todo \/ del[d].on = t
Undoing(d, t) == del[d].on = t /\ del[d].pc \in {"kill", "row"}

\* A deletion meets only terminals whose creation is past its row, in the session it
\* was asked for; a call deletes nothing but its own worker.
DeletionHome ==
    /\ \A d \in Deleting, t \in Calls :
          Meant(d, t) => call[t].pc \notin {"unused", "made", "written"} /\ home[t] = del[d].name
    /\ \A d \in Deleting : del[d].pc = "idle" => del[d].todo = {} /\ ~del[d].whole
    /\ \A d \in Deleting : del[d].pc \in {"list", "session", "env"} => del[d].whole
    /\ \A d \in Deleting : del[d].pc \notin {"stop", "kill", "row"} => del[d].on = NoCall
    /\ \A c \in Calls : del[c].pc # "idle" =>
          call[c].pc = "deleting" /\ ~del[c].whole /\ del[c].name = home[c]

\* Nobody works in a session that is being deleted.
Undisturbed ==
    \A d \in Threads, c \in Calls :
       del[d].whole /\ home[c] = del[d].name => ~Working(c)

\* The session of a call that makes it is its own window.
OwnSession ==
    \A c \in Calls : Working(c) /\ Owner(c) => Of(home[c], windows) \subseteq {c}

\* Startup comes before any call; retention lists no terminal that is being made.
StartupFirst ==
    /\ restoring # {} => (\A c \in Calls : ~Working(c)) /\ \A d \in Deleting : del[d].pc = "idle"
    /\ \A c \in aged \cup sweeping : ~Working(c) /\ call[c].pc # "unused"

\* What there is of a terminal has a row, from the moment its call has written it.
RowOfAll ==
    /\ readers \cup provs \subseteq rows \cup left
    /\ \A c \in Calls : call[c].pc = "written" => c \in rows

\* A terminal with a row is whole, or somebody will see to it.
InHand(t) ==
    \/ t \in left \/ t \in windows \cap readers \cap provs
    \/ call[t].pc \in {"written", "rollback"}
    \/ \E d \in Deleting : Undoing(d, t)
    \/ t \in restoring

RowsInHand ==
    /\ \A t \in rows : InHand(t)
    /\ restoring \subseteq (windows \cap rows) \cup left

\* A deletion that is past the reader of a terminal leaves none.
ReaderStopped == \A d \in Deleting, t \in Calls : Undoing(d, t) => t \in left \/ t \notin readers

\* The deletion of a session has every row of it before it or in hand.
Listed ==
    /\ \A d \in Threads, t \in rows :
          del[d].whole /\ del[d].pc # "list" /\ home[t] = del[d].name => t \in left \/ Meant(d, t)
    /\ \A d \in Threads : del[d].pc \in {"session", "env"} => del[d].todo = {}

\* A worker whose task is not over has the row that names its caller, or its deletion
\* was asked for.
Known ==
    /\ \A c \in Calls : call[c].pc \in {"deferred", "sending", "notify", "deleting", "gone"} =>
          call[c].kind = "assign"
    /\ \A c \in Calls : call[c].pc \in {"deferred", "sending", "notify"} => c \in rows \cup deleted
    /\ \A c \in Calls : call[c].pc \in {"deleting", "gone"} => Noticed(c) \/ c \in deleted
    /\ \A d \in Deleting, c \in Calls :
          Meant(d, c) /\ d # c /\ Working(c) /\ call[c].kind = "assign" => c \in deleted

Sober ==
    /\ LoopHeld /\ DeletionHome /\ Undisturbed /\ OwnSession /\ StartupFirst
    /\ RowOfAll /\ RowsInHand /\ ReaderStopped /\ Listed /\ Known

\* What a call finds, and what it has made, when it has begun.
Alone(n) ==
    /\ \A c \in Calls : home[c] = n => ~Working(c)
    /\ \A d \in Threads : del[d].name = n => del[d].pc = "idle"

Welcome(n) ==
    /\ \A c \in Calls : home[c] = n /\ Owner(c) => ~Working(c)
    /\ \A d \in Threads : del[d].name = n /\ del[d].whole => del[d].pc = "idle"

Recycles(c, n) ==
    \E old \in SUBSET Of(n, rows) :
       /\ old = Of(n, rows) \/ Of(n, windows) = {}
       /\ windows' = (windows \ Of(n, windows)) \cup {c}
       /\ rows' = rows \ old /\ readers' = readers \ old /\ provs' = provs \ old

Joins(c) == windows' = windows \cup {c} /\ UNCHANGED <<rows, readers, provs>>

LEMMA StartFacts ==
    ASSUME Inv, ~Overlap, NEW c \in Calls, Start(c)
    PROVE  \E n \in Names, p \in {"made", "failed"} :
              /\ loop = NoCall /\ restoring = {} /\ call[c].pc = "unused"
              /\ call'[c].pc = p /\ home'[c] = n
              /\ \A x \in Calls \ {c} : call'[x] = call[x] /\ home'[x] = home[x]
              /\ loop' = IF p = "made" THEN c ELSE NoCall
              /\ UNCHANGED <<del, told, restoring, sweeping, aged, deleted, left>>
              /\ p = "failed" => UNCHANGED <<windows, rows, readers, provs>>
              /\ p = "made" => \/ Alone(n) /\ Recycles(c, n)
                               \/ Welcome(n) /\ Joins(c) /\ ~Owner(c)'
<1> DEFINE Kept(n, p) ==
              /\ loop = NoCall /\ restoring = {} /\ call[c].pc = "unused"
              /\ call'[c].pc = p /\ home'[c] = n
              /\ \A x \in Calls \ {c} : call'[x] = call[x] /\ home'[x] = home[x]
              /\ loop' = IF p = "made" THEN c ELSE NoCall
              /\ UNCHANGED <<del, told, restoring, sweeping, aged, deleted, left>>
<1>t. TypeOK
  BY DEF Inv
<1>1. ASSUME NEW n \in Names, NEW p \in {"made", "failed"}, NEW k \in AllKinds, Begin(c, k, n, p)
      PROVE  Kept(n, p) /\ call'[c].kind = k
  <2>1. loop = NoCall /\ restoring = {} /\ call'[c].kind = k
    BY <1>t, <1>1 DEF Begin, Free, TypeOK
  <2> QED
    BY <1>t, <1>1, <2>1, BeginEffect
<1>2. ASSUME NEW n \in Names PROVE (Exclusive(n) => Alone(n)) /\ (Steady(n) => Welcome(n))
  BY DEF Exclusive, Steady, Alone, Welcome, Working
<1>3. ASSUME NEW n \in Names, CreateSession(c, n)
      PROVE  \E p \in {"made", "failed"} :
                /\ Kept(n, p)
                /\ p = "failed" => UNCHANGED <<windows, rows, readers, provs>>
                /\ p = "made" => Alone(n) /\ Recycles(c, n)
  <2>1. CASE session_exists(n)
    <3>1. Begin(c, "session", n, "failed") /\ UNCHANGED <<windows, rows, readers, provs>>
      BY <1>3, <2>1 DEF CreateSession, Refuse, made
    <3>2. Kept(n, "failed")
      BY <1>1, <3>1 DEF AllKinds
    <3> HIDE DEF Kept
    <3> QED
      BY <3>1, <3>2
  <2>2. CASE ~session_exists(n)
    <3>1. Begin(c, "session", n, "made") /\ UNCHANGED <<rows, readers, provs>>
          /\ windows' = (windows \ Of(n, windows)) \cup {c}
      BY <1>3, <2>2 DEF CreateSession, MakeSession
    <3>2. Recycles(c, n)
      <4>1. {} \in SUBSET Of(n, rows) /\ Of(n, windows) = {}
        BY <2>2 DEF session_exists
      <4>2. rows' = rows \ {} /\ readers' = readers \ {} /\ provs' = provs \ {}
        BY <3>1
      <4> QED
        BY <3>1, <4>1, <4>2 DEF Recycles
    <3>3. Kept(n, "made")
      BY <1>1, <3>1 DEF AllKinds
    <3>4. Alone(n)
      BY <1>2, <1>3 DEF CreateSession
    <3> HIDE DEF Kept
    <3> QED
      BY <3>2, <3>3, <3>4
  <2> QED
    BY <2>1, <2>2
<1>4. ASSUME NEW n \in Names, ExecuteFlow(c, n)
      PROVE  \E p \in {"made", "failed"} :
                /\ Kept(n, p)
                /\ p = "failed" => UNCHANGED <<windows, rows, readers, provs>>
                /\ p = "made" => Alone(n) /\ Recycles(c, n)
  <2>1. CASE Begin(c, "flow", n, "failed") /\ Refuse
    <3>1. UNCHANGED <<windows, rows, readers, provs>>
      BY <2>1 DEF Refuse, made
    <3>2. Kept(n, "failed")
      BY <1>1, <2>1 DEF AllKinds
    <3> HIDE DEF Kept
    <3> QED
      BY <3>1, <3>2
  <2>2. CASE LET old == IF session_exists(n) THEN list_terminals_by_session(n) ELSE {} IN
             /\ Begin(c, "flow", n, "made") /\ MakeSession(c, n, NoCall)
             /\ provs' = provs \ old /\ readers' = readers \ old /\ rows' = rows \ old
    <3> DEFINE old == IF session_exists(n) THEN list_terminals_by_session(n) ELSE {}
    <3>1. old \in SUBSET Of(n, rows) /\ (old = Of(n, rows) \/ Of(n, windows) = {})
      BY DEF session_exists, list_terminals_by_session
    <3>2. Recycles(c, n)
      BY <2>2, <3>1 DEF Recycles, MakeSession
    <3>3. Kept(n, "made")
      BY <1>1, <2>2 DEF AllKinds
    <3>4. Alone(n)
      BY <1>2, <1>4 DEF ExecuteFlow
    <3> HIDE DEF Kept
    <3> QED
      BY <3>2, <3>3, <3>4
  <2> QED
    BY <1>4, <2>1, <2>2 DEF ExecuteFlow
<1>5. ASSUME NEW n \in Names, NEW k \in {"join", "assign"}, JoinSession(c, n, k)
      PROVE  \E p \in {"made", "failed"} :
                /\ Kept(n, p)
                /\ p = "failed" => UNCHANGED <<windows, rows, readers, provs>>
                /\ p = "made" => Welcome(n) /\ Joins(c) /\ ~Owner(c)'
  <2>1. CASE ~session_exists(n)
    <3>1. Begin(c, k, n, "failed") /\ UNCHANGED <<windows, rows, readers, provs>>
      BY <1>5, <2>1 DEF JoinSession, Refuse, made
    <3>2. Kept(n, "failed")
      BY <1>1, <3>1 DEF AllKinds
    <3> HIDE DEF Kept
    <3> QED
      BY <3>1, <3>2
  <2>2. CASE session_exists(n)
    <3>1. Begin(c, k, n, "made") /\ Joins(c)
      BY <1>5, <2>2 DEF JoinSession, Joins
    <3>2. Kept(n, "made") /\ call'[c].kind = k
      BY <1>1, <3>1 DEF AllKinds
    <3>3. ~Owner(c)'
      BY <3>2 DEF Owner
    <3>4. Welcome(n)
      BY <1>2, <1>5 DEF JoinSession
    <3> HIDE DEF Kept
    <3> QED
      BY <3>1, <3>2, <3>3, <3>4
  <2> QED
    BY <2>1, <2>2
<1>6. \/ \E n \in Names : CreateSession(c, n) \/ ExecuteFlow(c, n)
      \/ \E n \in Names, k \in {"join", "assign"} : JoinSession(c, n, k)
  BY DEF Start
<1> HIDE DEF Kept
<1>7. \E n \in Names, p \in {"made", "failed"} :
         /\ Kept(n, p)
         /\ p = "failed" => UNCHANGED <<windows, rows, readers, provs>>
         /\ p = "made" => \/ Alone(n) /\ Recycles(c, n)
                          \/ Welcome(n) /\ Joins(c) /\ ~Owner(c)'
  BY <1>3, <1>4, <1>5, <1>6
<1> QED
  BY <1>7 DEF Kept

\* What a step of a deletion makes of its record.
Becomes(d, stage, on, todo, name, whole) ==
    /\ del'[d].pc = stage /\ del'[d].on = on /\ del'[d].todo = todo
    /\ del'[d].name = name /\ del'[d].whole = whole
    /\ \A e \in Deleting \ {d} : del'[e] = del[e]

LEMMA DeletionFacts ==
    ASSUME Inv, NEW d \in Deleting
    PROVE  LET r == del[d]  nowhere == CHOOSE n \in Names : TRUE IN
           /\ ListTerminals(d) => Becomes(d, "next", r.on, Of(r.name, rows), r.name, r.whole)
           /\ ReadMetadata(d) =>
                 \/ /\ r.todo = {} /\ r.whole
                    /\ Becomes(d, "session", r.on, r.todo, r.name, r.whole)
                 \/ /\ r.todo = {} /\ ~r.whole /\ Becomes(d, "idle", NoCall, {}, nowhere, FALSE)
                 \/ \E t \in r.todo : Becomes(d, IF t \in rows THEN "stop" ELSE "row", t,
                                              r.todo \ {t}, r.name, r.whole)
           /\ StopReader(d) => Becomes(d, "kill", r.on, r.todo, r.name, r.whole)
           /\ KillWindow(d) => Becomes(d, "row", r.on, r.todo, r.name, r.whole)
           /\ DeleteRow(d) => Becomes(d, "next", NoCall, r.todo, r.name, r.whole)
           /\ KillSession(d) => Becomes(d, "env", r.on, r.todo, r.name, r.whole)
           /\ ClearSessionEnv(d) => Becomes(d, "idle", NoCall, {}, nowhere, FALSE)
<1> DEFINE r == del[d]
           nowhere == CHOOSE n \in Names : TRUE
<1>1. r \in DelType /\ del \in [Deleting -> DelType]
  BY DEF Inv, TypeOK
<1>2. ASSUME NEW q, Delete(d, q)
      PROVE  del'[d] = q /\ \A e \in Deleting \ {d} : del'[e] = del[e]
  BY <1>1, <1>2 DEF Delete
<1>3. r = [pc |-> r.pc, on |-> r.on, todo |-> r.todo, name |-> r.name, whole |-> r.whole,
           alive |-> r.alive]
  BY <1>1 DEF DelType
<1>4. Delete(d, NoDeletion) => Becomes(d, "idle", NoCall, {}, nowhere, FALSE)
  BY <1>2 DEF NoDeletion, Becomes
<1> HIDE DEF r
<1>5. ASSUME NEW p, Delete(d, [r EXCEPT !.pc = p])
      PROVE  Becomes(d, p, r.on, r.todo, r.name, r.whole)
  BY <1>2, <1>3, <1>5 DEF Becomes
<1>6. ASSUME NEW T, Delete(d, [r EXCEPT !.pc = "next", !.todo = T])
      PROVE  Becomes(d, "next", r.on, T, r.name, r.whole)
  <2> DEFINE q == [r EXCEPT !.pc = "next", !.todo = T]
  <2>1. q.pc = "next" /\ q.on = r.on /\ q.todo = T /\ q.name = r.name /\ q.whole = r.whole
    BY <1>1 DEF DelType
  <2>2. Delete(d, q)
    BY <1>6
  <2> HIDE DEF q
  <2> QED
    BY <1>2, <2>1, <2>2 DEF Becomes
<1>7. ASSUME Delete(d, [r EXCEPT !.pc = "next", !.on = NoCall])
      PROVE  Becomes(d, "next", NoCall, r.todo, r.name, r.whole)
  <2> DEFINE q == [r EXCEPT !.pc = "next", !.on = NoCall]
  <2>1. q.pc = "next" /\ q.on = NoCall /\ q.todo = r.todo /\ q.name = r.name /\ q.whole = r.whole
    BY <1>1 DEF DelType
  <2>2. Delete(d, q)
    BY <1>7
  <2> HIDE DEF q
  <2> QED
    BY <1>2, <2>1, <2>2 DEF Becomes
<1>8. ASSUME NEW t, NEW p, Delete(d, [r EXCEPT !.pc = p, !.on = t, !.todo = r.todo \ {t}])
      PROVE  Becomes(d, p, t, r.todo \ {t}, r.name, r.whole)
  <2> DEFINE q == [r EXCEPT !.pc = p, !.on = t, !.todo = r.todo \ {t}]
  <2>1. q.pc = p /\ q.on = t /\ q.todo = r.todo \ {t} /\ q.name = r.name /\ q.whole = r.whole
    BY <1>1 DEF DelType
  <2>2. Delete(d, q)
    BY <1>8
  <2> HIDE DEF q
  <2> QED
    BY <1>2, <2>1, <2>2 DEF Becomes
<1>9. ReadMetadata(d) =>
         \/ /\ r.todo = {} /\ r.whole
            /\ Becomes(d, "session", r.on, r.todo, r.name, r.whole)
         \/ /\ r.todo = {} /\ ~r.whole /\ Becomes(d, "idle", NoCall, {}, nowhere, FALSE)
         \/ \E t \in r.todo : Becomes(d, IF t \in rows THEN "stop" ELSE "row", t,
                                      r.todo \ {t}, r.name, r.whole)
  <2>1. CASE r.todo = {} /\ Delete(d, IF r.whole THEN [r EXCEPT !.pc = "session"] ELSE NoDeletion)
    BY <1>4, <1>5, <2>1
  <2>2. ASSUME NEW t \in r.todo,
               Delete(d, [r EXCEPT !.pc = IF t \in rows THEN "stop" ELSE "row",
                                   !.on = t, !.todo = r.todo \ {t}])
        PROVE  Becomes(d, IF t \in rows THEN "stop" ELSE "row", t, r.todo \ {t}, r.name, r.whole)
    BY <1>8, <2>2
  <2> QED
    BY <2>1, <2>2 DEF ReadMetadata, r
<1>10. /\ ListTerminals(d) => Becomes(d, "next", r.on, Of(r.name, rows), r.name, r.whole)
       /\ DeleteRow(d) => Becomes(d, "next", NoCall, r.todo, r.name, r.whole)
  BY <1>6, <1>7 DEF ListTerminals, DeleteRow, list_terminals_by_session, r
<1>11. /\ StopReader(d) => Becomes(d, "kill", r.on, r.todo, r.name, r.whole)
       /\ KillWindow(d) => Becomes(d, "row", r.on, r.todo, r.name, r.whole)
       /\ KillSession(d) => Becomes(d, "env", r.on, r.todo, r.name, r.whole)
       /\ ClearSessionEnv(d) => Becomes(d, "idle", NoCall, {}, nowhere, FALSE)
  BY <1>4, <1>5 DEF StopReader, KillWindow, KillSession, ClearSessionEnv, r
<1> QED
  BY <1>9, <1>10, <1>11 DEF r

LEMMA RequestFacts ==
    ASSUME Inv
    PROVE  /\ \A d \in Threads, t \in Calls :
                 RequestTerminal(d, t) => Becomes(d, "next", NoCall, {t}, home[t], FALSE)
           /\ \A d \in Threads, n \in Names :
                 RequestSession(d, n) => Becomes(d, "list", NoCall, {}, n, TRUE)
           /\ \A c \in Calls : NotifyCaller(c) => Becomes(c, "next", NoCall, {c}, home[c], FALSE)
<1>1. del \in [Deleting -> DelType] /\ Threads \subseteq Deleting /\ Calls \subseteq Deleting
  BY DEF Inv, TypeOK, Deleting
<1>2. ASSUME NEW d \in Threads, NEW t \in Calls, RequestTerminal(d, t)
      PROVE  Becomes(d, "next", NoCall, {t}, home[t], FALSE)
  BY <1>1, <1>2 DEF RequestTerminal, Delete, NoDeletion, Becomes
<1>3. ASSUME NEW d \in Threads, NEW n \in Names, RequestSession(d, n)
      PROVE  Becomes(d, "list", NoCall, {}, n, TRUE)
  BY <1>1, <1>3 DEF RequestSession, Delete, NoDeletion, Becomes
<1>4. ASSUME NEW c \in Calls, NotifyCaller(c)
      PROVE  Becomes(c, "next", NoCall, {c}, home[c], FALSE)
  BY <1>1, <1>4 DEF NotifyCaller, NoDeletion, Becomes
<1> QED
  BY <1>2, <1>3, <1>4

\* What a call that has begun does to itself.
LEMMA StepFacts ==
    ASSUME Inv, NEW c \in Calls, Step(c)
    PROVE  /\ \A x \in Calls \ {c} : call'[x] = call[x]
           /\ call'[c].kind = call[c].kind
           /\ UNCHANGED <<home, restoring, sweeping, aged, deleted>>
           /\ \/ /\ WriteRow(c) /\ call[c].pc = "made" /\ loop = c /\ UNCHANGED loop
                 /\ \/ call'[c].pc = "written" /\ rows' = rows \cup {c}
                    \/ call'[c].pc = "rollback" /\ UNCHANGED rows
                 /\ UNCHANGED <<windows, readers, provs, left, del, told>>
              \/ /\ StartReader(c) /\ call[c].pc = "written" /\ loop = c
                 /\ readers' = readers \cup {c}
                 /\ \/ call'[c].pc = "rollback" /\ UNCHANGED <<provs, loop>>
                    \/ /\ call'[c].pc \in {"init", "deferred"} /\ c \in windows
                       /\ call'[c].pc = "deferred" => call[c].kind = "assign"
                       /\ provs' = provs \cup {c} /\ loop' = NoCall
                 /\ UNCHANGED <<windows, rows, left, del, told>>
              \/ /\ Initialized(c) \/ InitRaises(c) \/ SendInput(c) \/ WorkerDeleted(c)
                 /\ \/ <<call[c].pc, call'[c].pc>> \in
                          {<<"init", "ready">>, <<"deferred", "sending">>, <<"deferred", "notify">>,
                           <<"sending", "ready">>, <<"sending", "notify">>, <<"deleting", "gone">>}
                       /\ UNCHANGED loop
                    \/ call[c].pc = "init" /\ call'[c].pc = "rollback" /\ loop = NoCall /\ loop' = c
                 /\ told \subseteq told'
                 /\ UNCHANGED <<windows, rows, readers, provs, left, del>>
              \/ /\ Rollback(c) /\ call[c].pc = "rollback" /\ call'[c].pc = "failed"
                 /\ loop = c /\ loop' = NoCall
                 /\ readers' = readers \ {c} /\ provs' = provs \ {c} /\ rows' = rows \ {c}
                 /\ windows' = windows \ RolledBack(c) \/ UNCHANGED windows
                 /\ left' \in {left, left \cup {c}}
                 /\ UNCHANGED <<del, told>>
              \/ /\ NotifyCaller(c) /\ call[c].pc = "notify" /\ call'[c].pc = "deleting"
                 /\ told' \in Notice(c)
                 /\ UNCHANGED <<windows, rows, readers, provs, left, loop>>
<1>t. TypeOK
  BY DEF Inv
<1>1. ASSUME NEW p \in {"written", "init", "rollback", "deferred", "sending", "notify", "deleting",
                        "ready", "failed", "gone"}, GoTo(c, p)
      PROVE  /\ call'[c].pc = p /\ call'[c].kind = call[c].kind
             /\ \A x \in Calls \ {c} : call'[x] = call[x]
  BY <1>t, <1>1, GoToEffect
<1>2. CASE WriteRow(c)
  BY <1>1, <1>2 DEF WriteRow, At, InCall, session, startup, history
<1>3. CASE StartReader(c)
  BY <1>1, <1>3 DEF StartReader, At, InCall, session, startup, history
<1>4. CASE Initialized(c)
  BY <1>1, <1>4 DEF Initialized, At, InCall, session, startup, history, made
<1>5. CASE InitRaises(c)
  BY <1>1, <1>5 DEF InitRaises, At, Free, InCall, session, startup, history, made
<1>6. CASE Rollback(c)
  BY <1>1, <1>6 DEF Rollback, At, startup, Forgotten
<1>7. CASE SendInput(c)
  BY <1>1, <1>7 DEF SendInput, At, InTask, Notice, session, startup, history
<1>8. CASE NotifyCaller(c)
  BY <1>1, <1>8 DEF NotifyCaller, At, InTask, session, startup, history
<1>9. CASE WorkerDeleted(c)
  BY <1>1, <1>9 DEF WorkerDeleted, At, InTask, session, startup, history
<1> QED
  BY <1>2, <1>3, <1>4, <1>5, <1>6, <1>7, <1>8, <1>9 DEF Step

\* The steps of the threads, of the agents and of the startup, by what they leave alone.
Elsewhere ==
    \/ UNCHANGED vars
    \/ \E t \in Calls : Use(t) \/ CloseWindow(t) \/ RestoreMonitor(t) \/ SweepReader(t)
    \/ SweepRows

Request == \E d \in Threads : (\E t \in Calls : RequestTerminal(d, t))
                              \/ (\E n \in Names : RequestSession(d, n))

LEMMA Steps ==
    ASSUME [Next]_vars
    PROVE  \/ \E c \in Calls : Start(c) \/ Step(c)
           \/ \E d \in Deleting : Deletion(d)
           \/ Request \/ Elsewhere \/ Crash
BY DEF Next, Request, Elsewhere, Sweep

LEMMA ElsewhereFacts ==
    ASSUME Elsewhere
    PROVE  /\ UNCHANGED <<call, home, loop, del, told, deleted>>
           /\ windows' \subseteq windows /\ windows \ windows' \subseteq left'
           /\ rows' \subseteq rows /\ rows \ rows' \subseteq left' \cap aged
           /\ left \subseteq left' /\ restoring' \subseteq restoring
           /\ aged' \subseteq aged /\ sweeping' \subseteq sweeping
<1>1. CASE UNCHANGED vars
  BY <1>1 DEF vars
<1>2. ASSUME NEW t \in Calls, Use(t) \/ CloseWindow(t) \/ RestoreMonitor(t) \/ SweepReader(t)
      PROVE  /\ UNCHANGED <<call, home, loop, del, told, deleted>>
             /\ windows' \subseteq windows /\ windows \ windows' \subseteq left'
             /\ rows' \subseteq rows /\ rows \ rows' \subseteq left' \cap aged
             /\ left \subseteq left' /\ restoring' \subseteq restoring
             /\ aged' \subseteq aged /\ sweeping' \subseteq sweeping
  BY <1>2 DEF Use, CloseWindow, RestoreMonitor, SweepReader, Outside, made, startup, history
<1>3. CASE SweepRows
  BY <1>3 DEF SweepRows, Outside
<1> QED
  BY <1>1, <1>2, <1>3 DEF Elsewhere

LEMMA DeletionLeaves ==
    ASSUME NEW d, Deletion(d) \/ Request
    PROVE  UNCHANGED <<call, home, loop, told, restoring, sweeping, aged>>
BY DEF Deletion, Request, ListTerminals, ReadMetadata, StopReader, KillWindow, DeleteRow,
       KillSession, ClearSessionEnv, RequestTerminal, RequestSession, InThread, startup

LEMMA CrashFacts ==
    ASSUME Inv, Crash
    PROVE  /\ readers' = {} /\ provs' = {} /\ loop' = NoCall /\ restoring' = rows
           /\ UNCHANGED <<windows, rows, home, told, deleted>>
           /\ rows \ windows \subseteq left' /\ left \subseteq left'
           /\ \A c \in Calls : ~Working(c)' /\ call'[c].kind = call[c].kind
                               /\ (~Working(c) => call'[c] = call[c])
                               /\ (Working(c) => call'[c].pc = "lost")
           /\ \A d \in Deleting : del'[d] = NoDeletion
           /\ aged' \subseteq rows /\ sweeping' \subseteq rows
<1>1. call \in [Calls -> CallType]
  BY DEF Inv, TypeOK
<1>2. \A c \in Calls : call'[c] = IF Working(c) THEN [call[c] EXCEPT !.pc = "lost"] ELSE call[c]
  BY DEF Crash, Working
<1>3. \A c \in Calls : Working(c) => call'[c].pc = "lost" /\ call'[c].kind = call[c].kind
  BY <1>1, <1>2 DEF CallType
<1>4. \A c \in Calls : ~Working(c)' /\ call'[c].kind = call[c].kind
                       /\ (~Working(c) => call'[c] = call[c])
                       /\ (Working(c) => call'[c].pc = "lost")
  BY <1>2, <1>3 DEF Working, Active
<1> QED
  BY <1>4 DEF Crash, Outside

-----------------------------------------------------------------------------
LEMMA LoopHeldStep == Inv /\ Sober /\ ~Overlap /\ [Next]_vars => LoopHeld'
<1> SUFFICES ASSUME Inv, LoopHeld, ~Overlap, [Next]_vars PROVE LoopHeld'
  BY DEF Sober
<1> USE DEF LoopHeld, OnLoop
<1>1. ASSUME NEW c \in Calls, Start(c) PROVE LoopHeld'
  BY <1>1, StartFacts
<1>2. ASSUME NEW c \in Calls, Step(c) PROVE LoopHeld'
  BY <1>2, StepFacts
<1>3. CASE Request \/ Elsewhere \/ \E d \in Deleting : Deletion(d)
  BY <1>3, ElsewhereFacts, DeletionLeaves
<1>4. CASE Crash
  BY <1>4, CrashFacts DEF Working, Active
<1> QED
  BY <1>1, <1>2, <1>3, <1>4, Steps

LEMMA DeletionHomeStep == Inv /\ Sober /\ ~Overlap /\ [Next]_vars => DeletionHome'
<1> SUFFICES ASSUME Inv, Sober, ~Overlap, [Next]_vars PROVE DeletionHome'
  OBVIOUS
<1>d. DeletionHome /\ Undisturbed /\ LoopHeld
  BY DEF Sober
<1>n. NoCall \notin Calls
  OBVIOUS
<1>t. \A d \in Deleting : del[d].todo \subseteq Calls
  BY DEF Inv, TypeOK, DelType
<1>1. ASSUME NEW c \in Calls, Start(c) PROVE DeletionHome'
  <2>1. UNCHANGED del /\ call[c].pc = "unused" /\ ~(call'[c].pc = "deleting")
        /\ \A x \in Calls \ {c} : call'[x] = call[x] /\ home'[x] = home[x]
    BY <1>1, StartFacts
  <2> QED
    BY <1>d, <2>1 DEF DeletionHome, Meant
<1>2. ASSUME NEW c \in Calls, Step(c) PROVE DeletionHome'
  <2>1. CASE NotifyCaller(c)
    <3>1. Becomes(c, "next", NoCall, {c}, home[c], FALSE) /\ call'[c].pc = "deleting"
          /\ UNCHANGED home /\ \A x \in Calls \ {c} : call'[x] = call[x]
      BY <2>1, <1>2, RequestFacts, StepFacts DEF NotifyCaller, At, WriteRow, StartReader, Rollback
    <3> QED
      BY <1>d, <1>n, <3>1 DEF DeletionHome, Meant, Becomes, Deleting
  <2>2. CASE ~NotifyCaller(c)
    <3>1. UNCHANGED <<del, home>> /\ \A x \in Calls \ {c} : call'[x] = call[x]
      BY <1>2, <2>2, StepFacts
    <3>2. call'[c].pc \in {"unused", "made", "written"}
             => call[c].pc \in {"unused", "made", "written"}
      BY <1>2, StepFacts
    <3>3. call[c].pc = "deleting" => call'[c].pc = "deleting" \/ del[c].pc = "idle"
      BY <1>2, StepFacts DEF WorkerDeleted, Initialized, InitRaises, SendInput, At
    <3> QED
      BY <1>d, <3>1, <3>2, <3>3 DEF DeletionHome, Meant
  <2> QED
    BY <2>1, <2>2
<1>3. CASE Request
  <2>1. UNCHANGED <<call, home>>
    BY <1>3, DeletionLeaves
  <2>2. ASSUME NEW d \in Threads, NEW t \in Calls, RequestTerminal(d, t) PROVE DeletionHome'
    <3>1. Becomes(d, "next", NoCall, {t}, home[t], FALSE) /\ d \notin Calls /\ d \in Deleting
      BY <2>2, RequestFacts DEF Deleting
    <3>2. call[t].pc \notin {"unused", "made", "written"}
      BY <1>d, <1>n, <2>2 DEF RequestTerminal, Free, LoopHeld, OnLoop, Inv, Written
    <3> QED
      BY <1>d, <1>n, <2>1, <3>1, <3>2 DEF DeletionHome, Meant, Becomes, Deleting
  <2>3. ASSUME NEW d \in Threads, NEW n \in Names, RequestSession(d, n) PROVE DeletionHome'
    <3>1. Becomes(d, "list", NoCall, {}, n, TRUE) /\ d \notin Calls /\ d \in Deleting
      BY <2>3, RequestFacts DEF Deleting
    <3> QED
      BY <1>d, <1>n, <2>1, <3>1 DEF DeletionHome, Meant, Becomes, Deleting
  <2> QED
    BY <1>3, <2>2, <2>3 DEF Request
<1>4. ASSUME NEW d \in Deleting, Deletion(d) PROVE DeletionHome'
  <2>1. UNCHANGED <<call, home>>
    BY <1>4, DeletionLeaves
  <2>2. \A p, o, T, m, w :
           /\ Becomes(d, p, o, T, m, w)
           /\ p \in {"list", "session", "env"} => w
           /\ \/ p = "idle" /\ T = {} /\ o = NoCall /\ ~w
              \/ /\ p # "idle" /\ del[d].pc # "idle" /\ m = del[d].name /\ w = del[d].whole
                 /\ T \subseteq {t \in Calls : call[t].pc \notin {"unused", "made", "written"}
                                               /\ home[t] = m}
                 /\ \/ o = NoCall
                    \/ o = del[d].on /\ p \in {"stop", "kill", "row"}
                    \/ o \in del[d].todo /\ p \in {"stop", "row"}
           => DeletionHome'
    BY <1>d, <1>n, <1>t, <2>1 DEF DeletionHome, Meant, Becomes, Deleting
  <2>3. CASE ListTerminals(d)
    <3>1. Becomes(d, "next", del[d].on, Of(del[d].name, rows), del[d].name, del[d].whole)
          /\ del[d].pc = "list" /\ del[d].on = NoCall
      BY <1>d, <2>3, DeletionFacts DEF ListTerminals, DeletionHome
    <3>2. \A t \in Of(del[d].name, rows) :
             t \in Calls /\ home[t] = del[d].name /\ call[t].pc \notin {"unused", "made"}
      BY DEF Of, Inv, TypeOK, Written
    <3>3. d \in Threads /\ del[d].whole
      BY <1>d, <3>1 DEF DeletionHome, Deleting
    <3>4. \A t \in Of(del[d].name, rows) : call[t].pc # "written"
      BY <1>d, <3>2, <3>3 DEF Undisturbed, Working, Active
    <3> QED
      BY <2>2, <3>1, <3>2, <3>4
  <2>4. CASE ReadMetadata(d)
    <3>1. del[d].pc = "next"
      BY <2>4 DEF ReadMetadata
    <3>2. /\ del[d].on = NoCall
          /\ \A t \in del[d].todo : /\ t \in Calls /\ home[t] = del[d].name
                                   /\ call[t].pc \notin {"unused", "made", "written"}
      BY <1>d, <1>t, <3>1 DEF DeletionHome, Meant
    <3>3. CASE /\ del[d].todo = {} /\ del[d].whole
               /\ Becomes(d, "session", del[d].on, del[d].todo, del[d].name, del[d].whole)
      BY <2>2, <3>1, <3>2, <3>3
    <3>4. ASSUME Becomes(d, "idle", NoCall, {}, CHOOSE n \in Names : TRUE, FALSE)
          PROVE  DeletionHome'
      <4> DEFINE m == CHOOSE n \in Names : TRUE
      <4>1. Becomes(d, "idle", NoCall, {}, m, FALSE)
        BY <3>4
      <4> HIDE DEF m
      <4> QED
        BY <2>2, <4>1
    <3>5. ASSUME NEW t \in del[d].todo,
                 Becomes(d, IF t \in rows THEN "stop" ELSE "row", t, del[d].todo \ {t},
                         del[d].name, del[d].whole)
          PROVE  DeletionHome'
      <4>1. PICK p \in {"stop", "row"} :
                Becomes(d, p, t, del[d].todo \ {t}, del[d].name, del[d].whole)
        BY <3>5
      <4> QED
        BY <2>2, <3>1, <3>2, <4>1
    <3> QED
      BY <2>4, <3>3, <3>4, <3>5, DeletionFacts
  <2>5. CASE StopReader(d) \/ KillWindow(d) \/ DeleteRow(d) \/ KillSession(d)
    <3>1. PICK p \in {"kill", "row", "next", "env"}, o \in {del[d].on, NoCall} :
             /\ Becomes(d, p, o, del[d].todo, del[d].name, del[d].whole)
             /\ p = "env" => del[d].whole
             /\ o = NoCall \/ p \in {"kill", "row"} \/ del[d].on = NoCall
             /\ del[d].pc # "idle"
      BY <1>d, <2>5, DeletionFacts
         DEF StopReader, KillWindow, DeleteRow, KillSession, DeletionHome
    <3>2. \A t \in del[d].todo : /\ t \in Calls /\ home[t] = del[d].name
                                /\ call[t].pc \notin {"unused", "made", "written"}
      BY <1>d, <1>t, <3>1 DEF DeletionHome, Meant
    <3> QED
      BY <2>2, <3>1, <3>2
  <2>6. CASE ClearSessionEnv(d)
    <3> DEFINE m == CHOOSE n \in Names : TRUE
    <3>1. Becomes(d, "idle", NoCall, {}, m, FALSE)
      BY <2>6, DeletionFacts
    <3> HIDE DEF m
    <3> QED
      BY <2>2, <3>1
  <2> QED
    BY <1>4, <2>3, <2>4, <2>5, <2>6 DEF Deletion
<1>5. CASE Elsewhere
  BY <1>d, <1>5, ElsewhereFacts DEF DeletionHome, Meant
<1>6. CASE Crash
  <2>1. \A d \in Deleting : /\ del'[d].pc = "idle" /\ del'[d].todo = {} /\ ~del'[d].whole
                            /\ del'[d].on = NoCall
    <3>1. \A d \in Deleting : del'[d] = NoDeletion
      BY <1>6, CrashFacts
    <3>2. NoDeletion.pc = "idle" /\ NoDeletion.todo = {} /\ ~NoDeletion.whole
          /\ NoDeletion.on = NoCall
      BY DEF NoDeletion
    <3> QED
      BY <3>1, <3>2
  <2> QED
    BY <1>n, <2>1 DEF DeletionHome, Meant, Deleting
<1> QED
  BY <1>1, <1>2, <1>3, <1>4, <1>5, <1>6, Steps

LEMMA DeletionTakes ==
    ASSUME NEW d \in Deleting, Deletion(d)
    PROVE  /\ windows' \subseteq windows /\ rows' \subseteq rows
           /\ readers' \subseteq readers /\ provs' \subseteq provs
           /\ deleted \subseteq deleted' /\ left \subseteq left'
           /\ del[d].pc # "idle"
BY DEF Deletion, ListTerminals, ReadMetadata, StopReader, KillWindow, DeleteRow,
       KillSession, ClearSessionEnv, made, history, Of

LEMMA RequestTakes ==
    ASSUME Request
    PROVE  /\ UNCHANGED <<windows, rows, readers, provs, left>>
           /\ deleted \subseteq deleted'
           /\ restoring = {}
BY DEF Request, RequestTerminal, RequestSession, made, history

\* A deletion stays what it was asked for until it is over.
LEMMA DeletionStays ==
    ASSUME Inv, NEW d \in Deleting, Deletion(d)
    PROVE  /\ \A e \in Deleting \ {d} : del'[e] = del[e]
           /\ \/ del'[d].whole = del[d].whole /\ del'[d].name = del[d].name /\ del'[d].pc # "idle"
              \/ del'[d].pc = "idle" /\ ~del'[d].whole /\ del'[d].todo = {} /\ del'[d].on = NoCall
<1> DEFINE nowhere == CHOOSE n \in Names : TRUE
<1>1. \A p, o, T, m, w :
         /\ Becomes(d, p, o, T, m, w)
         /\ \/ p = "idle" /\ o = NoCall /\ T = {} /\ ~w
            \/ p # "idle" /\ m = del[d].name /\ w = del[d].whole
         => /\ \A e \in Deleting \ {d} : del'[e] = del[e]
            /\ \/ del'[d].whole = del[d].whole /\ del'[d].name = del[d].name /\ del'[d].pc # "idle"
               \/ del'[d].pc = "idle" /\ ~del'[d].whole /\ del'[d].todo = {} /\ del'[d].on = NoCall
  BY DEF Becomes
<1>2. CASE ReadMetadata(d)
  <2>1. ASSUME NEW t \in del[d].todo,
               Becomes(d, IF t \in rows THEN "stop" ELSE "row", t, del[d].todo \ {t},
                       del[d].name, del[d].whole)
        PROVE  \E p \in {"stop", "row"} :
                  Becomes(d, p, t, del[d].todo \ {t}, del[d].name, del[d].whole)
    BY <2>1
  <2> HIDE DEF nowhere
  <2>2. \/ \E p \in {"session", "stop", "row"} : \E o, T :
              Becomes(d, p, o, T, del[d].name, del[d].whole)
        \/ Becomes(d, "idle", NoCall, {}, nowhere, FALSE)
    BY <1>2, <2>1, DeletionFacts DEF nowhere
  <2> QED
    BY <1>1, <2>2
<1>3. CASE ~ReadMetadata(d)
  <2> HIDE DEF nowhere
  <2>1. \/ \E p \in {"next", "kill", "row", "env"} : \E o, T :
              Becomes(d, p, o, T, del[d].name, del[d].whole)
        \/ Becomes(d, "idle", NoCall, {}, nowhere, FALSE)
    BY <1>3, DeletionFacts DEF Deletion, nowhere
  <2> QED
    BY <1>1, <2>1
<1> QED
  BY <1>2, <1>3

LEMMA StepKeepsIdle ==
    ASSUME Inv, NEW c \in Calls, Step(c)
    PROVE  /\ Working(c) /\ \A x \in Calls : Working(x)' => Working(x)
           /\ \A d \in Threads : del'[d] = del[d]
           /\ windows' \subseteq windows /\ left \subseteq left' /\ told \subseteq told'
           /\ \A x \in Calls : call'[x].kind = call[x].kind
<1>1. Working(c)
  BY StepFacts DEF Working, Active
<1>2. \A d \in Threads : del'[d] = del[d]
  <2>1. UNCHANGED del \/ Becomes(c, "next", NoCall, {c}, home[c], FALSE)
    BY StepFacts, RequestFacts
  <2> QED
    BY <2>1 DEF Becomes, Deleting
<1>3. windows' \subseteq windows /\ left \subseteq left' /\ told \subseteq told'
  BY StepFacts DEF Notice
<1> QED
  BY <1>1, <1>2, <1>3, StepFacts DEF Working

-----------------------------------------------------------------------------
LEMMA UndisturbedStep == Inv /\ Sober /\ ~Overlap /\ [Next]_vars => Undisturbed'
<1> SUFFICES ASSUME Inv, Sober, ~Overlap, [Next]_vars PROVE Undisturbed'
  OBVIOUS
<1>d. DeletionHome /\ Undisturbed
  BY DEF Sober
<1>1. ASSUME NEW c \in Calls, Start(c) PROVE Undisturbed'
  <2>1. PICK n \in Names, p \in {"made", "failed"} :
              /\ call'[c].pc = p /\ home'[c] = n
              /\ \A x \in Calls \ {c} : call'[x] = call[x] /\ home'[x] = home[x]
              /\ UNCHANGED del
              /\ p = "made" => Alone(n) \/ Welcome(n)
    BY <1>1, StartFacts
  <2>2. ASSUME NEW d \in Threads, del[d].whole, del[d].name = n PROVE p = "failed"
    <3>1. d \in Deleting /\ del[d].pc # "idle"
      BY <1>d, <2>2 DEF DeletionHome, Deleting
    <3> QED
      BY <2>1, <2>2, <3>1 DEF Alone, Welcome
  <2>3. p = "failed" => ~Working(c)'
    BY <2>1 DEF Working, Active
  <2> QED
    BY <1>d, <2>1, <2>2, <2>3 DEF Undisturbed, Working
<1>2. ASSUME NEW c \in Calls, Step(c) PROVE Undisturbed'
  BY <1>d, <1>2, StepKeepsIdle, StepFacts DEF Undisturbed
<1>3. CASE Request
  <2>1. UNCHANGED <<call, home>>
    BY <1>3, DeletionLeaves
  <2>2. ASSUME NEW d \in Threads, NEW t \in Calls, RequestTerminal(d, t) PROVE Undisturbed'
    <3>1. Becomes(d, "next", NoCall, {t}, home[t], FALSE)
      BY <2>2, RequestFacts
    <3> QED
      BY <1>d, <2>1, <3>1 DEF Becomes, Deleting, Undisturbed, Working
  <2>3. ASSUME NEW d \in Threads, NEW n \in Names, RequestSession(d, n) PROVE Undisturbed'
    <3>1. \A c \in Calls : home[c] = n => ~Working(c)
      BY <2>3 DEF RequestSession, Exclusive, Working
    <3>2. Becomes(d, "list", NoCall, {}, n, TRUE)
      BY <2>3, RequestFacts
    <3> QED
      BY <1>d, <2>1, <3>1, <3>2 DEF Becomes, Deleting, Undisturbed, Working
  <2> QED
    BY <1>3, <2>2, <2>3 DEF Request
<1>4. ASSUME NEW d \in Deleting, Deletion(d) PROVE Undisturbed'
  BY <1>d, <1>4, DeletionStays, DeletionLeaves DEF Undisturbed, Deleting, Working
<1>5. CASE Elsewhere
  BY <1>d, <1>5, ElsewhereFacts DEF Undisturbed, Working
<1>6. CASE Crash
  BY <1>6, CrashFacts DEF Undisturbed
<1> QED
  BY <1>1, <1>2, <1>3, <1>4, <1>5, <1>6, Steps

LEMMA OwnSessionStep == Inv /\ Sober /\ ~Overlap /\ [Next]_vars => OwnSession'
<1> SUFFICES ASSUME Inv, Sober, ~Overlap, [Next]_vars PROVE OwnSession'
  OBVIOUS
<1>d. OwnSession
  BY DEF Sober
<1>1. ASSUME NEW c \in Calls, Start(c) PROVE OwnSession'
  <2>1. PICK n \in Names, p \in {"made", "failed"} :
              /\ call[c].pc = "unused"
              /\ call'[c].pc = p /\ home'[c] = n
              /\ \A x \in Calls \ {c} : call'[x] = call[x] /\ home'[x] = home[x]
              /\ p = "failed" => UNCHANGED windows
              /\ p = "made" => \/ Alone(n) /\ Recycles(c, n)
                               \/ Welcome(n) /\ Joins(c) /\ ~Owner(c)'
    BY <1>1, StartFacts
  <2>2. c \notin windows
    BY <2>1 DEF Inv, WindowOK
  <2>3. ASSUME NEW x \in Calls, Working(x)', Owner(x)', NEW t \in windows', home'[t] = home'[x]
        PROVE  t = x
    <3>1. CASE p = "failed"
      <4>1. x # c /\ t # c /\ t \in windows
        BY <2>1, <2>2, <2>3, <3>1 DEF Working, Active
      <4> QED
        BY <1>d, <2>1, <2>3, <4>1 DEF OwnSession, Working, Owner, Of, Inv, TypeOK
    <3>2. CASE p = "made" /\ x = c
      BY <2>1, <2>3, <3>2 DEF Recycles, Of, Inv, TypeOK
    <3>3. CASE p = "made" /\ x # c
      <4>1. Working(x) /\ Owner(x) /\ home'[x] = home[x]
        BY <2>1, <2>3, <3>3 DEF Working, Owner
      <4>2. home[x] # n
        BY <2>1, <3>3, <4>1 DEF Alone, Welcome
      <4>3. t \in windows /\ t # c
        BY <2>1, <2>3, <3>3, <4>1, <4>2 DEF Recycles, Joins
      <4> QED
        BY <1>d, <2>1, <2>3, <4>1, <4>3 DEF OwnSession, Of, Inv, TypeOK
    <3> QED
      BY <2>1, <3>1, <3>2, <3>3
  <2> QED
    BY <2>3 DEF OwnSession, Of
<1>2. ASSUME NEW c \in Calls, Step(c) PROVE OwnSession'
  BY <1>d, <1>2, StepKeepsIdle, StepFacts DEF OwnSession, Of, Owner
<1>3. CASE Request \/ Elsewhere \/ \E d \in Deleting : Deletion(d)
  <2>1. windows' \subseteq windows /\ UNCHANGED <<call, home>>
    BY <1>3, ElsewhereFacts, DeletionLeaves, DeletionTakes, RequestTakes
  <2> QED
    BY <1>d, <2>1 DEF OwnSession, Of, Owner, Working
<1>4. CASE Crash
  BY <1>4, CrashFacts DEF OwnSession
<1> QED
  BY <1>1, <1>2, <1>3, <1>4, Steps

LEMMA StartupFirstStep == Inv /\ Sober /\ ~Overlap /\ [Next]_vars => StartupFirst'
<1> SUFFICES ASSUME Inv, Sober, ~Overlap, [Next]_vars PROVE StartupFirst'
  OBVIOUS
<1>d. StartupFirst /\ aged \subseteq Calls /\ sweeping \subseteq Calls
  BY DEF Sober, Inv, TypeOK
<1>1. ASSUME NEW c \in Calls, Start(c) PROVE StartupFirst'
  <2>1. /\ call[c].pc = "unused" /\ restoring = {}
        /\ \A x \in Calls \ {c} : call'[x] = call[x]
        /\ UNCHANGED <<restoring, sweeping, aged>>
    BY <1>1, StartFacts
  <2> QED
    BY <1>d, <2>1 DEF StartupFirst, Working
<1>2. ASSUME NEW c \in Calls, Step(c) PROVE StartupFirst'
  <2>1. Working(c) /\ UNCHANGED <<restoring, sweeping, aged>>
        /\ \A x \in Calls \ {c} : call'[x] = call[x]
    BY <1>2, StepKeepsIdle, StepFacts
  <2> QED
    BY <1>d, <2>1 DEF StartupFirst, Working
<1>3. CASE Request
  BY <1>d, <1>3, RequestTakes, DeletionLeaves DEF StartupFirst, Working
<1>4. ASSUME NEW d \in Deleting, Deletion(d) PROVE StartupFirst'
  BY <1>d, <1>4, DeletionTakes, DeletionLeaves DEF StartupFirst, Working
<1>5. CASE Elsewhere
  BY <1>d, <1>5, ElsewhereFacts DEF StartupFirst, Working
<1>6. CASE Crash
  <2>1. \A d \in Deleting : del'[d].pc = "idle"
    <3>1. \A d \in Deleting : del'[d] = NoDeletion
      BY <1>6, CrashFacts
    <3>2. NoDeletion.pc = "idle"
      BY DEF NoDeletion
    <3> QED
      BY <3>1, <3>2
  <2>2. \A c \in rows : c \in Calls /\ call[c].pc # "unused"
    BY DEF Inv, Written, TypeOK
  <2> QED
    BY <1>6, <2>1, <2>2, CrashFacts DEF StartupFirst
<1> QED
  BY <1>1, <1>2, <1>3, <1>4, <1>5, <1>6, Steps

\* What a step that removes rows of a recycled session takes of a terminal.
LEMMA RecycledIsIdle ==
    ASSUME Inv, NEW n \in Names, NEW c \in Calls, Alone(n), Recycles(c, n),
           NEW t \in Calls, t # c
    PROVE  /\ Working(t) => ((t \in rows)' <=> t \in rows)
           /\ (t \in rows)' => t \in rows /\ (t \in windows => (t \in windows)')
           /\ (t \in readers)' <=> t \in readers /\ (t \in rows => (t \in rows)')
           /\ (t \in provs)' <=> t \in provs /\ (t \in rows => (t \in rows)')
BY DEF Alone, Recycles, Of

LEMMA RowOfAllStep == Inv /\ Sober /\ ~Overlap /\ [Next]_vars => RowOfAll'
<1> SUFFICES ASSUME Inv, Sober, ~Overlap, [Next]_vars PROVE RowOfAll'
  OBVIOUS
<1>d. RowOfAll /\ DeletionHome /\ ReaderStopped /\ RowsInHand /\ StartupFirst
  BY DEF Sober
<1>t. readers \subseteq Calls /\ provs \subseteq Calls /\ rows \subseteq Calls
  BY DEF Inv, TypeOK
<1>1. ASSUME NEW c \in Calls, Start(c) PROVE RowOfAll'
  <2>1. PICK n \in Names, p \in {"made", "failed"} :
              /\ call'[c].pc = p /\ UNCHANGED left
              /\ \A x \in Calls \ {c} : call'[x] = call[x]
              /\ p = "failed" => UNCHANGED <<windows, rows, readers, provs>>
              /\ p = "made" => \/ Alone(n) /\ Recycles(c, n)
                               \/ Welcome(n) /\ Joins(c) /\ ~Owner(c)'
    BY <1>1, StartFacts
  <2>2. CASE UNCHANGED <<rows, readers, provs>>
    BY <1>d, <2>1, <2>2 DEF RowOfAll
  <2>3. CASE Alone(n) /\ Recycles(c, n)
    <3>1. readers' \cup provs' \subseteq rows' \cup left'
      BY <1>d, <2>1, <2>3 DEF RowOfAll, Recycles
    <3>2. ASSUME NEW x \in Calls, call'[x].pc = "written" PROVE x \in rows'
      <4>1. x # c /\ Working(x) /\ x \in rows
        BY <1>d, <2>1, <3>2 DEF RowOfAll, Working, Active
      <4> QED
        BY <2>3, <4>1, RecycledIsIdle
    <3> QED
      BY <3>1, <3>2 DEF RowOfAll
  <2> QED
    BY <2>1, <2>2, <2>3 DEF Joins
<1>2. ASSUME NEW c \in Calls, Step(c) PROVE RowOfAll'
  <2>1. \A x \in Calls \ {c} : call'[x] = call[x]
    BY <1>2, StepFacts
  <2>2. /\ readers' \cup provs' \subseteq rows' \cup left'
        /\ \A x \in Calls \ {c} : x \in rows => x \in rows'
        /\ call'[c].pc = "written" => c \in rows'
    BY <1>d, <1>2, StepFacts DEF RowOfAll
  <2> QED
    BY <1>d, <2>1, <2>2 DEF RowOfAll
<1>3. CASE Request
  BY <1>d, <1>3, RequestTakes, DeletionLeaves DEF RowOfAll
<1>4. ASSUME NEW d \in Deleting, Deletion(d) PROVE RowOfAll'
  <2>1. UNCHANGED call
    BY <1>4, DeletionLeaves
  <2>2. CASE DeleteRow(d)
    <3>1. /\ rows' = rows \ {del[d].on} /\ provs' = provs \ {del[d].on}
          /\ UNCHANGED <<readers, left>> /\ del[d].pc = "row"
      BY <2>2 DEF DeleteRow, history
    <3>2. \A t \in Calls : del[d].on = t => (t \in left \/ t \notin readers)
                                            /\ call[t].pc # "written"
      BY <1>d, <3>1 DEF ReaderStopped, Undoing, DeletionHome, Meant
    <3> QED
      BY <1>d, <1>t, <2>1, <3>1, <3>2 DEF RowOfAll
  <2>3. CASE ~DeleteRow(d)
    <3>1. UNCHANGED rows
      BY <1>4, <2>3 DEF Deletion, ListTerminals, ReadMetadata, StopReader, KillWindow,
                        KillSession, ClearSessionEnv, made
    <3> QED
      BY <1>d, <1>4, <2>1, <3>1, DeletionTakes DEF RowOfAll
  <2> QED
    BY <2>2, <2>3
<1>5. CASE Elsewhere
  <2>1. readers' \cup provs' \subseteq readers \cup provs \cup restoring
    BY <1>5 DEF Elsewhere, vars, Use, CloseWindow, RestoreMonitor, SweepReader, SweepRows, made
  <2>2. \A x \in Calls : call[x].pc = "written" => x \notin aged
    BY <1>d DEF StartupFirst, Working, Active
  <2> QED
    BY <1>d, <1>5, <2>1, <2>2, ElsewhereFacts DEF RowOfAll, RowsInHand
<1>6. CASE Crash
  BY <1>6, CrashFacts DEF RowOfAll, Working, Active
<1> QED
  BY <1>1, <1>2, <1>3, <1>4, <1>5, <1>6, Steps

\* Where a deletion stands when it undoes a terminal.
LEMMA UndoingFacts ==
    ASSUME Inv, Sober, NEW d \in Deleting, Deletion(d)
    PROVE  /\ StopReader(d) => /\ \A t \in Calls : Undoing(d, t)' <=> t = del[d].on
                               /\ \A t \in Calls : ~Undoing(d, t)
           /\ KillWindow(d) => \A t \in Calls : /\ Undoing(d, t)' <=> t = del[d].on
                                                /\ Undoing(d, t) <=> t = del[d].on
           /\ ReadMetadata(d) =>
                 /\ \A t \in Calls : ~Undoing(d, t)
                 /\ \A t \in Calls : Undoing(d, t)' => t \notin rows
           /\ DeleteRow(d) => /\ \A t \in Calls : Undoing(d, t) <=> t = del[d].on
                              /\ \A t \in Calls : ~Undoing(d, t)'
           /\ ListTerminals(d) \/ KillSession(d) \/ ClearSessionEnv(d) =>
                 \A t \in Calls : ~Undoing(d, t) /\ ~Undoing(d, t)'
<1> DEFINE nowhere == CHOOSE n \in Names : TRUE
<1>d. DeletionHome
  BY DEF Sober
<1>1. StopReader(d) => /\ \A t \in Calls : Undoing(d, t)' <=> t = del[d].on
                       /\ \A t \in Calls : ~Undoing(d, t)
  BY DeletionFacts DEF StopReader, Becomes, Undoing
<1>2. KillWindow(d) => \A t \in Calls : /\ Undoing(d, t)' <=> t = del[d].on
                                        /\ Undoing(d, t) <=> t = del[d].on
  BY DeletionFacts DEF KillWindow, Becomes, Undoing
<1>3. ASSUME ReadMetadata(d)
      PROVE  /\ \A t \in Calls : ~Undoing(d, t)
             /\ \A t \in Calls : Undoing(d, t)' => t \notin rows
  <2>1. \A t \in Calls : ~Undoing(d, t)
    BY <1>3 DEF ReadMetadata, Undoing
  <2>2. ASSUME NEW t \in del[d].todo,
               Becomes(d, IF t \in rows THEN "stop" ELSE "row", t, del[d].todo \ {t},
                       del[d].name, del[d].whole)
        PROVE  \A x \in Calls : Undoing(d, x)' => x \notin rows
    BY <2>2 DEF Becomes, Undoing
  <2> HIDE DEF nowhere
  <2>3. \A o, T, m, w : Becomes(d, "session", o, T, m, w) \/ Becomes(d, "idle", o, T, m, w) =>
           \A x \in Calls : ~Undoing(d, x)'
    BY DEF Becomes, Undoing
  <2>4. \/ \E o, T, m, w : Becomes(d, "session", o, T, m, w) \/ Becomes(d, "idle", o, T, m, w)
        \/ \E t \in del[d].todo : Becomes(d, IF t \in rows THEN "stop" ELSE "row", t,
                                          del[d].todo \ {t}, del[d].name, del[d].whole)
    BY <1>3, DeletionFacts
  <2> QED
    BY <2>1, <2>2, <2>3, <2>4
<1>4. DeleteRow(d) => /\ \A t \in Calls : Undoing(d, t) <=> t = del[d].on
                      /\ \A t \in Calls : ~Undoing(d, t)'
  BY DeletionFacts DEF DeleteRow, Becomes, Undoing
<1>5. ListTerminals(d) \/ KillSession(d) \/ ClearSessionEnv(d) =>
         \A t \in Calls : ~Undoing(d, t) /\ ~Undoing(d, t)'
  <2>1. ListTerminals(d) \/ KillSession(d) \/ ClearSessionEnv(d) =>
           del[d].pc \in {"list", "session", "env"} /\ del'[d].pc \in {"next", "env", "idle"}
    BY DeletionFacts DEF ListTerminals, KillSession, ClearSessionEnv, Becomes
  <2> QED
    BY <2>1 DEF Undoing
<1> QED
  BY <1>1, <1>2, <1>3, <1>4, <1>5

\* Deletions that a call or a request begins undo nothing yet.
LEMMA BegunUndoesNothing ==
    ASSUME Inv, Sober, \/ \E c \in Calls : Step(c)
                       \/ Request
    PROVE  \A d \in Deleting, t \in Calls : Undoing(d, t)' <=> Undoing(d, t)
<1>d. DeletionHome
  BY DEF Sober
<1>1. ASSUME NEW e \in Deleting, NEW p \in {"next", "list"}, NEW o, NEW T, NEW m, NEW w,
             del[e].pc = "idle", Becomes(e, p, o, T, m, w)
      PROVE  \A d \in Deleting, t \in Calls : Undoing(d, t)' <=> Undoing(d, t)
  BY <1>1 DEF Becomes, Undoing
<1>2. ASSUME NEW c \in Calls, Step(c)
      PROVE  \A d \in Deleting, t \in Calls : Undoing(d, t)' <=> Undoing(d, t)
  <2>1. CASE NotifyCaller(c)
    <3>1. Becomes(c, "next", NoCall, {c}, home[c], FALSE) /\ call[c].pc = "notify"
      BY <2>1, RequestFacts DEF NotifyCaller, At
    <3>2. c \in Deleting /\ del[c].pc = "idle"
      BY <1>d, <3>1 DEF DeletionHome, Deleting
    <3> QED
      BY <1>1, <3>1, <3>2
  <2>2. CASE ~NotifyCaller(c)
    <3>1. UNCHANGED del
      BY <1>2, <2>2, StepFacts
    <3> QED
      BY <3>1 DEF Undoing
  <2> QED
    BY <2>1, <2>2
<1>3. CASE Request
  <2>1. PICK d \in Threads : \/ \E t \in Calls : RequestTerminal(d, t)
                             \/ \E n \in Names : RequestSession(d, n)
    BY <1>3 DEF Request
  <2>2. d \in Deleting /\ del[d].pc = "idle"
    BY <2>1 DEF RequestTerminal, RequestSession, Deleting
  <2>3. \E p \in {"next", "list"} : \E o, T, m, w : Becomes(d, p, o, T, m, w)
    BY <2>1, RequestFacts
  <2> QED
    BY <1>1, <2>2, <2>3
<1> QED
  BY <1>2, <1>3

LEMMA ReaderStoppedStep == Inv /\ Sober /\ ~Overlap /\ [Next]_vars => ReaderStopped'
<1> SUFFICES ASSUME Inv, Sober, ~Overlap, [Next]_vars PROVE ReaderStopped'
  OBVIOUS
<1>d. DeletionHome /\ ReaderStopped /\ RowOfAll /\ StartupFirst
  BY DEF Sober
<1>1. ASSUME NEW c \in Calls, Start(c) PROVE ReaderStopped'
  <2>1. UNCHANGED <<del, left>> /\ readers' \subseteq readers
    BY <1>1, StartFacts DEF Recycles, Joins
  <2> QED
    BY <1>d, <2>1 DEF ReaderStopped, Undoing
<1>2. ASSUME NEW c \in Calls, Step(c) PROVE ReaderStopped'
  <2>1. \A d \in Deleting, t \in Calls : Undoing(d, t)' <=> Undoing(d, t)
    BY <1>2, BegunUndoesNothing
  <2>2. /\ left \subseteq left'
        /\ readers' \subseteq readers \/ (call[c].pc = "written" /\ readers' = readers \cup {c})
    <3>1. left \subseteq left'
      BY <1>2, StepKeepsIdle
    <3>2. readers' \subseteq readers \/ (call[c].pc = "written" /\ readers' = readers \cup {c})
      BY <1>2, StepFacts
    <3> QED
      BY <3>1, <3>2
  <2>3. \A d \in Deleting : Undoing(d, c) => call[c].pc # "written"
    BY <1>d DEF DeletionHome, Meant, Undoing
  <2> QED
    BY <1>d, <2>1, <2>2, <2>3 DEF ReaderStopped
<1>3. CASE Request
  <2>1. \A d \in Deleting, t \in Calls : Undoing(d, t)' <=> Undoing(d, t)
    BY <1>3, BegunUndoesNothing
  <2> QED
    BY <1>d, <1>3, <2>1, RequestTakes DEF ReaderStopped
<1>4. ASSUME NEW d \in Deleting, Deletion(d) PROVE ReaderStopped'
  <2>1. \A e \in Deleting \ {d}, t \in Calls : Undoing(e, t)' <=> Undoing(e, t)
    BY <1>4, DeletionStays DEF Undoing
  <2>2. \A t \in Calls : Undoing(d, t)' => t \in left \/ t \notin readers'
    <3>1. CASE StopReader(d)
      BY <1>4, <3>1, UndoingFacts DEF StopReader
    <3>2. CASE ReadMetadata(d)
      BY <1>d, <1>4, <3>2, UndoingFacts, DeletionTakes DEF RowOfAll
    <3>3. CASE ~StopReader(d) /\ ~ReadMetadata(d)
      BY <1>d, <1>4, <3>3, UndoingFacts, DeletionTakes DEF ReaderStopped, Deletion
    <3> QED
      BY <3>1, <3>2, <3>3
  <2> QED
    BY <1>d, <1>4, <2>1, <2>2, DeletionTakes DEF ReaderStopped
<1>5. CASE Elsewhere
  <2>1. readers' \subseteq readers \/ restoring # {}
    BY <1>5 DEF Elsewhere, vars, Use, CloseWindow, RestoreMonitor, SweepReader, SweepRows, made
  <2>2. restoring # {} => \A d \in Deleting, t \in Calls : ~Undoing(d, t)
    BY <1>d DEF StartupFirst, Undoing
  <2> QED
    BY <1>d, <1>5, <2>1, <2>2, ElsewhereFacts DEF ReaderStopped, Undoing
<1>6. CASE Crash
  BY <1>6, CrashFacts DEF ReaderStopped
<1> QED
  BY <1>1, <1>2, <1>3, <1>4, <1>5, <1>6, Steps

LEMMA ListedStep == Inv /\ Sober /\ ~Overlap /\ [Next]_vars => Listed'
<1> SUFFICES ASSUME Inv, Sober, ~Overlap, [Next]_vars PROVE Listed'
  OBVIOUS
<1>d. DeletionHome /\ Listed /\ Undisturbed
  BY DEF Sober
<1>t. rows \subseteq Calls /\ \A d \in Threads : d \in Deleting /\ d \notin Calls
  BY DEF Inv, TypeOK, Deleting
<1>1. ASSUME NEW c \in Calls, Start(c) PROVE Listed'
  <2>1. /\ UNCHANGED <<del, left>> /\ rows' \subseteq rows /\ call[c].pc = "unused"
        /\ \A x \in Calls \ {c} : home'[x] = home[x]
    BY <1>1, StartFacts DEF Recycles, Joins
  <2>2. c \notin rows
    BY <2>1 DEF Inv, Written
  <2> QED
    BY <1>d, <1>t, <2>1, <2>2 DEF Listed, Meant
<1>2. ASSUME NEW c \in Calls, Step(c) PROVE Listed'
  <2>1. /\ \A d \in Threads : del'[d] = del[d]
        /\ Working(c) /\ left \subseteq left' /\ UNCHANGED home
        /\ rows' \subseteq rows \cup {c}
    BY <1>2, StepFacts, StepKeepsIdle
  <2> QED
    BY <1>d, <1>t, <2>1 DEF Listed, Meant, Undisturbed
<1>3. CASE Request
  <2>0. PICK d \in Threads : \/ \E t \in Calls : RequestTerminal(d, t)
                             \/ \E n \in Names : RequestSession(d, n)
    BY <1>3 DEF Request
  <2>1. PICK p \in {"next", "list"} : \E o, T, m, w :
            Becomes(d, p, o, T, m, w) /\ (p = "list" \/ ~w)
    BY <2>0, RequestFacts
  <2>2. UNCHANGED <<home, rows, left>>
    BY <1>3, DeletionLeaves, RequestTakes
  <2> QED
    BY <1>d, <1>t, <2>1, <2>2 DEF Listed, Meant, Becomes
<1>4. ASSUME NEW d \in Deleting, Deletion(d) PROVE Listed'
  <2>1. /\ \A e \in Deleting \ {d} : del'[e] = del[e]
        /\ UNCHANGED home /\ rows' \subseteq rows /\ left \subseteq left'
    BY <1>4, DeletionStays, DeletionLeaves, DeletionTakes
  <2>2. ASSUME d \in Threads,
               \A t \in rows' : /\ del'[d].whole /\ del'[d].pc # "list" /\ home[t] = del'[d].name
                                => t \in left \/ Meant(d, t)',
               del'[d].pc \in {"session", "env"} => del'[d].todo = {}
        PROVE  Listed'
    BY <1>d, <1>t, <2>1, <2>2 DEF Listed, Meant
  <2>3. d \notin Threads => Listed'
    BY <1>d, <1>t, <2>1 DEF Listed, Meant
  <2>4. ASSUME NEW p, NEW o, NEW T, NEW w, d \in Threads, del[d].pc # "list",
               Becomes(d, p, o, T, del[d].name, w), w => del[d].whole,
               \A t \in rows' : Meant(d, t) => t = o \/ t \in T,
               p \in {"session", "env"} => T = {}
        PROVE  Listed'
    <3>1. ASSUME NEW t \in rows', del'[d].whole, home[t] = del'[d].name
          PROVE  t \in left \/ Meant(d, t)'
      BY <1>d, <2>1, <2>4, <3>1 DEF Listed, Becomes, Meant
    <3> QED
      BY <2>2, <2>4, <3>1 DEF Becomes
  <2>5. CASE ListTerminals(d)
    <3>1. Becomes(d, "next", del[d].on, Of(del[d].name, rows), del[d].name, del[d].whole)
      BY <2>5, DeletionFacts
    <3> QED
      BY <2>1, <2>2, <2>3, <3>1 DEF Becomes, Meant, Of
  <2>6. CASE ReadMetadata(d)
    <3>1. del[d].pc = "next" /\ del[d].on = NoCall
      BY <1>d, <2>6 DEF ReadMetadata, DeletionHome
    <3>2. \A t \in rows : Meant(d, t) => t \in del[d].todo
      BY <1>t, <3>1 DEF Meant
    <3>3. CASE /\ del[d].todo = {}
               /\ Becomes(d, "session", del[d].on, del[d].todo, del[d].name, del[d].whole)
      BY <2>1, <2>3, <2>4, <3>1, <3>2, <3>3
    <3>4. CASE del'[d].pc = "idle" /\ ~del'[d].whole
      BY <2>2, <2>3, <3>4
    <3>5. ASSUME NEW t \in del[d].todo,
                 Becomes(d, IF t \in rows THEN "stop" ELSE "row", t, del[d].todo \ {t},
                         del[d].name, del[d].whole)
          PROVE  Listed'
      <4>1. PICK p \in {"stop", "row"} :
                Becomes(d, p, t, del[d].todo \ {t}, del[d].name, del[d].whole)
        BY <3>5
      <4> QED
        BY <2>1, <2>3, <2>4, <3>1, <3>2, <4>1
    <3>6. Becomes(d, "idle", NoCall, {}, CHOOSE n \in Names : TRUE, FALSE) =>
             del'[d].pc = "idle" /\ ~del'[d].whole
      BY DEF Becomes
    <3> QED
      BY <2>6, <3>3, <3>4, <3>5, <3>6, DeletionFacts
  <2>7. CASE DeleteRow(d)
    <3>1. /\ Becomes(d, "next", NoCall, del[d].todo, del[d].name, del[d].whole)
          /\ rows' = rows \ {del[d].on} /\ del[d].pc = "row"
      BY <2>7, DeletionFacts DEF DeleteRow
    <3>2. \A t \in rows' : Meant(d, t) => t \in del[d].todo
      BY <3>1 DEF Meant
    <3> QED
      BY <2>3, <2>4, <3>1, <3>2
  <2>8. CASE StopReader(d) \/ KillWindow(d) \/ KillSession(d)
    <3>1. PICK p \in {"kill", "row", "env"} :
             /\ Becomes(d, p, del[d].on, del[d].todo, del[d].name, del[d].whole)
             /\ p = "env" => del[d].pc = "session"
             /\ del[d].pc # "list"
      BY <2>8, DeletionFacts DEF StopReader, KillWindow, KillSession
    <3>2. d \in Threads /\ p = "env" => del[d].todo = {}
      BY <1>d, <3>1 DEF Listed
    <3>3. \A t \in rows' : Meant(d, t) => t = del[d].on \/ t \in del[d].todo
      BY DEF Meant
    <3> QED
      BY <2>3, <2>4, <3>1, <3>2, <3>3
  <2>9. CASE ClearSessionEnv(d)
    <3>1. del'[d].pc = "idle" /\ ~del'[d].whole
      BY <2>9, DeletionFacts DEF Becomes
    <3> QED
      BY <2>2, <2>3, <3>1
  <2> QED
    BY <1>4, <2>5, <2>6, <2>7, <2>8, <2>9 DEF Deletion
<1>5. CASE Elsewhere
  BY <1>d, <1>t, <1>5, ElsewhereFacts DEF Listed, Meant
<1>6. CASE Crash
  <2>1. \A d \in Deleting : del'[d] = NoDeletion
    BY <1>6, CrashFacts
  <2>2. NoDeletion.pc = "idle" /\ ~NoDeletion.whole
    BY DEF NoDeletion
  <2> QED
    BY <1>t, <2>1, <2>2 DEF Listed
<1> QED
  BY <1>1, <1>2, <1>3, <1>4, <1>5, <1>6, Steps

LEMMA RowsInHandStep == Inv /\ Sober /\ ~Overlap /\ [Next]_vars => RowsInHand'
<1> SUFFICES ASSUME Inv, Sober, ~Overlap, [Next]_vars PROVE RowsInHand'
  OBVIOUS
<1>d. DeletionHome /\ RowsInHand /\ StartupFirst /\ OwnSession /\ Listed
  BY DEF Sober
<1>t. rows \subseteq Calls /\ windows \subseteq Calls
  BY DEF Inv, TypeOK
<1>1. ASSUME NEW c \in Calls, Start(c) PROVE RowsInHand'
  <2>1. PICK n \in Names, p \in {"made", "failed"} :
              /\ restoring = {} /\ call[c].pc = "unused"
              /\ \A x \in Calls \ {c} : call'[x] = call[x]
              /\ UNCHANGED <<del, restoring, left>>
              /\ p = "failed" => UNCHANGED <<windows, rows, readers, provs>>
              /\ p = "made" => \/ Alone(n) /\ Recycles(c, n)
                               \/ Welcome(n) /\ Joins(c) /\ ~Owner(c)'
    BY <1>1, StartFacts
  <2>2. c \notin rows
    BY <2>1 DEF Inv, Written
  <2>3. ASSUME NEW t \in rows' PROVE InHand(t)'
    <3>1. /\ t \in rows /\ t # c
          /\ t \in windows => t \in windows'
          /\ t \in readers => t \in readers'
          /\ t \in provs => t \in provs'
      <4>1. CASE UNCHANGED <<rows, readers, provs>> /\ windows \subseteq windows'
        BY <2>2, <2>3, <4>1
      <4>2. CASE Alone(n) /\ Recycles(c, n)
        BY <1>t, <2>2, <2>3, <4>2 DEF Recycles, Of
      <4> QED
        BY <2>1, <4>1, <4>2 DEF Joins
    <3>2. InHand(t) /\ t \in Calls
      BY <1>d, <1>t, <3>1 DEF RowsInHand
    <3>3. \A d \in Deleting : Undoing(d, t) => Undoing(d, t)'
      BY <2>1 DEF Undoing
    <3> QED
      BY <2>1, <3>1, <3>2, <3>3 DEF InHand
  <2> QED
    BY <2>1, <2>3 DEF RowsInHand
<1>2. ASSUME NEW c \in Calls, Step(c) PROVE RowsInHand'
  <2>1. /\ \A x \in Calls \ {c} : call'[x] = call[x]
        /\ restoring = {} /\ restoring' = {}
        /\ left \subseteq left'
        /\ \A d \in Deleting, t \in Calls : Undoing(d, t)' <=> Undoing(d, t)
    BY <1>d, <1>2, StepKeepsIdle, StepFacts, BegunUndoesNothing DEF StartupFirst
  <2>2. ASSUME NEW t \in rows', t # c PROVE InHand(t)'
    <3>1. /\ t \in rows
          /\ t \in readers => t \in readers'
          /\ t \in provs => t \in provs'
      BY <1>2, <2>2, StepFacts
    <3>2. t \in windows => t \in windows'
      <4>1. Rollback(c) => RolledBack(c) \subseteq {c}
        <5>1. Rollback(c) => Working(c)
          BY <1>2, StepKeepsIdle
        <5> QED
          BY <1>d, <5>1 DEF RolledBack, OwnSession
      <4> QED
        BY <1>2, <2>2, <4>1, StepFacts
    <3>3. InHand(t) /\ t \in Calls
      BY <1>d, <1>t, <3>1 DEF RowsInHand
    <3> QED
      BY <2>1, <2>2, <3>1, <3>2, <3>3 DEF InHand
  <2>3. c \in rows' => InHand(c)'
    <3>1. CASE WriteRow(c)
      <4>1. call'[c].pc \in {"written", "rollback"}
        BY <1>2, <3>1, StepFacts DEF WriteRow, StartReader, Initialized, InitRaises, Rollback,
           SendInput, WorkerDeleted, NotifyCaller, At
      <4> QED
        BY <4>1 DEF InHand
    <3>2. CASE StartReader(c)
      <4>1. \/ call'[c].pc = "rollback"
            \/ c \in windows' /\ c \in readers' /\ c \in provs'
        BY <1>2, <3>2, StepFacts DEF StartReader, WriteRow, Initialized, InitRaises, Rollback,
           SendInput, WorkerDeleted, NotifyCaller, At
      <4> QED
        BY <4>1 DEF InHand
    <3>3. CASE Rollback(c)
      BY <3>3 DEF Rollback, Forgotten
    <3>4. CASE Initialized(c) \/ InitRaises(c) \/ SendInput(c) \/ WorkerDeleted(c) \/ NotifyCaller(c)
      <4>1. UNCHANGED <<windows, rows, readers, provs, left>>
            /\ call[c].pc \notin {"written", "rollback"}
        BY <3>4 DEF Initialized, InitRaises, SendInput, WorkerDeleted, NotifyCaller, At,
                    InTask, InCall, made, history
      <4> QED
        BY <1>d, <2>1, <4>1 DEF RowsInHand, InHand
    <3> QED
      BY <1>2, <3>1, <3>2, <3>3, <3>4 DEF Step
  <2> QED
    BY <2>1, <2>2, <2>3 DEF RowsInHand
<1>3. CASE Request
  <2>1. \A d \in Deleting, t \in Calls : Undoing(d, t)' <=> Undoing(d, t)
    BY <1>3, BegunUndoesNothing
  <2>2. UNCHANGED <<call, restoring, windows, rows, readers, provs, left>>
    BY <1>3, RequestTakes, DeletionLeaves
  <2> QED
    BY <1>d, <1>t, <2>1, <2>2 DEF RowsInHand, InHand
<1>4. ASSUME NEW d \in Deleting, Deletion(d) PROVE RowsInHand'
  <2>1. /\ \A e \in Deleting \ {d}, t \in Calls : Undoing(e, t)' <=> Undoing(e, t)
        /\ restoring = {} /\ restoring' = {} /\ UNCHANGED call
        /\ rows' \subseteq rows /\ left \subseteq left'
    BY <1>d, <1>4, DeletionStays, DeletionTakes, DeletionLeaves DEF Undoing, StartupFirst
  <2>2. ASSUME NEW t \in rows',
               \/ t \in left'
               \/ Undoing(d, t)'
               \/ /\ Undoing(d, t) => Undoing(d, t)'
                  /\ t \in windows => t \in windows'
                  /\ t \in readers => t \in readers'
                  /\ t \in provs => t \in provs'
        PROVE  InHand(t)'
    <3>1. InHand(t) /\ t \in Calls
      BY <1>d, <1>t, <2>1 DEF RowsInHand
    <3> QED
      BY <1>4, <2>1, <2>2, <3>1 DEF InHand
  <2>3. ASSUME NEW t \in rows' PROVE InHand(t)'
    <3>t. t \in Calls /\ t \in rows
      BY <1>t, <2>1
    <3>1. CASE ListTerminals(d) \/ ReadMetadata(d) \/ ClearSessionEnv(d)
      <4>1. UNCHANGED <<windows, readers, provs>> /\ ~Undoing(d, t)
        BY <1>4, <3>t, <3>1, UndoingFacts DEF ListTerminals, ReadMetadata, ClearSessionEnv, made
      <4> QED
        BY <2>2, <4>1
    <3>2. CASE StopReader(d)
      <4>1. UNCHANGED <<windows, provs>> /\ readers' = readers \ {del[d].on}
        BY <3>2 DEF StopReader
      <4>2. ~Undoing(d, t) /\ (t = del[d].on => Undoing(d, t)')
        BY <1>4, <3>t, <3>2, UndoingFacts
      <4> QED
        BY <2>2, <4>1, <4>2
    <3>3. CASE KillWindow(d)
      <4>1. UNCHANGED <<readers, provs>> /\ (t # del[d].on => (t \in windows => t \in windows'))
        BY <3>3 DEF KillWindow
      <4>2. (Undoing(d, t) => Undoing(d, t)') /\ (t = del[d].on => Undoing(d, t)')
        BY <1>4, <3>t, <3>3, UndoingFacts
      <4> QED
        BY <2>2, <4>1, <4>2
    <3>4. CASE DeleteRow(d)
      <4>1. /\ UNCHANGED <<windows, readers>>
            /\ provs' = provs \ {del[d].on} /\ t # del[d].on
        BY <3>4 DEF DeleteRow
      <4>2. ~Undoing(d, t)
        BY <1>4, <3>t, <3>4, <4>1, UndoingFacts
      <4> QED
        BY <2>2, <4>1, <4>2
    <3>5. CASE KillSession(d)
      <4>1. /\ UNCHANGED <<readers, provs, left>> /\ del[d].pc = "session"
            /\ (t \in windows => t \in windows' \/ home[t] = del[d].name)
        BY <3>5 DEF KillSession, Of, history
      <4>2. d \in Threads /\ del[d].whole
        BY <1>d, <4>1 DEF DeletionHome, Deleting
      <4>3. del[d].todo = {} /\ del[d].on = NoCall
        BY <1>d, <4>1, <4>2 DEF Listed, DeletionHome
      <4>4. ~Meant(d, t)
        BY <3>t, <4>3 DEF Meant
      <4>5. home[t] = del[d].name => t \in left
        BY <1>d, <3>t, <4>1, <4>2, <4>4 DEF Listed
      <4>6. ~Undoing(d, t)
        BY <4>1 DEF Undoing
      <4> QED
        BY <2>2, <4>1, <4>5, <4>6
    <3> QED
      BY <1>4, <3>1, <3>2, <3>3, <3>4, <3>5 DEF Deletion
  <2> QED
    BY <2>1, <2>3 DEF RowsInHand
<1>5. CASE Elsewhere
  <2>1. restoring' \subseteq (windows' \cap rows') \cup left'
    BY <1>d, <1>5, ElsewhereFacts DEF RowsInHand
  <2>2. ASSUME NEW t \in rows' PROVE InHand(t)'
    <3>1. t \in rows /\ InHand(t)
      BY <1>d, <1>5, ElsewhereFacts DEF RowsInHand
    <3>2. \A d \in Deleting : Undoing(d, t) => Undoing(d, t)'
      BY <1>5, ElsewhereFacts DEF Undoing
    <3>3. /\ left \subseteq left' /\ UNCHANGED call
          /\ t \in windows => t \in windows' \/ t \in left'
      BY <1>5, ElsewhereFacts
    <3>4. /\ t \in readers => t \in readers' \/ t \in left'
          /\ t \in provs => t \in provs'
      BY <1>5 DEF Elsewhere, vars, Use, CloseWindow, RestoreMonitor, SweepReader, SweepRows, made
    <3>5. t \in restoring => \/ t \in restoring' \/ t \in left
                             \/ t \in windows' /\ t \in readers' /\ t \in provs'
      BY <1>d, <1>5 DEF Elsewhere, vars, Use, CloseWindow, RestoreMonitor, SweepReader,
                        SweepRows, made, startup, RowsInHand
    <3> QED
      BY <3>1, <3>2, <3>3, <3>4, <3>5 DEF InHand
  <2> QED
    BY <2>1, <2>2 DEF RowsInHand
<1>6. CASE Crash
  BY <1>6, CrashFacts DEF RowsInHand, InHand
<1> QED
  BY <1>1, <1>2, <1>3, <1>4, <1>5, <1>6, Steps

LEMMA KnownStep == Inv /\ Sober /\ ~Overlap /\ [Next]_vars => Known'
<1> SUFFICES ASSUME Inv, Sober, ~Overlap, [Next]_vars PROVE Known'
  OBVIOUS
<1>d. DeletionHome /\ Known /\ StartupFirst /\ RowOfAll
  BY DEF Sober
<1>t. rows \subseteq Calls /\ \A d \in Deleting : del[d].todo \subseteq Calls
  BY DEF Inv, TypeOK, DelType
<1>1. ASSUME NEW c \in Calls, Start(c) PROVE Known'
  <2>1. PICK n \in Names, p \in {"made", "failed"} :
              /\ call[c].pc = "unused" /\ call'[c].pc = p
              /\ \A x \in Calls \ {c} : call'[x] = call[x]
              /\ UNCHANGED <<del, told, deleted>>
              /\ p = "failed" => UNCHANGED <<windows, rows, readers, provs>>
              /\ p = "made" => \/ Alone(n) /\ Recycles(c, n)
                               \/ Welcome(n) /\ Joins(c) /\ ~Owner(c)'
    BY <1>1, StartFacts
  <2>2. \A x \in Calls \ {c} : Working(x) /\ x \in rows => x \in rows'
    BY <2>1, RecycledIsIdle DEF Joins
  <2>3. \A x \in Calls : call[x].pc \in {"deferred", "sending", "notify"} => Working(x)
    BY DEF Working, Active
  <2>4. \A d \in Deleting : ~Meant(d, c)
    BY <1>d, <2>1 DEF DeletionHome
  <2> QED
    BY <1>d, <2>1, <2>2, <2>3, <2>4 DEF Known, Noticed, Meant, Working
<1>2. ASSUME NEW c \in Calls, Step(c) PROVE Known'
  <2>1. /\ \A x \in Calls \ {c} : call'[x] = call[x]
        /\ call'[c].kind = call[c].kind
        /\ Working(c) /\ told \subseteq told' /\ UNCHANGED deleted
        /\ \A x \in Calls \ {c} : x \in rows => x \in rows'
    BY <1>2, StepFacts, StepKeepsIdle
  <2>2. /\ call'[c].pc \in {"deferred", "sending", "notify", "deleting", "gone"} =>
              call[c].kind = "assign"
        /\ call'[c].pc \in {"deferred", "sending", "notify"} => c \in rows' \cup deleted
        /\ call'[c].pc \in {"deleting", "gone"} => Noticed(c)' \/ c \in deleted
    <3>0. /\ call'[c].pc \in {"deferred", "sending", "notify", "deleting", "gone"} =>
                call[c].kind = "assign"
          /\ call'[c].pc \in {"deferred", "sending", "notify"} => c \in rows' \cup deleted
      BY <1>d, <1>2, StepFacts DEF Known, RowOfAll
    <3>1. NotifyCaller(c) => Noticed(c)' \/ c \in deleted
      <4>1. NotifyCaller(c) => told' \in Notice(c) /\ c \in rows \cup deleted
        BY <1>d, <1>2, StepFacts DEF Known, NotifyCaller, At
      <4> QED
        BY <4>1 DEF Notice, Noticed
    <3>2. call'[c].pc \in {"deleting", "gone"} /\ ~NotifyCaller(c) => call[c].pc = "deleting"
      BY <1>2, StepFacts
    <3>3. Noticed(c) => Noticed(c)'
      BY <2>1 DEF Noticed
    <3>4. call[c].pc = "deleting" => Noticed(c) \/ c \in deleted
      BY <1>d DEF Known
    <3> QED
      BY <3>0, <3>1, <3>2, <3>3, <3>4
  <2>3. \A d \in Deleting, x \in Calls : Meant(d, x)' /\ d # x => Meant(d, x)
    <3>1. CASE NotifyCaller(c)
      <4>1. Becomes(c, "next", NoCall, {c}, home[c], FALSE)
        BY <3>1, RequestFacts
      <4> QED
        BY <4>1 DEF Becomes, Meant
    <3>2. CASE ~NotifyCaller(c)
      <4>1. UNCHANGED del
        BY <1>2, <3>2, StepFacts
      <4> QED
        BY <4>1 DEF Meant
    <3> QED
      BY <3>1, <3>2
  <2>4. \A x \in Calls : Working(x)' => Working(x)
    BY <1>2, StepKeepsIdle
  <2> QED
    BY <1>d, <2>1, <2>2, <2>3, <2>4 DEF Known, Noticed
<1>3. CASE Request
  <2>1. /\ UNCHANGED <<call, told, rows>> /\ deleted \subseteq deleted'
    BY <1>3, DeletionLeaves, RequestTakes
  <2>2. ASSUME NEW d \in Threads, NEW t \in Calls, RequestTerminal(d, t) PROVE Known'
    <3>1. Becomes(d, "next", NoCall, {t}, home[t], FALSE)
      BY <2>2, RequestFacts
    <3>2. Working(t) /\ call[t].kind = "assign" => t \in deleted'
      BY <2>2 DEF RequestTerminal, Unready, Working
    <3> QED
      BY <1>d, <2>1, <3>1, <3>2 DEF Known, Noticed, Meant, Becomes, Working
  <2>3. ASSUME NEW d \in Threads, NEW n \in Names, RequestSession(d, n) PROVE Known'
    <3>1. Becomes(d, "list", NoCall, {}, n, TRUE)
      BY <2>3, RequestFacts
    <3> QED
      BY <1>d, <2>1, <3>1 DEF Known, Noticed, Meant, Becomes, Working
  <2> QED
    BY <1>3, <2>2, <2>3 DEF Request
<1>4. ASSUME NEW d \in Deleting, Deletion(d) PROVE Known'
  <2>1. /\ \A e \in Deleting \ {d} : del'[e] = del[e]
        /\ UNCHANGED <<call, told>> /\ deleted \subseteq deleted'
    BY <1>4, DeletionStays, DeletionLeaves, DeletionTakes
  <2>2. ASSUME NEW x \in Calls, Meant(d, x)', d # x, Working(x), call[x].kind = "assign"
        PROVE  x \in deleted'
    <3>1. CASE ListTerminals(d)
      <4>1. Becomes(d, "next", del[d].on, Of(del[d].name, rows), del[d].name, del[d].whole)
            /\ del[d].pc = "list"
        BY <3>1, DeletionFacts DEF ListTerminals
      <4>2. x \in Of(del[d].name, rows)
        BY <1>d, <2>2, <4>1 DEF Becomes, Meant, DeletionHome
      <4> QED
        BY <2>2, <3>1, <4>2 DEF ListTerminals, Unready, list_terminals_by_session, Working
    <3>2. CASE ~ListTerminals(d)
      <4>1. Meant(d, x)
        <5>1. CASE ReadMetadata(d)
          <6> DEFINE m == CHOOSE n \in Names : TRUE
          <6>1. \/ \E t \in del[d].todo : Becomes(d, IF t \in rows THEN "stop" ELSE "row", t,
                                                  del[d].todo \ {t}, del[d].name, del[d].whole)
                \/ Becomes(d, "idle", NoCall, {}, m, FALSE)
                \/ Becomes(d, "session", del[d].on, del[d].todo, del[d].name, del[d].whole)
            BY <5>1, DeletionFacts
          <6> HIDE DEF m
          <6> QED
            BY <2>2, <6>1 DEF Becomes, Meant
        <5>2. CASE StopReader(d) \/ KillWindow(d) \/ DeleteRow(d) \/ KillSession(d)
          <6>1. ASSUME NEW p, NEW o \in {del[d].on, NoCall},
                       Becomes(d, p, o, del[d].todo, del[d].name, del[d].whole)
                PROVE  Meant(d, x)
            BY <2>2, <6>1 DEF Becomes, Meant
          <6>2. /\ StopReader(d) => Becomes(d, "kill", del[d].on, del[d].todo, del[d].name, del[d].whole)
                /\ KillWindow(d) => Becomes(d, "row", del[d].on, del[d].todo, del[d].name, del[d].whole)
                /\ DeleteRow(d) => Becomes(d, "next", NoCall, del[d].todo, del[d].name, del[d].whole)
                /\ KillSession(d) => Becomes(d, "env", del[d].on, del[d].todo, del[d].name, del[d].whole)
            BY DeletionFacts
          <6> QED
            BY <5>2, <6>1, <6>2
        <5>3. CASE ClearSessionEnv(d)
          <6>1. del'[d].on = NoCall /\ del'[d].todo = {}
            BY <5>3, DeletionFacts DEF Becomes
          <6> QED
            BY <2>2, <6>1 DEF Meant
        <5> QED
          BY <1>4, <3>2, <5>1, <5>2, <5>3 DEF Deletion
      <4> QED
        BY <1>d, <2>1, <2>2, <4>1 DEF Known
    <3> QED
      BY <3>1, <3>2
  <2>3. ASSUME NEW x \in Calls, call[x].pc \in {"deferred", "sending", "notify"}
        PROVE  x \in rows' \cup deleted'
    <3>1. x \in rows \cup deleted /\ call[x].kind = "assign" /\ Working(x)
      BY <1>d, <2>3 DEF Known, Working, Active
    <3>2. CASE DeleteRow(d) /\ del[d].on = x
      <4>1. del[d].pc = "row" /\ Meant(d, x)
        BY <3>2 DEF DeleteRow, Meant
      <4>2. d # x
        BY <1>d, <2>3, <4>1 DEF DeletionHome
      <4> QED
        BY <1>d, <2>1, <3>1, <4>1, <4>2 DEF Known
    <3>3. CASE ~(DeleteRow(d) /\ del[d].on = x)
      <4>1. x \in rows => x \in rows'
        BY <1>4, <3>3 DEF Deletion, ListTerminals, ReadMetadata, StopReader, KillWindow,
           DeleteRow, KillSession, ClearSessionEnv, made
      <4> QED
        BY <2>1, <3>1, <4>1
    <3> QED
      BY <3>2, <3>3
  <2> QED
    BY <1>d, <2>1, <2>2, <2>3 DEF Known, Noticed, Meant, Working
<1>5. CASE Elsewhere
  <2>1. \A x \in Calls : call[x].pc \in {"deferred", "sending", "notify"} => x \notin aged
    BY <1>d DEF StartupFirst, Working, Active
  <2> QED
    BY <1>d, <1>5, <2>1, ElsewhereFacts DEF Known, Noticed, Meant, Working
<1>6. CASE Crash
  <2>1. \A c \in Calls : /\ call'[c].pc \notin {"deferred", "sending", "notify", "deleting"}
                         /\ ~Working(c)'
                         /\ call'[c].pc = "gone" => call'[c] = call[c]
    BY <1>6, CrashFacts DEF Working, Active
  <2> QED
    BY <1>d, <1>6, <2>1, CrashFacts DEF Known, Noticed
<1> QED
  BY <1>1, <1>2, <1>3, <1>4, <1>5, <1>6, Steps

LEMMA InitSober == Init => Sober
<1> SUFFICES ASSUME Init PROVE Sober
  OBVIOUS
<1>1. \A d \in Deleting : /\ del[d].pc = "idle" /\ del[d].on = NoCall /\ del[d].todo = {}
                          /\ ~del[d].whole
  BY DEF Init, NoDeletion
<1>2. \A c \in Calls : ~Working(c) /\ call[c].pc \in {"ready", "unused"} /\ call[c].kind = "session"
  BY DEF Init, Working, Active
<1>3. LoopHeld /\ OwnSession /\ StartupFirst
  BY <1>1, <1>2 DEF LoopHeld, OnLoop, OwnSession, StartupFirst, Init
<1>4. DeletionHome /\ Undisturbed /\ ReaderStopped /\ Listed
  BY <1>1, <1>2 DEF DeletionHome, Meant, Undisturbed, ReaderStopped, Undoing, Listed, Deleting
<1>5. RowOfAll /\ RowsInHand /\ Known
  BY <1>1, <1>2 DEF RowOfAll, RowsInHand, InHand, Known, Working, Meant, Init
<1> QED
  BY <1>3, <1>4, <1>5 DEF Sober

LEMMA SpecSober == ASSUME ~Overlap PROVE Spec => [](Inv /\ Sober)
<1>1. Inv /\ Sober /\ [Next]_vars => Sober'
  BY LoopHeldStep, DeletionHomeStep, UndisturbedStep, OwnSessionStep, StartupFirstStep,
     RowOfAllStep, RowsInHandStep, ReaderStoppedStep, ListedStep, KnownStep DEF Sober
<1> QED
  BY <1>1, InitSober, InitInv, StepInv, PTL DEF Spec

-----------------------------------------------------------------------------
\* Where nobody recycles or deletes a session that others use, nothing is left of a
\* terminal that is not whole, however many creations fail, deletions of terminals run
\* beside them, and the server crashes and restores: every row has its window, its
\* reader and its provider, and they their row, once nobody works on terminals.
THEOREM SpecWholeOrGone == ASSUME ~Overlap PROVE Spec => []WholeOrGone
<1>1. Inv /\ Sober => WholeOrGone
  <2> SUFFICES ASSUME Inv, Sober, Quiet, NEW t \in rows \cup readers \cup provs, t \notin left
               PROVE  t \in windows \cap rows \cap readers \cap provs
    BY DEF WholeOrGone
  <2>1. t \in rows /\ t \in Calls
    BY DEF Sober, RowOfAll, Inv, TypeOK
  <2>2. InHand(t)
    BY <2>1 DEF Sober, RowsInHand
  <2> QED
    BY <2>1, <2>2 DEF InHand, Quiet, Active, Undoing
<1> QED
  BY <1>1, SpecSober, PTL

\* And the caller of a deferred worker that failed is told, unless somebody asked to
\* delete the worker or the notice, which is best-effort, failed itself: the row is there
\* to name the caller when the notice is written, whatever else failed before.
THEOREM SpecCallerIsTold == ASSUME ~Overlap PROVE Spec => []CallerIsTold
<1>1. Inv /\ Sober => CallerIsTold
  BY DEF Sober, Known, CallerIsTold, At
<1> QED
  BY <1>1, SpecSober, PTL

HIDE LifecycleAssumption

-----------------------------------------------------------------------------
(* Sequences.                                                                   *)

LEMMA InSet ==
    ASSUME NEW S, NEW s \in Seq(S), NEW x
    PROVE  x \in Panes!ToSet(s) <=> \E i \in 1..Len(s) : s[i] = x
BY DEF Panes!ToSet

LEMMA SetOfSeq ==
    ASSUME NEW S, NEW s \in Seq(S)
    PROVE  Panes!ToSet(s) \subseteq S
BY DEF Panes!ToSet

LEMMA SetOfEmpty == Panes!ToSet(<<>>) = {}
BY DEF Panes!ToSet

LEMMA SetOfAppend ==
    ASSUME NEW S, NEW s \in Seq(S), NEW e \in S
    PROVE  /\ Append(s, e) \in Seq(S)
           /\ Panes!ToSet(Append(s, e)) = Panes!ToSet(s) \cup {e}
<1>1. /\ Append(s, e) \in Seq(S) /\ Len(Append(s, e)) = Len(s) + 1
      /\ \A i \in 1..Len(s) : Append(s, e)[i] = s[i]
      /\ Append(s, e)[Len(s) + 1] = e
  BY AppendProperties
<1>2. ASSUME NEW x PROVE x \in Panes!ToSet(Append(s, e)) <=> x \in Panes!ToSet(s) \cup {e}
  <2>1. x \in Panes!ToSet(Append(s, e)) <=> \E i \in 1..(Len(s) + 1) : Append(s, e)[i] = x
    <3>1. PICK t : t = Append(s, e)
      OBVIOUS
    <3>2. x \in Panes!ToSet(t) <=> \E i \in 1..Len(t) : t[i] = x
      BY <1>1, <3>1, InSet
    <3> QED BY <1>1, <3>1, <3>2
  <2>2. x \in Panes!ToSet(s) <=> \E i \in 1..Len(s) : s[i] = x
    BY InSet
  <2>3. \A i : i \in 1..(Len(s) + 1) <=> i \in 1..Len(s) \/ i = Len(s) + 1
    BY LenProperties
  <2> QED BY <1>1, <2>1, <2>2, <2>3
<1> QED BY <1>1, <1>2

LEMMA RemoveAtEffect ==
    ASSUME NEW S, NEW s \in Seq(S), NEW i \in 1..Len(s)
    PROVE  /\ Panes!RemoveAt(s, i) \in Seq(S) /\ Len(Panes!RemoveAt(s, i)) = Len(s) - 1
           /\ \A j \in 1..(Len(s) - 1) : Panes!RemoveAt(s, i)[j] = IF j < i THEN s[j] ELSE s[j + 1]
<1> DEFINE a == SubSeq(s, 1, i - 1)
           b == SubSeq(s, i + 1, Len(s))
<1>1. /\ a \in Seq(S) /\ Len(a) = i - 1 /\ \A j \in 1..(i - 1) : a[j] = s[j]
      /\ b \in Seq(S) /\ Len(b) = Len(s) - i /\ \A j \in 1..(Len(s) - i) : b[j] = s[i + j]
  BY SubSeqProperties
<1>2. /\ a \o b \in Seq(S) /\ Len(a \o b) = Len(a) + Len(b)
      /\ \A j \in 1..(Len(a) + Len(b)) : (a \o b)[j] = IF j <= Len(a) THEN a[j] ELSE b[j - Len(a)]
  <2> HIDE DEF a, b
  <2>1. a \in Seq(S) /\ b \in Seq(S)
    BY <1>1
  <2> QED BY <2>1, ConcatProperties, Zenon
<1>3. Panes!RemoveAt(s, i) = a \o b
  BY DEF Panes!RemoveAt
<1> HIDE DEF a, b
<1>4. Len(a) + Len(b) = Len(s) - 1
  BY <1>1, LenProperties
<1>5. ASSUME NEW j \in 1..(Len(s) - 1)
      PROVE  (a \o b)[j] = IF j < i THEN s[j] ELSE s[j + 1]
  <2>1. CASE j < i
    BY <2>1, <1>1, <1>2, <1>4
  <2>2. CASE ~(j < i)
    <3>1. j - (i - 1) \in 1..(Len(s) - i) /\ i + (j - (i - 1)) = j + 1
      BY <2>2, LenProperties
    <3>2. j \in 1..(Len(a) + Len(b)) /\ Len(a) = i - 1 /\ ~(j <= i - 1)
      BY <2>2, <1>1, <1>4, LenProperties
    <3>3. (a \o b)[j] = b[j - (i - 1)]
      BY <3>2, <1>2
    <3>4. b[j - (i - 1)] = s[j + 1]
      BY <3>1, <1>1
    <3> QED BY <2>2, <3>3, <3>4
  <2> QED BY <2>1, <2>2
<1> QED BY <1>1, <1>2, <1>3, <1>4, <1>5

USE SideAssumption DEF Panes!PaneInputAssumption

-----------------------------------------------------------------------------
(* The panes: every call knows its window, and what it was told of it is so.     *)

PaneLabels == {"start", "run", "probe", "lost", "paste", "enter", "free", "undo",
           "tab", "pane", "text", "use", "make", "scan", "done"}

\* A call that may still make its window.
PendingPane(d) == Panes!Kind(d) = "make" /\ pc[d] \in {"start", "run", "make"}

\* Where a text is typed nowhere yet.
Untyped == {"start", "run", "paste", "tab", "pane", "text", "lost"}
AtPane == {"run", "paste", "enter", "tab", "pane", "text", "make", "scan"}

SenderOK(c) ==
    /\ pc[c] \in {"make", "scan"} => Panes!Kind(c) = "make"
    /\ pc[c] = "paste" => backend = "tmux"
    /\ pc[c] \in AtPane => enters[c] >= 1
    /\ pc[c] \in {"probe", "lost"} \/ answer[c] = "gone" => Panes!Kind(c) \in Panes!Texts
    /\ pc[c] # "done" => answer[c] = "none"
    /\ buffer[c] \in {NoCall, c}
    /\ Panes!Kind(c) \in Panes!Texts => Len(landed[c]) <= 1
    /\ Panes!Kind(c) \in Panes!Texts /\ pc[c] \in Untyped => landed[c] = <<>>
    /\ answer[c] = "retry" => landed[c] = <<>>

\* The number that a call holds is that of its window.
HoldsNumber(c) ==
    \/ pc[c] = "text"
    \/ pc[c] = "use" /\ Panes!Kind(c) # "killall"
    \/ pc[c] = "enter" /\ backend = "herdr"
PlaceOK(c) == HoldsNumber(c) /\ c \notin unsure => Panes!Numbered(c) /\ Panes!There(c) = Panes!To(c)

AddressOK(c) == c \in unsure \/ Panes!ToSet(landed[c]) \subseteq {Panes!To(c)}

IsPrompt(c) == \E p \in prompts[Panes!To(c)] : c \in Panes!ToSet(p)

TextOK(c) ==
    Panes!Kind(c) \in Panes!Texts /\ c \notin unsure \cup wiped =>
        /\ pc[c] = "enter" /\ Panes!Open(Panes!To(c)) => c \in Panes!ToSet(line[Panes!To(c)]) \/
               IsPrompt(c)
        /\ pc[c] = "free" \/ answer[c] = "ok" => IsPrompt(c)

GoneOK(c) == answer[c] = "gone" => ~Panes!Open(Panes!To(c)) \/ <<c, "probe">> \in failed

\* The call asked for a window that it found a row of.
KnownPane(c) == Panes!Kind(c) \in Panes!Texts /\ (pc[c] \notin {"start", "done"} \/ answer[c] = "gone")

FreshOK(d) ==
    PendingPane(d) => /\ ~Panes!Open(Panes!To(d)) /\ Panes!To(d) \notin known
                      /\ \A c \in Senders : KnownPane(c) => Panes!To(c) # Panes!To(d)

SenderInv(c) == SenderOK(c) /\ PlaceOK(c) /\ AddressOK(c) /\ TextOK(c) /\ GoneOK(c)

PaneInv ==
    /\ Panes!TypeOK /\ pc \in [Senders -> PaneLabels]
    /\ Panes!IsInjective(tabs) /\ want \in Wanted
    /\ \A c \in Senders : SenderInv(c) /\ FreshOK(c)

-----------------------------------------------------------------------------
(* What the multiplexer may do to the windows, the lines and the numbers.       *)

\* What was on the line of a window that stays open is still there, was submitted or wiped.
StaysTyped(w, c) ==
    w \in Panes!ToSet(tabs) \cap Panes!ToSet(tabs') /\ c \in Panes!ToSet(line[w]) /\ c \notin wiped' =>
        c \in Panes!ToSet(line'[w]) \/ \E p \in prompts'[w] : c \in Panes!ToSet(p)

\* Only windows of new open; a number stays that of its window, or its holder is unsure.
PanesMove(new) ==
    /\ tabs' \in Seq(Windows) /\ Panes!IsInjective(tabs')
    /\ Panes!ToSet(tabs') \subseteq Panes!ToSet(tabs) \cup new
    /\ line' \in [Windows -> Seq(Senders)] /\ prompts' \in [Windows -> SUBSET Seq(Senders)]
    /\ unsure' \subseteq Senders /\ unsure \subseteq unsure'
    /\ wiped' \subseteq Senders /\ wiped \subseteq wiped'
    /\ \A c \in Senders : Panes!Numbered(c) /\ c \notin unsure' =>
           pane[c] \in 1..Len(tabs') /\ tabs'[pane[c]] = Panes!There(c)
    /\ \A w \in Windows : prompts[w] \subseteq prompts'[w]
    /\ \A w \in Windows, c \in Senders : StaysTyped(w, c)

LEMMA PlaceOfOpen ==
    ASSUME tabs \in Seq(Windows), NEW w, Panes!Open(w)
    PROVE  Panes!Place(w) \in 1..Len(tabs) /\ tabs[Panes!Place(w)] = w
<1>1. PICK i \in 1..Len(tabs) : tabs[i] = w
  BY InSet DEF Panes!Open
<1> QED BY <1>1 DEF Panes!Place

LEMMA NothingMoves ==
    ASSUME Panes!TypeOK, Panes!IsInjective(tabs), UNCHANGED <<Panes!mux, unsure, wiped>>
    PROVE  PanesMove({})
BY DEF Panes!TypeOK, PanesMove, StaysTyped, Panes!mux, Panes!Numbered, Panes!There

LEMMA ScanningMoves ==
    ASSUME Panes!TypeOK, Panes!IsInjective(tabs), UNCHANGED <<Panes!mux, wiped>>, NEW c \in Senders,
           unsure' = unsure \cup {c}
    PROVE  PanesMove({})
BY DEF Panes!TypeOK, PanesMove, StaysTyped, Panes!mux, Panes!Numbered, Panes!There

LEMMA TypedMoves ==
    ASSUME Panes!TypeOK, Panes!IsInjective(tabs), UNCHANGED <<unsure, wiped>>,
           NEW t \in Senders, NEW w \in Windows, Panes!Typed(t, w)
    PROVE  PanesMove({}) /\ t \in Panes!ToSet(line'[w])
<1>1. \A v \in Windows : line[v] \in Seq(Senders)
  BY DEF Panes!TypeOK
<1>2. /\ Append(line[w], t) \in Seq(Senders)
      /\ Panes!ToSet(Append(line[w], t)) = Panes!ToSet(line[w]) \cup {t}
  BY <1>1, SetOfAppend
<1>3. line' = [line EXCEPT ![w] = Append(line[w], t)] /\ UNCHANGED <<tabs, prompts>>
  BY DEF Panes!Typed
<1>4. line' \in [Windows -> Seq(Senders)] /\ line'[w] = Append(line[w], t)
  BY <1>2, <1>3 DEF Panes!TypeOK
<1>5. \A v \in Windows : Panes!ToSet(line[v]) \subseteq Panes!ToSet(line'[v])
  BY <1>2, <1>3, <1>4 DEF Panes!TypeOK
<1> QED BY <1>2, <1>3, <1>4, <1>5 DEF Panes!TypeOK, PanesMove, StaysTyped, Panes!Numbered,
   Panes!There

LEMMA SubmittedMoves ==
    ASSUME Panes!TypeOK, Panes!IsInjective(tabs), UNCHANGED <<unsure, wiped>>, NEW w \in Windows,
                                                              Panes!Submitted(w)
    PROVE  /\ PanesMove({})
           /\ \A c \in Panes!ToSet(line[w]) : \E p \in prompts'[w] : c \in Panes!ToSet(p)
<1>1. line[w] \in Seq(Senders) /\ <<>> \in Seq(Senders)
  BY DEF Panes!TypeOK
<1>2. /\ prompts' = [prompts EXCEPT ![w] = @ \cup ({line[w]} \ {<<>>})]
      /\ line' = [line EXCEPT ![w] = <<>>] /\ tabs' = tabs
  BY DEF Panes!Submitted
<1>3. prompts'[w] = prompts[w] \cup ({line[w]} \ {<<>>})
  BY <1>2 DEF Panes!TypeOK
<1>4. prompts' \in [Windows -> SUBSET Seq(Senders)] /\ line' \in [Windows -> Seq(Senders)]
  BY <1>1, <1>2 DEF Panes!TypeOK
<1>5. ASSUME NEW c \in Panes!ToSet(line[w]) PROVE \E p \in prompts'[w] : c \in Panes!ToSet(p)
  <2>1. line[w] # <<>>
    BY SetOfEmpty
  <2> QED BY <2>1, <1>3
<1>6. \A v \in Windows : v # w => line'[v] = line[v] /\ prompts'[v] = prompts[v]
  BY <1>2 DEF Panes!TypeOK
<1>7. ASSUME NEW v \in Windows, NEW c \in Senders PROVE StaysTyped(v, c)
  BY <1>5, <1>6 DEF StaysTyped
<1>8. \A v \in Windows : prompts[v] \subseteq prompts'[v]
  BY <1>3, <1>6
<1> QED BY <1>2, <1>4, <1>5, <1>7, <1>8 DEF Panes!TypeOK, PanesMove, Panes!Numbered, Panes!There

LEMMA PressedMoves ==
    ASSUME Panes!TypeOK, Panes!IsInjective(tabs), UNCHANGED unsure,
           NEW c \in Senders, NEW w \in Windows, Panes!Pressed(c, w)
    PROVE  PanesMove({})
<1>1. CASE Panes!Kind(c) = "key"
  BY <1>1, SubmittedMoves DEF Panes!Pressed
<1>2. CASE Panes!Kind(c) # "key"
  <2>1. /\ line' = [line EXCEPT ![w] = <<>>] /\ UNCHANGED <<tabs, prompts>>
        /\ wiped' = wiped \cup Panes!ToSet(line[w])
    BY <1>2 DEF Panes!Pressed
  <2>2. line[w] \in Seq(Senders) /\ <<>> \in Seq(Senders)
    BY DEF Panes!TypeOK
  <2>3. Panes!ToSet(line[w]) \subseteq Senders
    BY <2>2, SetOfSeq
  <2>4. line' \in [Windows -> Seq(Senders)]
    BY <2>1, <2>2 DEF Panes!TypeOK
  <2>5. \A v \in Windows : v # w => line'[v] = line[v]
    BY <2>1 DEF Panes!TypeOK
  <2>6. ASSUME NEW v \in Windows, NEW d \in Senders PROVE StaysTyped(v, d)
    BY <2>1, <2>5 DEF StaysTyped
  <2> QED BY <2>1, <2>3, <2>4, <2>6 DEF Panes!TypeOK, PanesMove, Panes!Numbered, Panes!There
<1> QED BY <1>1, <1>2

LEMMA CloseMoves ==
    ASSUME Panes!TypeOK, Panes!IsInjective(tabs), UNCHANGED wiped, NEW w \in Windows, Panes!Open(w),
           Panes!Close(w)
    PROVE  PanesMove({}) /\ ~(w \in Panes!ToSet(tabs'))
<1> DEFINE i == Panes!Place(w)
<1>1. i \in 1..Len(tabs) /\ tabs[i] = w /\ tabs \in Seq(Windows)
  BY PlaceOfOpen DEF Panes!TypeOK
<1>2. /\ tabs' = Panes!RemoveAt(tabs, i) /\ line' = [line EXCEPT ![w] = <<>>]
      /\ unsure' = unsure \cup {c \in Senders : pane[c] >= i} /\ prompts' = prompts
  BY DEF Panes!Close, Panes!Shifted
<1> HIDE DEF i
<1>3. /\ tabs' \in Seq(Windows) /\ Len(tabs') = Len(tabs) - 1
      /\ \A j \in 1..(Len(tabs) - 1) : tabs'[j] = IF j < i THEN tabs[j] ELSE tabs[j + 1]
  BY <1>1, <1>2, RemoveAtEffect
<1>4. DOMAIN tabs = 1..Len(tabs) /\ DOMAIN tabs' = 1..(Len(tabs) - 1) /\ Len(tabs) \in Nat
  BY <1>1, <1>3
<1>5. \A j, k \in 1..Len(tabs) : tabs[j] = tabs[k] => j = k
  BY <1>4 DEF Panes!IsInjective
<1>6. ASSUME NEW j \in 1..(Len(tabs) - 1)
      PROVE  \E k \in 1..Len(tabs) \ {i} : k = (IF j < i THEN j ELSE j + 1) /\ tabs'[j] = tabs[k]
  <2>1. CASE j < i
    <3>1. j \in 1..Len(tabs) \ {i} /\ tabs'[j] = tabs[j]
      BY <1>3, <1>4, <2>1
    <3> QED BY <2>1, <3>1
  <2>2. CASE ~(j < i)
    <3>1. j + 1 \in 1..Len(tabs) \ {i} /\ tabs'[j] = tabs[j + 1]
      BY <1>1, <1>3, <1>4, <2>2
    <3> QED BY <2>2, <3>1
  <2> QED BY <2>1, <2>2
<1>7. Panes!IsInjective(tabs')
  <2> SUFFICES ASSUME NEW j \in 1..(Len(tabs) - 1), NEW k \in 1..(Len(tabs) - 1),
                      tabs'[j] = tabs'[k]
               PROVE  j = k
    BY <1>4 DEF Panes!IsInjective
  <2>1. (IF j < i THEN j ELSE j + 1) = (IF k < i THEN k ELSE k + 1)
    BY <1>5, <1>6
  <2> QED BY <2>1, <1>1, <1>4
<1>8. ASSUME NEW x \in Panes!ToSet(tabs') PROVE x \in Panes!ToSet(tabs) /\ x # w
  <2>1. PICK j \in 1..Len(tabs') : tabs'[j] = x
    BY <1>3, InSet
  <2>2. PICK k \in 1..Len(tabs) \ {i} : tabs'[j] = tabs[k]
    BY <1>3, <1>6
  <2> QED BY <2>1, <2>2, <1>1, <1>5, InSet
<1>9. line' \in [Windows -> Seq(Senders)] /\ \A v \in Windows : v # w => line'[v] = line[v]
  <2>1. <<>> \in Seq(Senders)
    OBVIOUS
  <2> QED BY <1>2, <2>1 DEF Panes!TypeOK
<1>10. ASSUME NEW c \in Senders, Panes!Numbered(c), c \notin unsure'
       PROVE  pane[c] \in 1..Len(tabs') /\ tabs'[pane[c]] = Panes!There(c)
  <2>1. pane[c] < i /\ pane[c] \in Nat /\ pane[c] \in 1..Len(tabs)
    BY <1>10, <1>1, <1>2, <1>4 DEF Panes!TypeOK, Panes!Numbered
  <2>2. pane[c] \in 1..(Len(tabs) - 1)
    BY <2>1, <1>1, <1>4
  <2> QED BY <2>1, <2>2, <1>3 DEF Panes!There
<1>11. ASSUME NEW v \in Windows, NEW c \in Senders PROVE StaysTyped(v, c)
  BY <1>8, <1>9 DEF StaysTyped
<1> QED BY <1>2, <1>3, <1>7, <1>8, <1>9, <1>10, <1>11 DEF Panes!TypeOK, PanesMove

LEMMA CloseAllMoves ==
    ASSUME Panes!TypeOK, UNCHANGED wiped, Panes!CloseAll
    PROVE  PanesMove({})
<1>1. /\ tabs' = <<>> /\ line' = [w \in Windows |-> <<>>] /\ prompts' = prompts
      /\ unsure' = unsure \cup {c \in Senders : tabs # <<>> /\ pane[c] > 0}
  BY DEF Panes!CloseAll
<1>2. <<>> \in Seq(Windows) /\ <<>> \in Seq(Senders) /\ Panes!IsInjective(<<>>)
  BY DEF Panes!IsInjective
<1>3. ASSUME NEW c \in Senders, Panes!Numbered(c) PROVE c \in unsure'
  <2>1. tabs \in Seq(Windows) /\ pane[c] \in 1..Len(tabs) /\ pane[c] \in Nat
    BY <1>3 DEF Panes!TypeOK, Panes!Numbered
  <2>2. tabs # <<>>
    BY <2>1
  <2> QED BY <2>1, <2>2, <1>1
<1>4. line' \in [Windows -> Seq(Senders)]
  BY <1>1, <1>2
<1> QED BY <1>1, <1>2, <1>3, <1>4, SetOfEmpty DEF Panes!TypeOK, PanesMove, StaysTyped

LEMMA MadeMoves ==
    ASSUME Panes!TypeOK, Panes!IsInjective(tabs), UNCHANGED <<line, prompts, unsure, wiped>>,
           NEW w \in Windows, ~Panes!Open(w), tabs' = Append(tabs, w)
    PROVE  PanesMove({w}) /\ Len(tabs') = Len(tabs) + 1 /\ tabs'[Len(tabs) + 1] = w
<1>1. tabs \in Seq(Windows)
  BY DEF Panes!TypeOK
<1>2. /\ tabs' \in Seq(Windows) /\ Len(tabs') = Len(tabs) + 1
      /\ \A i \in 1..Len(tabs) : tabs'[i] = tabs[i]
      /\ tabs'[Len(tabs) + 1] = w
  BY <1>1, AppendProperties
<1>3. Panes!ToSet(tabs') = Panes!ToSet(tabs) \cup {w}
  BY <1>1, SetOfAppend
<1>4. DOMAIN tabs = 1..Len(tabs) /\ DOMAIN tabs' = 1..(Len(tabs) + 1) /\ Len(tabs) \in Nat
  BY <1>1, <1>2
<1>5. \A i \in 1..Len(tabs) : tabs[i] # w
  BY <1>1, InSet DEF Panes!Open
<1>6. Panes!IsInjective(tabs')
  <2> SUFFICES ASSUME NEW j \in 1..(Len(tabs) + 1), NEW k \in 1..(Len(tabs) + 1),
                      tabs'[j] = tabs'[k]
               PROVE  j = k
    BY <1>4 DEF Panes!IsInjective
  <2>1. \A a, b \in 1..Len(tabs) : tabs[a] = tabs[b] => a = b
    BY <1>4 DEF Panes!IsInjective
  <2>2. /\ j \in 1..Len(tabs) \/ j = Len(tabs) + 1
        /\ k \in 1..Len(tabs) \/ k = Len(tabs) + 1
    BY <1>4
  <2> QED BY <2>1, <2>2, <1>2, <1>5
<1>7. ASSUME NEW c \in Senders, Panes!Numbered(c)
      PROVE  pane[c] \in 1..Len(tabs') /\ tabs'[pane[c]] = Panes!There(c)
  BY <1>7, <1>2, <1>4 DEF Panes!Numbered, Panes!There
<1> QED BY <1>2, <1>3, <1>6, <1>7 DEF Panes!TypeOK, PanesMove, StaysTyped

-----------------------------------------------------------------------------
(* A step of some calls, and what it means for all of them.                     *)

Unmoved(c) ==
    /\ pc'[c] = pc[c] /\ enters'[c] = enters[c] /\ pane'[c] = pane[c] /\ buffer'[c] = buffer[c]
    /\ answer'[c] = answer[c] /\ landed'[c] = landed[c]

PaneTypes ==
    /\ known' \subseteq Windows /\ pc' \in [Senders -> PaneLabels]
    /\ answer' \in [Senders -> Panes!Answers]
    /\ pane' \in [Senders -> Nat] /\ enters' \in [Senders -> Nat] /\ tries' \in [Senders -> Nat]
    /\ buffer' \in [Senders -> Senders \cup {NoCall}] /\ landed' \in [Senders -> Seq(Windows)]

PaneEffect(S, new) ==
    /\ backend' = backend /\ want' = want
    /\ known' \subseteq known \cup new /\ failed \subseteq failed'
    /\ PaneTypes /\ PanesMove(new)
    /\ \A c \in Senders \ S : Unmoved(c)
    /\ new = {} \/ \E s \in S : new = {Panes!To(s)} /\ PendingPane(s) /\ ~PendingPane(s)'
    /\ \A s \in S : /\ SenderInv(s)'
                    /\ KnownPane(s)' => KnownPane(s) \/ Panes!To(s) \in known
                    /\ PendingPane(s)' => PendingPane(s)

LEMMA OthersKeep ==
    ASSUME PaneInv, NEW S \in SUBSET Senders, NEW new, PaneEffect(S, new), NEW c \in Senders,
           Unmoved(c)
    PROVE  SenderInv(c)'
<1> USE DEF PaneInv
<1>1. /\ Panes!Kind(c)' = Panes!Kind(c) /\ Panes!To(c)' = Panes!To(c) /\ Panes!To(c) \in Windows
      /\ backend' = backend
  BY DEF PaneEffect, Panes!Kind, Panes!To, Panes!TypeOK, Panes!Request
<1>2. SenderInv(c)
  OBVIOUS
<1>3. unsure \subseteq unsure' /\ wiped \subseteq wiped' /\ failed \subseteq failed'
  BY DEF PaneEffect, PanesMove
<1>4. SenderOK(c)'
  BY <1>1, <1>2 DEF SenderInv, SenderOK, Unmoved
<1>5. PlaceOK(c)'
  <2>1. (Panes!Numbered(c) /\ c \notin unsure') => pane[c] \in 1..Len(tabs') /\
            tabs'[pane[c]] = Panes!There(c)
    BY DEF PaneEffect, PanesMove
  <2>2. HoldsNumber(c)' <=> HoldsNumber(c)
    BY <1>1 DEF HoldsNumber, Unmoved
  <2>3. (Panes!Numbered(c))' <=> pane[c] \in 1..Len(tabs')
    BY DEF Panes!Numbered, Unmoved
  <2>4. (Panes!There(c))' = tabs'[pane[c]]
    BY DEF Panes!There, Unmoved
  <2> QED BY <1>1, <1>2, <1>3, <2>1, <2>2, <2>3, <2>4 DEF SenderInv, PlaceOK
<1>6. AddressOK(c)'
  BY <1>1, <1>2, <1>3 DEF SenderInv, AddressOK, Unmoved
<1>7. (Panes!Kind(c) \in Panes!Texts /\ (pc[c] = "enter" \/ answer[c] = "gone")) /\
          Panes!Open(Panes!To(c))' => Panes!Open(Panes!To(c))
  <2>1. Panes!ToSet(tabs') \subseteq Panes!ToSet(tabs) \cup new
    BY DEF PaneEffect, PanesMove
  <2>2. CASE new = {}
    BY <1>1, <2>1, <2>2 DEF Panes!Open
  <2>3. CASE new # {}
    <3>1. PICK s \in S : new = {Panes!To(s)} /\ PendingPane(s)
      BY <2>3 DEF PaneEffect
    <3>2. KnownPane(c) => Panes!To(c) # Panes!To(s)
      BY <3>1 DEF FreshOK
    <3> QED BY <1>1, <2>1, <3>1, <3>2 DEF Panes!Open, KnownPane
  <2> QED BY <2>2, <2>3
<1>8. IsPrompt(c) => IsPrompt(c)'
  <2>1. prompts[Panes!To(c)] \subseteq prompts'[Panes!To(c)]
    BY <1>1 DEF PaneEffect, PanesMove
  <2> QED BY <1>1, <2>1 DEF IsPrompt
<1>9. TextOK(c)'
  <2> SUFFICES ASSUME Panes!Kind(c) \in Panes!Texts, c \notin unsure' \cup wiped'
               PROVE  /\ pc[c] = "enter" /\ Panes!Open(Panes!To(c))' =>
                             c \in Panes!ToSet(line'[Panes!To(c)]) \/ IsPrompt(c)'
                      /\ pc[c] = "free" \/ answer[c] = "ok" => IsPrompt(c)'
    BY <1>1 DEF TextOK, Unmoved
  <2>1. /\ pc[c] = "enter" /\ Panes!Open(Panes!To(c)) => c \in Panes!ToSet(line[Panes!To(c)]) \/
               IsPrompt(c)
        /\ pc[c] = "free" \/ answer[c] = "ok" => IsPrompt(c)
    BY <1>2, <1>3 DEF SenderInv, TextOK
  <2>2. StaysTyped(Panes!To(c), c)
    BY <1>1 DEF PaneEffect, PanesMove
  <2>3. ASSUME pc[c] = "enter", Panes!Open(Panes!To(c))'
        PROVE  c \in Panes!ToSet(line'[Panes!To(c)]) \/ IsPrompt(c)'
    <3>1. Panes!To(c) \in Panes!ToSet(tabs) \cap Panes!ToSet(tabs')
      BY <1>1, <1>7, <2>3 DEF Panes!Open
    <3>2. CASE IsPrompt(c)
      BY <3>2, <1>8
    <3>3. CASE c \in Panes!ToSet(line[Panes!To(c)])
      <4>1. c \in Panes!ToSet(line'[Panes!To(c)]) \/ \E p \in prompts'[Panes!To(c)] : c \in Panes!ToSet(p)
        BY <3>1, <3>3, <2>2 DEF StaysTyped
      <4> QED BY <4>1, <1>1 DEF IsPrompt
    <3> QED BY <3>1, <3>2, <3>3, <2>1, <2>3 DEF Panes!Open
  <2> QED BY <2>1, <2>3, <1>8
<1>10. GoneOK(c)'
  <2>1. answer[c] = "gone" => Panes!Kind(c) \in Panes!Texts
    BY <1>2 DEF SenderInv, SenderOK
  <2> QED BY <1>1, <1>2, <1>3, <1>7, <2>1 DEF SenderInv, GoneOK, Unmoved
<1> QED BY <1>4, <1>5, <1>6, <1>9, <1>10 DEF SenderInv

LEMMA EffectInv ==
    ASSUME PaneInv, NEW S \in SUBSET Senders, NEW new, PaneEffect(S, new)
    PROVE  PaneInv'
<1> USE DEF PaneInv
<1>1. /\ Panes!TypeOK' /\ pc' \in [Senders -> PaneLabels] /\ Panes!IsInjective(tabs')
      /\ want' \in Wanted
  BY DEF Panes!TypeOK, PaneEffect, PaneTypes, PanesMove
<1>2. ASSUME NEW c \in Senders PROVE SenderInv(c)'
  BY OthersKeep DEF PaneEffect
<1>3. \A c \in Senders : Panes!To(c)' = Panes!To(c) /\ Panes!Kind(c)' = Panes!Kind(c) /\
          (PendingPane(c)' => PendingPane(c))
  BY DEF PaneEffect, Panes!To, Panes!Kind, PendingPane, Unmoved
<1>4. ASSUME NEW d \in Senders PROVE FreshOK(d)'
  <2> SUFFICES ASSUME PendingPane(d)' PROVE FreshOK(d)'
    BY DEF FreshOK
  <2>1. PendingPane(d) /\ ~Panes!Open(Panes!To(d)) /\ Panes!To(d) \notin known /\
            \A c \in Senders : KnownPane(c) => Panes!To(c) # Panes!To(d)
    BY <1>3 DEF FreshOK
  <2>2. Panes!To(d) \notin new
    <3>1. CASE new # {}
      <4>1. PICK s \in S : new = {Panes!To(s)} /\ PendingPane(s) /\ ~PendingPane(s)'
        BY <3>1 DEF PaneEffect
      <4>2. s # d
        BY <4>1
      <4> QED BY <2>1, <4>1, <4>2 DEF Panes!NamesAreFresh, PendingPane, Panes!Kind, Panes!To
    <3> QED BY <3>1
  <2>3. ~Panes!Open(Panes!To(d))' /\ Panes!To(d)' \notin known'
    BY <1>3, <2>1, <2>2 DEF PaneEffect, PanesMove, Panes!Open
  <2>4. ASSUME NEW c \in Senders, KnownPane(c)' PROVE Panes!To(c)' # Panes!To(d)'
    <3>1. CASE c \in S
      <4>1. KnownPane(c) \/ Panes!To(c) \in known
        BY <2>4, <3>1 DEF PaneEffect
      <4> QED BY <4>1, <1>3, <2>1
    <3>2. CASE c \notin S
      <4>1. KnownPane(c)
        BY <1>3, <2>4, <3>2 DEF PaneEffect, KnownPane, Unmoved
      <4> QED BY <4>1, <1>3, <2>1
    <3> QED BY <3>1, <3>2
  <2> QED BY <2>3, <2>4 DEF FreshOK
<1> QED BY <1>1, <1>2, <1>4

LEMMA ReachedEffect ==
    ASSUME Panes!TypeOK, NEW c \in Senders, NEW w \in Windows, Panes!Reached(c, w)
    PROVE  /\ landed' \in [Senders -> Seq(Windows)]
           /\ Panes!ToSet(landed'[c]) = Panes!ToSet(landed[c]) \cup {w}
           /\ Len(landed'[c]) = Len(landed[c]) + 1
           /\ \A d \in Senders \ {c} : landed'[d] = landed[d]
<1>1. landed[c] \in Seq(Windows) /\ landed' = [landed EXCEPT ![c] = Append(landed[c], w)]
  BY DEF Panes!TypeOK, Panes!Reached
<1>2. /\ Append(landed[c], w) \in Seq(Windows)
      /\ Panes!ToSet(Append(landed[c], w)) = Panes!ToSet(landed[c]) \cup {w}
      /\ Len(Append(landed[c], w)) = Len(landed[c]) + 1
  BY <1>1, SetOfAppend, AppendProperties
<1>3. landed'[c] = Append(landed[c], w)
  BY <1>1 DEF Panes!TypeOK
<1> QED BY <1>1, <1>2, <1>3 DEF Panes!TypeOK

LEMMA ThereIsOpen ==
    ASSUME Panes!TypeOK, NEW c \in Senders, Panes!Numbered(c)
    PROVE  Panes!There(c) \in Windows /\ Panes!Open(Panes!There(c)) /\ pane[c] \in 1..Len(tabs)
<1>1. tabs \in Seq(Windows) /\ pane[c] \in 1..Len(tabs)
  BY DEF Panes!TypeOK, Panes!Numbered
<1> QED BY <1>1, InSet DEF Panes!There, Panes!Open

\* A call that reaches at most the windows of W.
ReachesOnly(c, W) ==
    /\ landed' \in [Senders -> Seq(Windows)]
    /\ Panes!ToSet(landed'[c]) \subseteq Panes!ToSet(landed[c]) \cup W
    /\ \A d \in Senders \ {c} : landed'[d] = landed[d]

LEMMA ReachesOne ==
    ASSUME Panes!TypeOK, NEW c \in Senders, NEW w \in Windows,
           Panes!Reached(c, w) \/ landed' = landed
    PROVE  ReachesOnly(c, {w})
BY ReachedEffect DEF ReachesOnly, Panes!TypeOK

LEMMA ReachesNone ==
    ASSUME Panes!TypeOK, NEW c \in Senders, landed' = landed
    PROVE  ReachesOnly(c, {})
BY DEF ReachesOnly, Panes!TypeOK

LEMMA MovesMore ==
    ASSUME NEW new, PanesMove({})
    PROVE  PanesMove(new)
BY DEF PanesMove

\* An addressed call that reaches only its own window stays one.
LEMMA StillAddressed ==
    ASSUME NEW c \in Senders, AddressOK(c), Panes!To(c)' = Panes!To(c), unsure \subseteq unsure',
           NEW W, ReachesOnly(c, W), c \notin unsure => W \subseteq {Panes!To(c)}
    PROVE  AddressOK(c)'
BY DEF AddressOK, ReachesOnly

LEMMA BeginStep ==
    ASSUME PaneInv, NEW c \in Senders, Panes!Begin(c)
    PROVE  PaneEffect({c}, {})
<1>1. /\ Panes!TypeOK /\ pc \in [Senders -> PaneLabels] /\ Panes!IsInjective(tabs) /\ SenderInv(c)
      /\ FreshOK(c)
  BY DEF PaneInv
<1>2. /\ Panes!Kind(c)' = Panes!Kind(c) /\ Panes!To(c)' = Panes!To(c) /\ Panes!To(c) \in Windows
      /\ backend' = backend /\ want' = want
  BY <1>1 DEF Panes!Begin, Panes!Kind, Panes!To, Panes!TypeOK, Panes!Request
<1>3. PaneTypes
  <2>1. known' \subseteq Windows /\ landed' \in [Senders -> Seq(Windows)]
    BY <1>1 DEF Panes!TypeOK, Panes!Begin, Panes!Go, Panes!Ends, Panes!HasRow
  <2>2. pc' \in [Senders -> PaneLabels]
    BY <1>1, <1>2 DEF PaneLabels, Panes!Begin, Panes!Go, Panes!Ends, Panes!HasRow
  <2>3. answer' \in [Senders -> Panes!Answers]
    BY <1>1 DEF Panes!TypeOK, Panes!Answers, Panes!Begin, Panes!Go, Panes!Ends, Panes!HasRow
  <2>4. pane' \in [Senders -> Nat]
    BY <1>1 DEF Panes!TypeOK, Panes!Begin, Panes!Go, Panes!Ends, Panes!HasRow
  <2>5. enters' \in [Senders -> Nat] /\ tries' \in [Senders -> Nat]
    <3>1. Enters[Panes!To(c)] \in Nat /\ tries[c] + 1 \in Nat
      BY <1>1, <1>2 DEF Panes!TypeOK
    <3> DEFINE presses == IF Panes!Kind(c) \in Panes!Texts THEN Enters[Panes!To(c)] ELSE 1
    <3>2. presses \in Nat
      BY <3>1
    <3>3. /\ enters' = enters \/ enters' = [enters EXCEPT ![c] = presses]
          /\ tries' = tries \/ tries' = [tries EXCEPT ![c] = @ + 1]
      BY DEF Panes!Begin
    <3> HIDE DEF presses
    <3>4. enters \in [Senders -> Nat] /\ tries \in [Senders -> Nat]
      BY <1>1 DEF Panes!TypeOK
    <3> QED BY <3>1, <3>2, <3>3, <3>4
  <2>6. buffer' \in [Senders -> Senders \cup {NoCall}]
    BY <1>1 DEF Panes!TypeOK, Panes!Begin, Panes!Go, Panes!Ends, Panes!HasRow
  <2> QED BY <2>1, <2>2, <2>3, <2>4, <2>5, <2>6 DEF PaneTypes
<1>4. PanesMove({})
  BY <1>1, NothingMoves DEF Panes!TypeOK, Panes!mux, Panes!Begin, Panes!Go, Panes!Ends, Panes!HasRow
<1>5. \A d \in Senders \ {c} : Unmoved(d)
  BY <1>1 DEF Unmoved, Panes!TypeOK, Panes!Begin, Panes!Go, Panes!Ends, Panes!HasRow
<1>6. known' \subseteq known \cup {} /\ failed \subseteq failed'
  BY DEF Panes!Begin, Panes!Go, Panes!Ends, Panes!HasRow
<1>7. SenderOK(c)'
  BY SMTT(30), <1>1, <1>2 DEF SenderInv, SenderOK, Panes!TypeOK, AtPane, Untyped, Panes!Texts, Panes!Begin,
     Panes!Go, Panes!Ends, Panes!HasRow
<1>8. PlaceOK(c)'
  BY <1>1, <1>2 DEF SenderInv, PlaceOK, HoldsNumber, Panes!Numbered, Panes!There, Panes!TypeOK,
     Panes!Texts, Panes!mux, Panes!Begin, Panes!Go, Panes!Ends, Panes!HasRow
<1>9. AddressOK(c)'
  BY <1>1, <1>2 DEF SenderInv, AddressOK, Panes!TypeOK, Panes!Begin, Panes!Go, Panes!Ends,
     Panes!HasRow
<1>10. TextOK(c)'
  BY <1>1, <1>2 DEF SenderInv, TextOK, IsPrompt, Panes!Open, SenderOK, Panes!TypeOK, Panes!Texts,
     Panes!mux, Panes!Begin, Panes!Go, Panes!Ends, Panes!HasRow
<1>11. GoneOK(c)'
  BY <1>1, <1>2 DEF SenderInv, GoneOK, SenderOK, Panes!Open, Panes!TypeOK, Panes!mux, Panes!Begin,
     Panes!Go, Panes!Ends, Panes!HasRow
<1>12. /\ KnownPane(c)' => KnownPane(c) \/ Panes!To(c) \in known
       /\ PendingPane(c)' => PendingPane(c)
  BY <1>1, <1>2 DEF KnownPane, PendingPane, SenderInv, SenderOK, Panes!TypeOK, Panes!Texts,
     Panes!Begin, Panes!Go, Panes!Ends, Panes!HasRow
<1>13. SenderInv(c)'
  BY <1>7, <1>8, <1>9, <1>10, <1>11 DEF SenderInv
<1> QED BY <1>2, <1>3, <1>4, <1>5, <1>6, <1>12, <1>13 DEF PaneEffect

LEMMA ProbeStep ==
    ASSUME PaneInv, NEW c \in Senders, Panes!Probe(c)
    PROVE  PaneEffect({c}, {})
<1>1. /\ Panes!TypeOK /\ pc \in [Senders -> PaneLabels] /\ Panes!IsInjective(tabs) /\ SenderInv(c)
      /\ FreshOK(c)
  BY DEF PaneInv
<1>2. /\ Panes!Kind(c)' = Panes!Kind(c) /\ Panes!To(c)' = Panes!To(c) /\ Panes!To(c) \in Windows
      /\ backend' = backend /\ want' = want
  BY <1>1 DEF Panes!Probe, Panes!Kind, Panes!To, Panes!TypeOK, Panes!Request
<1>3. PaneTypes
  BY <1>1, <1>2 DEF Panes!TypeOK, PaneTypes, PaneLabels, Panes!Answers, SenderInv, SenderOK,
     AtPane, Panes!Probe, Panes!Go, Panes!Ends, Panes!NotGone, Panes!Fails
<1>4. PanesMove({})
  BY <1>1, NothingMoves DEF Panes!TypeOK, Panes!mux, Panes!Probe, Panes!Go, Panes!Ends,
     Panes!NotGone, Panes!Fails
<1>5. \A d \in Senders \ {c} : Unmoved(d)
  BY <1>1 DEF Unmoved, Panes!TypeOK, Panes!Probe, Panes!Go, Panes!Ends, Panes!NotGone, Panes!Fails
<1>6. known' \subseteq known \cup {} /\ failed \subseteq failed'
  BY DEF Panes!Probe, Panes!Go, Panes!Ends, Panes!NotGone, Panes!Fails
<1>7. SenderOK(c)'
  <2>1. /\ Panes!Kind(c) \in Panes!Texts /\ Len(landed[c]) <= 1 /\ buffer[c] \in {NoCall, c}
        /\ pc[c] = "lost" => landed[c] = <<>>
    BY <1>1 DEF SenderInv, SenderOK, Untyped, Panes!Probe
  <2>2. \/ Panes!Ends(c, "gone") \/ Panes!Ends(c, "error")
        \/ pc[c] = "lost" /\ Panes!Ends(c, "retry")
        \/ pc[c] = "lost" /\ Panes!Go(c, "start") /\ answer' = answer
    BY <1>1 DEF Panes!Probe, Panes!NotGone
  <2>3. UNCHANGED <<landed, buffer, enters>> /\ (pc[c] = "lost" => answer[c] = "none")
    BY <1>1 DEF SenderInv, SenderOK, Panes!Probe
  <2> QED
    BY <1>1, <1>2, <2>1, <2>2, <2>3
       DEF SenderOK, Panes!TypeOK, AtPane, Untyped, Panes!Go, Panes!Ends
<1>8. PlaceOK(c)'
  BY <1>1, <1>2 DEF SenderInv, PlaceOK, HoldsNumber, Panes!Numbered, Panes!There, Panes!TypeOK,
     Panes!Texts, Panes!mux, Panes!Probe, Panes!Go, Panes!Ends, Panes!NotGone, Panes!Fails
<1>9. AddressOK(c)'
  BY <1>1, <1>2 DEF SenderInv, AddressOK, Panes!TypeOK, Panes!Probe, Panes!Go, Panes!Ends,
     Panes!NotGone, Panes!Fails
<1>10. TextOK(c)'
  BY <1>1, <1>2 DEF SenderInv, TextOK, IsPrompt, Panes!Open, SenderOK, Panes!TypeOK, Panes!Texts,
     Panes!mux, Panes!Probe, Panes!Go, Panes!Ends, Panes!NotGone, Panes!Fails
<1>11. GoneOK(c)'
  BY <1>1, <1>2 DEF SenderInv, GoneOK, SenderOK, Panes!Open, Panes!TypeOK, Panes!mux, Panes!Probe,
     Panes!Go, Panes!Ends, Panes!NotGone, Panes!Fails
<1>12. /\ KnownPane(c)' => KnownPane(c) \/ Panes!To(c) \in known
       /\ PendingPane(c)' => PendingPane(c)
  BY <1>1, <1>2 DEF KnownPane, PendingPane, SenderInv, SenderOK, Panes!TypeOK, Panes!Texts,
     Panes!Probe, Panes!Go, Panes!Ends, Panes!NotGone, Panes!Fails
<1>13. SenderInv(c)'
  BY <1>7, <1>8, <1>9, <1>10, <1>11 DEF SenderInv
<1> QED BY <1>2, <1>3, <1>4, <1>5, <1>6, <1>12, <1>13 DEF PaneEffect

LEMMA LoadBufferStep ==
    ASSUME PaneInv, NEW c \in Senders, Panes!LoadBuffer(c)
    PROVE  PaneEffect({c}, {})
<1>1. /\ Panes!TypeOK /\ pc \in [Senders -> PaneLabels] /\ Panes!IsInjective(tabs) /\ SenderInv(c)
      /\ FreshOK(c)
  BY DEF PaneInv
<1>2. /\ Panes!Kind(c)' = Panes!Kind(c) /\ Panes!To(c)' = Panes!To(c) /\ Panes!To(c) \in Windows
      /\ backend' = backend /\ want' = want
  BY <1>1 DEF Panes!LoadBuffer, Panes!Kind, Panes!To, Panes!TypeOK, Panes!Request
<1>3. PaneTypes
  <2>1. known' \subseteq Windows /\ landed' \in [Senders -> Seq(Windows)]
    BY <1>1 DEF Panes!TypeOK, Panes!LoadBuffer, Panes!Go, Panes!Ends, Panes!Fails, Panes!BufferOf
  <2>2. pc' \in [Senders -> PaneLabels]
    BY <1>1, <1>2 DEF PaneLabels, Panes!LoadBuffer, Panes!Go, Panes!Ends, Panes!Fails,
       Panes!BufferOf
  <2>3. answer' \in [Senders -> Panes!Answers]
    BY <1>1 DEF Panes!TypeOK, Panes!Answers, Panes!LoadBuffer, Panes!Go, Panes!Ends, Panes!Fails,
       Panes!BufferOf
  <2>4. pane' \in [Senders -> Nat]
    BY <1>1 DEF Panes!TypeOK, Panes!LoadBuffer, Panes!Go, Panes!Ends, Panes!Fails, Panes!BufferOf
  <2>5. enters' \in [Senders -> Nat] /\ tries' \in [Senders -> Nat]
    BY <1>1 DEF Panes!TypeOK, Panes!LoadBuffer, Panes!Go, Panes!Ends, Panes!Fails, Panes!BufferOf
  <2>6. buffer' \in [Senders -> Senders \cup {NoCall}]
    <3>1. buffer' = buffer \/ buffer' = [buffer EXCEPT ![c] = c]
      BY DEF Panes!LoadBuffer, Panes!BufferOf
    <3> QED BY <1>1, <3>1 DEF Panes!TypeOK
  <2> QED BY <2>1, <2>2, <2>3, <2>4, <2>5, <2>6 DEF PaneTypes
<1>4. PanesMove({})
  BY <1>1, NothingMoves DEF Panes!TypeOK, Panes!mux, Panes!LoadBuffer, Panes!Go, Panes!Ends,
     Panes!Fails, Panes!BufferOf
<1>5. \A d \in Senders \ {c} : Unmoved(d)
  BY <1>1 DEF Unmoved, Panes!TypeOK, Panes!LoadBuffer, Panes!Go, Panes!Ends, Panes!Fails,
     Panes!BufferOf
<1>6. known' \subseteq known \cup {} /\ failed \subseteq failed'
  BY DEF Panes!LoadBuffer, Panes!Go, Panes!Ends, Panes!Fails, Panes!BufferOf
<1>7. SenderOK(c)'
  BY <1>1, <1>2 DEF SenderInv, SenderOK, Panes!TypeOK, AtPane, Untyped, Panes!Texts,
     Panes!LoadBuffer, Panes!Go, Panes!Ends, Panes!Fails, Panes!BufferOf
<1>8. PlaceOK(c)'
  BY <1>1, <1>2 DEF SenderInv, PlaceOK, HoldsNumber, Panes!Numbered, Panes!There, Panes!TypeOK,
     Panes!Texts, Panes!mux, Panes!LoadBuffer, Panes!Go, Panes!Ends, Panes!Fails, Panes!BufferOf
<1>9. AddressOK(c)'
  BY <1>1, <1>2 DEF SenderInv, AddressOK, Panes!TypeOK, Panes!LoadBuffer, Panes!Go, Panes!Ends,
     Panes!Fails, Panes!BufferOf
<1>10. TextOK(c)'
  BY <1>1, <1>2 DEF SenderInv, TextOK, IsPrompt, Panes!Open, SenderOK, Panes!TypeOK, Panes!Texts,
     Panes!mux, Panes!LoadBuffer, Panes!Go, Panes!Ends, Panes!Fails, Panes!BufferOf
<1>11. GoneOK(c)'
  BY <1>1, <1>2 DEF SenderInv, GoneOK, SenderOK, Panes!Open, Panes!TypeOK, Panes!mux,
     Panes!LoadBuffer, Panes!Go, Panes!Ends, Panes!Fails, Panes!BufferOf
<1>12. /\ KnownPane(c)' => KnownPane(c) \/ Panes!To(c) \in known
       /\ PendingPane(c)' => PendingPane(c)
  BY <1>1, <1>2 DEF KnownPane, PendingPane, SenderInv, SenderOK, Panes!TypeOK, Panes!Texts,
     Panes!LoadBuffer, Panes!Go, Panes!Ends, Panes!Fails, Panes!BufferOf
<1>13. SenderInv(c)'
  BY <1>7, <1>8, <1>9, <1>10, <1>11 DEF SenderInv
<1> QED BY <1>2, <1>3, <1>4, <1>5, <1>6, <1>12, <1>13 DEF PaneEffect

LEMMA DeleteBufferStep ==
    ASSUME PaneInv, NEW c \in Senders, Panes!DeleteBuffer(c)
    PROVE  PaneEffect({c}, {})
<1>1. /\ Panes!TypeOK /\ pc \in [Senders -> PaneLabels] /\ Panes!IsInjective(tabs) /\ SenderInv(c)
      /\ FreshOK(c)
  BY DEF PaneInv
<1>2. /\ Panes!Kind(c)' = Panes!Kind(c) /\ Panes!To(c)' = Panes!To(c) /\ Panes!To(c) \in Windows
      /\ backend' = backend /\ want' = want
  BY <1>1 DEF Panes!DeleteBuffer, Panes!Kind, Panes!To, Panes!TypeOK, Panes!Request
<1>3. PaneTypes
  BY <1>1, <1>2 DEF Panes!TypeOK, PaneTypes, PaneLabels, Panes!Answers, SenderInv, SenderOK,
     AtPane, Panes!DeleteBuffer, Panes!Go, Panes!Ends, Panes!BufferOf, Panes!Raised
<1>4. PanesMove({})
  BY <1>1, NothingMoves DEF Panes!TypeOK, Panes!mux, Panes!DeleteBuffer, Panes!Go, Panes!Ends,
     Panes!BufferOf, Panes!Raised
<1>5. \A d \in Senders \ {c} : Unmoved(d)
  BY <1>1 DEF Unmoved, Panes!TypeOK, Panes!DeleteBuffer, Panes!Go, Panes!Ends, Panes!BufferOf,
     Panes!Raised
<1>6. known' \subseteq known \cup {} /\ failed \subseteq failed'
  BY DEF Panes!DeleteBuffer, Panes!Go, Panes!Ends, Panes!BufferOf, Panes!Raised
<1>7. SenderOK(c)'
  BY <1>1, <1>2 DEF SenderInv, SenderOK, Panes!TypeOK, AtPane, Untyped, Panes!Texts,
     Panes!DeleteBuffer, Panes!Go, Panes!Ends, Panes!BufferOf, Panes!Raised
<1>8. PlaceOK(c)'
  BY <1>1, <1>2 DEF SenderInv, PlaceOK, HoldsNumber, Panes!Numbered, Panes!There, Panes!TypeOK,
     Panes!Texts, Panes!mux, Panes!DeleteBuffer, Panes!Go, Panes!Ends, Panes!BufferOf, Panes!Raised
<1>9. AddressOK(c)'
  BY <1>1, <1>2 DEF SenderInv, AddressOK, Panes!TypeOK, Panes!DeleteBuffer, Panes!Go, Panes!Ends,
     Panes!BufferOf, Panes!Raised
<1>10. TextOK(c)'
  BY <1>1, <1>2 DEF SenderInv, TextOK, IsPrompt, Panes!Open, SenderOK, Panes!TypeOK, Panes!Texts,
     Panes!mux, Panes!DeleteBuffer, Panes!Go, Panes!Ends, Panes!BufferOf, Panes!Raised
<1>11. GoneOK(c)'
  BY <1>1, <1>2 DEF SenderInv, GoneOK, SenderOK, Panes!Open, Panes!TypeOK, Panes!mux,
     Panes!DeleteBuffer, Panes!Go, Panes!Ends, Panes!BufferOf, Panes!Raised
<1>12. /\ KnownPane(c)' => KnownPane(c) \/ Panes!To(c) \in known
       /\ PendingPane(c)' => PendingPane(c)
  BY <1>1, <1>2 DEF KnownPane, PendingPane, SenderInv, SenderOK, Panes!TypeOK, Panes!Texts,
     Panes!DeleteBuffer, Panes!Go, Panes!Ends, Panes!BufferOf, Panes!Raised
<1>13. SenderInv(c)'
  BY <1>7, <1>8, <1>9, <1>10, <1>11 DEF SenderInv
<1> QED BY <1>2, <1>3, <1>4, <1>5, <1>6, <1>12, <1>13 DEF PaneEffect

LEMMA TmuxReadStep ==
    ASSUME PaneInv, NEW c \in Senders, Panes!TmuxRead(c)
    PROVE  PaneEffect({c}, {})
<1>1. /\ Panes!TypeOK /\ pc \in [Senders -> PaneLabels] /\ Panes!IsInjective(tabs) /\ SenderInv(c)
      /\ FreshOK(c)
  BY DEF PaneInv
<1>2. /\ Panes!Kind(c)' = Panes!Kind(c) /\ Panes!To(c)' = Panes!To(c) /\ Panes!To(c) \in Windows
      /\ backend' = backend /\ want' = want
  BY <1>1 DEF Panes!TmuxRead, Panes!Kind, Panes!To, Panes!TypeOK, Panes!Request, Panes!Tmux
<1>3. PaneTypes
  <2>1. landed' \in [Senders -> Seq(Windows)]
    <3>1. Panes!Reached(c, Panes!To(c)) \/ landed' = landed
      BY DEF Panes!TmuxRead
    <3> QED BY <1>1, <1>2, <3>1, ReachedEffect DEF Panes!TypeOK
  <2> QED BY <1>1, <2>1 DEF Panes!TypeOK, PaneTypes, PaneLabels, Panes!Answers, Panes!TmuxRead,
     Panes!Go, Panes!Ends, Panes!Tmux
<1>4. PanesMove({})
  BY <1>1, NothingMoves DEF Panes!TypeOK, Panes!mux, Panes!TmuxRead, Panes!Go, Panes!Ends,
     Panes!Tmux, Panes!Reached
<1>5. \A d \in Senders \ {c} : Unmoved(d)
  BY <1>1 DEF Unmoved, Panes!TypeOK, Panes!TmuxRead, Panes!Go, Panes!Ends, Panes!Tmux, Panes!Reached
<1>6. known' \subseteq known \cup {} /\ failed \subseteq failed'
  BY DEF Panes!TmuxRead, Panes!Go, Panes!Ends, Panes!Tmux, Panes!Reached
<1>7. SenderOK(c)'
  BY <1>1, <1>2 DEF SenderInv, SenderOK, Panes!TypeOK, AtPane, Untyped, Panes!Texts,
     Panes!TmuxRead, Panes!Go, Panes!Ends, Panes!Tmux, Panes!Reached
<1>8. PlaceOK(c)'
  BY <1>1, <1>2 DEF SenderInv, PlaceOK, HoldsNumber, Panes!Numbered, Panes!There, Panes!TypeOK,
     Panes!Texts, Panes!mux, Panes!TmuxRead, Panes!Go, Panes!Ends, Panes!Tmux, Panes!Reached
<1>9. AddressOK(c)'
  BY <1>1, <1>2, ReachedEffect DEF SenderInv, AddressOK, Panes!TmuxRead, Panes!Reached
<1>10. TextOK(c)'
  BY <1>1, <1>2 DEF SenderInv, TextOK, IsPrompt, Panes!Open, SenderOK, Panes!TypeOK, Panes!Texts,
     Panes!mux, Panes!TmuxRead, Panes!Go, Panes!Ends, Panes!Tmux, Panes!Reached
<1>11. GoneOK(c)'
  BY <1>1, <1>2 DEF SenderInv, GoneOK, SenderOK, Panes!Open, Panes!TypeOK, Panes!mux,
     Panes!TmuxRead, Panes!Go, Panes!Ends, Panes!Tmux, Panes!Reached
<1>12. /\ KnownPane(c)' => KnownPane(c) \/ Panes!To(c) \in known
       /\ PendingPane(c)' => PendingPane(c)
  BY <1>1, <1>2 DEF KnownPane, PendingPane, SenderInv, SenderOK, Panes!TypeOK, Panes!Texts,
     Panes!TmuxRead, Panes!Go, Panes!Ends, Panes!Tmux, Panes!Reached
<1>13. SenderInv(c)'
  BY <1>7, <1>8, <1>9, <1>10, <1>11 DEF SenderInv
<1> QED BY <1>2, <1>3, <1>4, <1>5, <1>6, <1>12, <1>13 DEF PaneEffect

LEMMA ResolveTabStep ==
    ASSUME PaneInv, NEW c \in Senders, Panes!ResolveTab(c)
    PROVE  PaneEffect({c}, {})
<1>1. /\ Panes!TypeOK /\ pc \in [Senders -> PaneLabels] /\ Panes!IsInjective(tabs) /\ SenderInv(c)
      /\ FreshOK(c)
  BY DEF PaneInv
<1>2. /\ Panes!Kind(c)' = Panes!Kind(c) /\ Panes!To(c)' = Panes!To(c) /\ Panes!To(c) \in Windows
      /\ backend' = backend /\ want' = want
  BY <1>1 DEF Panes!ResolveTab, Panes!Kind, Panes!To, Panes!TypeOK, Panes!Request
<1>3. PaneTypes
  BY <1>1, <1>2 DEF Panes!TypeOK, PaneTypes, PaneLabels, Panes!Answers, SenderInv, SenderOK,
     AtPane, Panes!ResolveTab, Panes!Go, Panes!Ends, Panes!NotFound, Panes!Killed, Panes!Fails
<1>4. PanesMove({})
  BY <1>1, NothingMoves DEF Panes!TypeOK, Panes!mux, Panes!ResolveTab, Panes!Go, Panes!Ends,
     Panes!NotFound, Panes!Killed, Panes!Fails
<1>5. \A d \in Senders \ {c} : Unmoved(d)
  BY <1>1 DEF Unmoved, Panes!TypeOK, Panes!ResolveTab, Panes!Go, Panes!Ends, Panes!NotFound,
     Panes!Killed, Panes!Fails
<1>6. known' \subseteq known \cup {} /\ failed \subseteq failed'
  BY DEF Panes!ResolveTab, Panes!Go, Panes!Ends, Panes!NotFound, Panes!Killed, Panes!Fails
<1>7. SenderOK(c)'
  <2>1. \/ Panes!Go(c, "use") /\ answer' = answer
        \/ Panes!Go(c, "pane") /\ answer' = answer
        \/ Panes!Kind(c) \in Panes!Texts /\ Panes!Go(c, "lost") /\ answer' = answer
        \/ Panes!Kind(c) \notin Panes!Texts /\ (Panes!Ends(c, "ok") \/ Panes!Ends(c, "error"))
    BY <1>1 DEF Panes!ResolveTab, Panes!NotFound, Panes!Texts
  <2>2. /\ UNCHANGED <<landed, buffer, enters>> /\ pc[c] = "tab" /\ answer[c] = "none"
        /\ enters[c] >= 1
    BY <1>1 DEF SenderInv, SenderOK, AtPane, Panes!ResolveTab
  <2>3. Panes!Kind(c) \in Panes!Texts => landed[c] = <<>>
    BY <1>1, <2>2 DEF SenderInv, SenderOK, Untyped
  <2> QED
    BY <1>1, <1>2, <2>1, <2>2, <2>3
       DEF SenderInv, SenderOK, Panes!TypeOK, AtPane, Untyped, Panes!Go, Panes!Ends
<1>8. PlaceOK(c)'
  BY <1>1, <1>2 DEF SenderInv, PlaceOK, HoldsNumber, Panes!Numbered, Panes!There, Panes!TypeOK,
     Panes!Texts, Panes!mux, Panes!ResolveTab, Panes!Go, Panes!Ends, Panes!NotFound, Panes!Killed,
     Panes!Fails
<1>9. AddressOK(c)'
  BY <1>1, <1>2 DEF SenderInv, AddressOK, Panes!TypeOK, Panes!ResolveTab, Panes!Go, Panes!Ends,
     Panes!NotFound, Panes!Killed, Panes!Fails
<1>10. TextOK(c)'
  BY <1>1, <1>2 DEF SenderInv, TextOK, IsPrompt, Panes!Open, SenderOK, Panes!TypeOK, Panes!Texts,
     Panes!mux, Panes!ResolveTab, Panes!Go, Panes!Ends, Panes!NotFound, Panes!Killed, Panes!Fails
<1>11. GoneOK(c)'
  BY <1>1, <1>2 DEF SenderInv, GoneOK, SenderOK, Panes!Open, Panes!TypeOK, Panes!mux,
     Panes!ResolveTab, Panes!Go, Panes!Ends, Panes!NotFound, Panes!Killed, Panes!Fails
<1>12. /\ KnownPane(c)' => KnownPane(c) \/ Panes!To(c) \in known
       /\ PendingPane(c)' => PendingPane(c)
  BY <1>1, <1>2 DEF KnownPane, PendingPane, SenderInv, SenderOK, Panes!TypeOK, Panes!Texts,
     Panes!ResolveTab, Panes!Go, Panes!Ends, Panes!NotFound, Panes!Killed, Panes!Fails
<1>13. SenderInv(c)'
  BY <1>7, <1>8, <1>9, <1>10, <1>11 DEF SenderInv
<1> QED BY <1>2, <1>3, <1>4, <1>5, <1>6, <1>12, <1>13 DEF PaneEffect

LEMMA ResolvePaneStep ==
    ASSUME PaneInv, NEW c \in Senders, Panes!ResolvePane(c)
    PROVE  PaneEffect({c}, {})
<1>1. /\ Panes!TypeOK /\ pc \in [Senders -> PaneLabels] /\ Panes!IsInjective(tabs) /\ SenderInv(c)
      /\ FreshOK(c)
  BY DEF PaneInv
<1>2. /\ Panes!Kind(c)' = Panes!Kind(c) /\ Panes!To(c)' = Panes!To(c) /\ Panes!To(c) \in Windows
      /\ backend' = backend /\ want' = want
  BY <1>1 DEF Panes!ResolvePane, Panes!Kind, Panes!To, Panes!TypeOK, Panes!Request
<1>3. PaneTypes
  <2>1. known' \subseteq Windows /\ landed' \in [Senders -> Seq(Windows)]
    BY <1>1 DEF Panes!TypeOK, Panes!ResolvePane, Panes!Go, Panes!Ends, Panes!NotFound,
       Panes!Killed, Panes!Fails
  <2>2. pc' \in [Senders -> PaneLabels]
    BY <1>1, <1>2 DEF PaneLabels, Panes!ResolvePane, Panes!Go, Panes!Ends, Panes!NotFound,
       Panes!Killed, Panes!Fails
  <2>3. answer' \in [Senders -> Panes!Answers]
    BY <1>1 DEF Panes!TypeOK, Panes!Answers, Panes!ResolvePane, Panes!Go, Panes!Ends,
       Panes!NotFound, Panes!Killed, Panes!Fails
  <2>4. pane' \in [Senders -> Nat]
    <3>1. pane' = pane \/
              (Panes!Open(Panes!To(c)) /\ pane' = [pane EXCEPT ![c] = Panes!Place(Panes!To(c))])
      BY DEF Panes!ResolvePane
    <3>2. Panes!Open(Panes!To(c)) => Panes!Place(Panes!To(c)) \in Nat
      BY <1>1, PlaceOfOpen DEF Panes!TypeOK
    <3> QED BY <1>1, <3>1, <3>2 DEF Panes!TypeOK
  <2>5. enters' \in [Senders -> Nat] /\ tries' \in [Senders -> Nat]
    BY <1>1 DEF Panes!TypeOK, Panes!ResolvePane, Panes!Go, Panes!Ends, Panes!NotFound,
       Panes!Killed, Panes!Fails
  <2>6. buffer' \in [Senders -> Senders \cup {NoCall}]
    BY <1>1 DEF Panes!TypeOK, Panes!ResolvePane, Panes!Go, Panes!Ends, Panes!NotFound,
       Panes!Killed, Panes!Fails
  <2> QED BY <2>1, <2>2, <2>3, <2>4, <2>5, <2>6 DEF PaneTypes
<1>4. PanesMove({})
  BY <1>1, NothingMoves DEF Panes!TypeOK, Panes!mux, Panes!ResolvePane, Panes!Go, Panes!Ends,
     Panes!NotFound, Panes!Killed, Panes!Fails
<1>5. \A d \in Senders \ {c} : Unmoved(d)
  BY <1>1 DEF Unmoved, Panes!TypeOK, Panes!ResolvePane, Panes!Go, Panes!Ends, Panes!NotFound,
     Panes!Killed, Panes!Fails
<1>6. known' \subseteq known \cup {} /\ failed \subseteq failed'
  BY DEF Panes!ResolvePane, Panes!Go, Panes!Ends, Panes!NotFound, Panes!Killed, Panes!Fails
<1>7. SenderOK(c)'
  BY SMTT(30), <1>1, <1>2 DEF SenderInv, SenderOK, Panes!TypeOK, AtPane, Untyped, Panes!Texts,
     Panes!ResolvePane, Panes!Go, Panes!Ends, Panes!NotFound, Panes!Killed, Panes!Fails
<1>8. PlaceOK(c)'
  <2>1. tabs' = tabs /\ tabs \in Seq(Windows)
    BY <1>1 DEF Panes!ResolvePane, Panes!mux, Panes!TypeOK
  <2>2. CASE Panes!Open(Panes!To(c)) /\ pane' = [pane EXCEPT ![c] = Panes!Place(Panes!To(c))]
    <3>1. pane'[c] = Panes!Place(Panes!To(c))
      BY <1>1, <2>2 DEF Panes!TypeOK
    <3>2. pane'[c] \in 1..Len(tabs) /\ tabs[pane'[c]] = Panes!To(c)
      BY <2>1, <2>2, <3>1, PlaceOfOpen
    <3> QED BY <1>2, <2>1, <3>2 DEF PlaceOK, Panes!Numbered, Panes!There
  <2>3. CASE pc'[c] \in {"lost", "done"}
    BY <2>3 DEF PlaceOK, HoldsNumber
  <2>4. (Panes!NotFound(c) => pc'[c] \in {"lost", "done"})
    BY <1>1 DEF Panes!NotFound, Panes!Go, Panes!Ends
  <2> QED BY <2>2, <2>3, <2>4 DEF Panes!ResolvePane
<1>9. AddressOK(c)'
  BY <1>1, <1>2 DEF SenderInv, AddressOK, Panes!TypeOK, Panes!ResolvePane, Panes!Go, Panes!Ends,
     Panes!NotFound, Panes!Killed, Panes!Fails
<1>10. TextOK(c)'
  BY <1>1, <1>2 DEF SenderInv, TextOK, IsPrompt, Panes!Open, SenderOK, Panes!TypeOK, Panes!Texts,
     Panes!mux, Panes!ResolvePane, Panes!Go, Panes!Ends, Panes!NotFound, Panes!Killed, Panes!Fails
<1>11. GoneOK(c)'
  BY <1>1, <1>2 DEF SenderInv, GoneOK, SenderOK, Panes!Open, Panes!TypeOK, Panes!mux,
     Panes!ResolvePane, Panes!Go, Panes!Ends, Panes!NotFound, Panes!Killed, Panes!Fails
<1>12. /\ KnownPane(c)' => KnownPane(c) \/ Panes!To(c) \in known
       /\ PendingPane(c)' => PendingPane(c)
  BY <1>1, <1>2 DEF KnownPane, PendingPane, SenderInv, SenderOK, Panes!TypeOK, Panes!Texts,
     Panes!ResolvePane, Panes!Go, Panes!Ends, Panes!NotFound, Panes!Killed, Panes!Fails
<1>13. SenderInv(c)'
  BY <1>7, <1>8, <1>9, <1>10, <1>11 DEF SenderInv
<1> QED BY <1>2, <1>3, <1>4, <1>5, <1>6, <1>12, <1>13 DEF PaneEffect

LEMMA HerdrReadStep ==
    ASSUME PaneInv, NEW c \in Senders, Panes!HerdrRead(c)
    PROVE  PaneEffect({c}, {})
<1>1. /\ Panes!TypeOK /\ pc \in [Senders -> PaneLabels] /\ Panes!IsInjective(tabs) /\ SenderInv(c)
      /\ FreshOK(c)
  BY DEF PaneInv
<1>2. /\ Panes!Kind(c)' = Panes!Kind(c) /\ Panes!To(c)' = Panes!To(c) /\ Panes!To(c) \in Windows
      /\ backend' = backend /\ want' = want
  BY <1>1 DEF Panes!HerdrRead, Panes!Kind, Panes!To, Panes!TypeOK, Panes!Request, Panes!Herdr
<1>3. PaneTypes
  <2>1. landed' \in [Senders -> Seq(Windows)]
    BY <1>1, ReachedEffect, ThereIsOpen DEF Panes!TypeOK, Panes!HerdrRead
  <2> QED BY <1>1, <2>1 DEF Panes!TypeOK, PaneTypes, PaneLabels, Panes!Answers, Panes!HerdrRead,
     Panes!Go, Panes!Ends, Panes!Herdr
<1>4. PanesMove({})
  BY <1>1, NothingMoves DEF Panes!TypeOK, Panes!mux, Panes!HerdrRead, Panes!Go, Panes!Ends,
     Panes!Herdr, Panes!Reached
<1>5. \A d \in Senders \ {c} : Unmoved(d)
  BY <1>1 DEF Unmoved, Panes!TypeOK, Panes!HerdrRead, Panes!Go, Panes!Ends, Panes!Herdr,
     Panes!Reached
<1>6. known' \subseteq known \cup {} /\ failed \subseteq failed'
  BY DEF Panes!HerdrRead, Panes!Go, Panes!Ends, Panes!Herdr, Panes!Reached
<1>7. SenderOK(c)'
  BY <1>1, <1>2 DEF SenderInv, SenderOK, Panes!TypeOK, AtPane, Untyped, Panes!Texts,
     Panes!HerdrRead, Panes!Go, Panes!Ends, Panes!Herdr, Panes!Reached
<1>8. PlaceOK(c)'
  BY <1>1, <1>2 DEF SenderInv, PlaceOK, HoldsNumber, Panes!Numbered, Panes!There, Panes!TypeOK,
     Panes!Texts, Panes!mux, Panes!HerdrRead, Panes!Go, Panes!Ends, Panes!Herdr, Panes!Reached
<1>9. AddressOK(c)'
  <2>1. unsure' = unsure /\ pc[c] = "use" /\ Panes!Kind(c) = "read"
    BY DEF Panes!HerdrRead, Panes!Herdr
  <2>2. Panes!Numbered(c) /\ c \notin unsure => Panes!There(c) = Panes!To(c)
    BY <2>1, <1>1 DEF SenderInv, PlaceOK, HoldsNumber
  <2>3. Panes!Numbered(c) => Panes!ToSet(landed'[c]) = Panes!ToSet(landed[c]) \cup {Panes!There(c)}
    BY <1>1, ReachedEffect, ThereIsOpen DEF Panes!HerdrRead
  <2>4. ~Panes!Numbered(c) => landed' = landed
    BY DEF Panes!HerdrRead
  <2> QED BY <1>1, <1>2, <2>1, <2>2, <2>3, <2>4 DEF SenderInv, AddressOK
<1>10. TextOK(c)'
  BY <1>1, <1>2 DEF SenderInv, TextOK, IsPrompt, Panes!Open, SenderOK, Panes!TypeOK, Panes!Texts,
     Panes!mux, Panes!HerdrRead, Panes!Go, Panes!Ends, Panes!Herdr, Panes!Reached
<1>11. GoneOK(c)'
  BY <1>1, <1>2 DEF SenderInv, GoneOK, SenderOK, Panes!Open, Panes!TypeOK, Panes!mux,
     Panes!HerdrRead, Panes!Go, Panes!Ends, Panes!Herdr, Panes!Reached
<1>12. /\ KnownPane(c)' => KnownPane(c) \/ Panes!To(c) \in known
       /\ PendingPane(c)' => PendingPane(c)
  BY <1>1, <1>2 DEF KnownPane, PendingPane, SenderInv, SenderOK, Panes!TypeOK, Panes!Texts,
     Panes!HerdrRead, Panes!Go, Panes!Ends, Panes!Herdr, Panes!Reached
<1>13. SenderInv(c)'
  BY <1>7, <1>8, <1>9, <1>10, <1>11 DEF SenderInv
<1> QED BY <1>2, <1>3, <1>4, <1>5, <1>6, <1>12, <1>13 DEF PaneEffect

LEMMA ScanPanesStep ==
    ASSUME PaneInv, NEW c \in Senders, Panes!ScanPanes(c)
    PROVE  PaneEffect({c}, {})
<1>1. /\ Panes!TypeOK /\ pc \in [Senders -> PaneLabels] /\ Panes!IsInjective(tabs) /\ SenderInv(c)
      /\ FreshOK(c)
  BY DEF PaneInv
<1>2. /\ Panes!Kind(c)' = Panes!Kind(c) /\ Panes!To(c)' = Panes!To(c) /\ Panes!To(c) \in Windows
      /\ backend' = backend /\ want' = want
  BY <1>1 DEF Panes!ScanPanes, Panes!Kind, Panes!To, Panes!TypeOK, Panes!Request
<1>3. PaneTypes
  <2>1. known' \subseteq Windows /\ landed' \in [Senders -> Seq(Windows)]
    BY <1>1 DEF Panes!TypeOK, Panes!ScanPanes, Panes!Go, Panes!Ends
  <2>2. pc' \in [Senders -> PaneLabels]
    BY <1>1, <1>2 DEF PaneLabels, Panes!ScanPanes, Panes!Go, Panes!Ends
  <2>3. answer' \in [Senders -> Panes!Answers]
    BY <1>1 DEF Panes!TypeOK, Panes!Answers, Panes!ScanPanes, Panes!Go, Panes!Ends
  <2>4. pane' \in [Senders -> Nat]
    <3>1. pane' = pane \/ pane' = [pane EXCEPT ![c] = Len(tabs)]
      BY DEF Panes!ScanPanes
    <3>2. Len(tabs) \in Nat
      BY <1>1 DEF Panes!TypeOK
    <3> QED BY <1>1, <3>1, <3>2 DEF Panes!TypeOK
  <2>5. enters' \in [Senders -> Nat] /\ tries' \in [Senders -> Nat]
    BY <1>1 DEF Panes!TypeOK, Panes!ScanPanes, Panes!Go, Panes!Ends
  <2>6. buffer' \in [Senders -> Senders \cup {NoCall}]
    BY <1>1 DEF Panes!TypeOK, Panes!ScanPanes, Panes!Go, Panes!Ends
  <2> QED BY <2>1, <2>2, <2>3, <2>4, <2>5, <2>6 DEF PaneTypes
<1>4. PanesMove({})
  <2>1. UNCHANGED <<Panes!mux, wiped>> /\ unsure' \in {unsure, unsure \cup {c}}
    BY DEF Panes!ScanPanes
  <2> QED BY <1>1, <2>1, NothingMoves, ScanningMoves DEF Panes!mux
<1>5. \A d \in Senders \ {c} : Unmoved(d)
  BY <1>1 DEF Unmoved, Panes!TypeOK, Panes!ScanPanes, Panes!Go, Panes!Ends
<1>6. known' \subseteq known \cup {} /\ failed \subseteq failed'
  BY DEF Panes!ScanPanes, Panes!Go, Panes!Ends
<1>7. SenderOK(c)'
  <2>1. pc[c] = "scan" /\ pc'[c] \in {"text", "done"} /\ answer'[c] \in {answer[c], "ok"}
        /\ (pc'[c] = "text" => answer' = answer)
    BY <1>1 DEF Panes!ScanPanes, Panes!Go, Panes!Ends, Panes!TypeOK
  <2>2. UNCHANGED <<enters, buffer, landed>>
    BY DEF Panes!ScanPanes
  <2> QED BY <1>1, <1>2, <2>1, <2>2 DEF SenderInv, SenderOK, AtPane, Untyped, Panes!Texts
<1>8. PlaceOK(c)'
  BY <1>1, <1>2 DEF SenderInv, PlaceOK, HoldsNumber, Panes!Numbered, Panes!There, Panes!TypeOK,
     Panes!Texts, Panes!mux, Panes!ScanPanes, Panes!Go, Panes!Ends
<1>9. AddressOK(c)'
  BY <1>1, <1>2 DEF SenderInv, AddressOK, Panes!TypeOK, Panes!ScanPanes, Panes!Go, Panes!Ends
<1>10. TextOK(c)'
  <2>1. Panes!Kind(c) = "make"
    BY <1>1 DEF SenderInv, SenderOK, Panes!ScanPanes
  <2> QED BY <1>2, <2>1 DEF TextOK, Panes!Texts
<1>11. GoneOK(c)'
  BY <1>1, <1>2 DEF SenderInv, GoneOK, SenderOK, Panes!Open, Panes!TypeOK, Panes!mux,
     Panes!ScanPanes, Panes!Go, Panes!Ends
<1>12. /\ KnownPane(c)' => KnownPane(c) \/ Panes!To(c) \in known
       /\ PendingPane(c)' => PendingPane(c)
  BY <1>1, <1>2 DEF KnownPane, PendingPane, SenderInv, SenderOK, Panes!TypeOK, Panes!Texts,
     Panes!ScanPanes, Panes!Go, Panes!Ends
<1>13. SenderInv(c)'
  BY <1>7, <1>8, <1>9, <1>10, <1>11 DEF SenderInv
<1> QED BY <1>2, <1>3, <1>4, <1>5, <1>6, <1>12, <1>13 DEF PaneEffect

LEMMA PasteBufferStep ==
    ASSUME PaneInv, NEW c \in Senders, Panes!PasteBuffer(c)
    PROVE  PaneEffect({c}, {})
<1>1. /\ Panes!TypeOK /\ pc \in [Senders -> PaneLabels] /\ Panes!IsInjective(tabs) /\ SenderInv(c)
      /\ FreshOK(c)
  BY DEF PaneInv
<1>2. /\ Panes!Kind(c)' = Panes!Kind(c) /\ Panes!To(c)' = Panes!To(c) /\ Panes!To(c) \in Windows
      /\ backend' = backend /\ want' = want
  BY <1>1 DEF Panes!PasteBuffer, Panes!Kind, Panes!To, Panes!TypeOK, Panes!Request
<1>k. /\ pc[c] = "paste" /\ backend = "tmux"
      /\ \/ Panes!Open(Panes!To(c)) /\ Panes!Typed(c, Panes!To(c)) /\ Panes!Go(c, "enter")
         \/ UNCHANGED <<Panes!mux, landed>> /\ Panes!Go(c, "undo")
      /\ UNCHANGED <<known, enters, pane, buffer, tries, answer, unsure, wiped>>
  BY <1>1 DEF Panes!PasteBuffer, Panes!BufferOf, SenderInv, SenderOK
<1>r. ReachesOnly(c, {Panes!To(c)})
  BY <1>1, <1>2, <1>k, ReachesOne DEF Panes!Typed
<1>3. PaneTypes
  <2>1. landed' \in [Senders -> Seq(Windows)]
    BY <1>r DEF ReachesOnly
  <2> QED BY <1>1, <1>2, <1>k, <2>1 DEF Panes!TypeOK, PaneTypes, PaneLabels, Panes!Answers,
     SenderInv, SenderOK, AtPane, Panes!Go, Panes!Ends, Panes!Raised, Panes!HerdrRaised
<1>4. PanesMove({})
  BY <1>1, <1>2, <1>k, NothingMoves, TypedMoves DEF Panes!mux
<1>5. \A d \in Senders \ {c} : Unmoved(d)
  BY <1>1, <1>k, <1>r DEF Unmoved, Panes!TypeOK, ReachesOnly, Panes!Go, Panes!Ends, Panes!Raised,
     Panes!HerdrRaised
<1>6. known' \subseteq known \cup {} /\ failed \subseteq failed'
  BY DEF Panes!PasteBuffer, Panes!Go, Panes!Ends, Panes!Fails, Panes!BufferOf, Panes!Typed,
     Panes!Reached
<1>7. SenderOK(c)'
  BY <1>1, <1>2 DEF SenderInv, SenderOK, Panes!TypeOK, AtPane, Untyped, Panes!Texts,
     Panes!PasteBuffer, Panes!Go, Panes!Ends, Panes!Fails, Panes!BufferOf, Panes!Typed,
     Panes!Reached
<1>8. PlaceOK(c)'
  <2>1. pc'[c] \in {"enter", "undo"} /\ backend' = "tmux"
    BY <1>1, <1>2, <1>k DEF Panes!Go
  <2> QED BY <2>1 DEF PlaceOK, HoldsNumber
<1>9. AddressOK(c)'
  BY <1>1, <1>2, <1>k, <1>r, StillAddressed DEF SenderInv
<1>10. TextOK(c)'
  <2>1. pc'[c] \in {"enter", "undo"} /\ answer'[c] = "none"
    BY <1>1, <1>k DEF Panes!Go, SenderInv, SenderOK
  <2>2. pc'[c] = "enter" => c \in Panes!ToSet(line'[Panes!To(c)])
    BY <1>1, <1>2, <1>k, TypedMoves DEF Panes!Go
  <2> QED BY <1>2, <2>1, <2>2 DEF TextOK
<1>11. GoneOK(c)'
  BY <1>1, <1>2 DEF SenderInv, GoneOK, SenderOK, Panes!Open, Panes!TypeOK, Panes!mux,
     Panes!PasteBuffer, Panes!Go, Panes!Ends, Panes!Fails, Panes!BufferOf, Panes!Typed,
     Panes!Reached
<1>12. /\ KnownPane(c)' => KnownPane(c) \/ Panes!To(c) \in known
       /\ PendingPane(c)' => PendingPane(c)
  BY <1>1, <1>2 DEF KnownPane, PendingPane, SenderInv, SenderOK, Panes!TypeOK, Panes!Texts,
     Panes!PasteBuffer, Panes!Go, Panes!Ends, Panes!Fails, Panes!BufferOf, Panes!Typed,
     Panes!Reached
<1>13. SenderInv(c)'
  BY <1>7, <1>8, <1>9, <1>10, <1>11 DEF SenderInv
<1> QED BY <1>2, <1>3, <1>4, <1>5, <1>6, <1>12, <1>13 DEF PaneEffect

LEMMA PressEnterStep ==
    ASSUME PaneInv, NEW c \in Senders, Panes!PressEnter(c)
    PROVE  PaneEffect({c}, {})
<1>1. /\ Panes!TypeOK /\ pc \in [Senders -> PaneLabels] /\ Panes!IsInjective(tabs) /\ SenderInv(c)
      /\ FreshOK(c)
  BY DEF PaneInv
<1>2. /\ Panes!Kind(c)' = Panes!Kind(c) /\ Panes!To(c)' = Panes!To(c) /\ Panes!To(c) \in Windows
      /\ backend' = backend /\ want' = want
  BY <1>1 DEF Panes!PressEnter, Panes!Kind, Panes!To, Panes!TypeOK, Panes!Request
<1>k. /\ pc[c] = "enter" /\ backend = "tmux"
      /\ \/ /\ Panes!Open(Panes!To(c)) /\ Panes!Submitted(Panes!To(c)) /\
                   enters' = [enters EXCEPT ![c] = @ - 1]
            /\ Panes!Go(c, IF enters[c] = 1 THEN "free" ELSE "enter")
         \/ UNCHANGED <<Panes!mux, enters>> /\ Panes!Go(c, "undo")
      /\ UNCHANGED <<known, pane, buffer, tries, answer, landed, unsure, wiped>>
  BY <1>1 DEF Panes!PressEnter
<1>3. PaneTypes
  <2>1. enters[c] \in Nat /\ enters[c] >= 1 /\ enters \in [Senders -> Nat]
    BY <1>1, <1>k DEF Panes!TypeOK, SenderInv, SenderOK, AtPane
  <2>2. enters' \in [Senders -> Nat]
    <3>1. enters[c] - 1 \in Nat
      BY <2>1
    <3> QED BY <1>k, <2>1, <3>1
  <2>3. pc' \in [Senders -> PaneLabels]
    BY <1>1, <1>k DEF PaneLabels, Panes!Go
  <2> QED BY <1>1, <1>k, <2>2, <2>3 DEF Panes!TypeOK, PaneTypes
<1>4. PanesMove({})
  BY <1>1, <1>2, <1>k, NothingMoves, SubmittedMoves DEF Panes!mux
<1>5. \A d \in Senders \ {c} : Unmoved(d)
  BY <1>1 DEF Unmoved, Panes!TypeOK, Panes!PressEnter, Panes!Go, Panes!Ends, Panes!Fails,
     Panes!Submitted
<1>6. known' \subseteq known \cup {} /\ failed \subseteq failed'
  BY DEF Panes!PressEnter, Panes!Go, Panes!Ends, Panes!Fails, Panes!Submitted
<1>7. SenderOK(c)'
  BY SMTT(30), <1>1, <1>2 DEF SenderInv, SenderOK, Panes!TypeOK, AtPane, Untyped, Panes!Texts,
     Panes!PressEnter, Panes!Go, Panes!Ends, Panes!Fails, Panes!Submitted
<1>8. PlaceOK(c)'
  BY <1>1, <1>2 DEF SenderInv, PlaceOK, HoldsNumber, Panes!Numbered, Panes!There, Panes!TypeOK,
     Panes!Texts, Panes!mux, Panes!PressEnter, Panes!Go, Panes!Ends, Panes!Fails, Panes!Submitted
<1>9. AddressOK(c)'
  BY <1>1, <1>2 DEF SenderInv, AddressOK, Panes!TypeOK, Panes!PressEnter, Panes!Go, Panes!Ends,
     Panes!Fails, Panes!Submitted
<1>10. TextOK(c)'
  <2> SUFFICES ASSUME Panes!Kind(c) \in Panes!Texts, c \notin unsure \cup wiped, pc'[c] # "undo",
                      pc'[c] # "probe"
               PROVE  IsPrompt(c)'
    <3>1. (pc'[c] = "undo" \/ pc'[c] = "probe") => answer'[c] # "ok"
      BY <1>1, <1>k DEF SenderInv, SenderOK
    <3> QED BY <1>2, <1>k, <3>1 DEF TextOK
  <2>1. Panes!Open(Panes!To(c)) /\ Panes!Submitted(Panes!To(c))
    BY <1>1, <1>k DEF Panes!Go
  <2>2. c \in Panes!ToSet(line[Panes!To(c)]) \/ IsPrompt(c)
    BY <1>1, <1>k, <2>1 DEF SenderInv, TextOK
  <2>3. \A p \in prompts[Panes!To(c)] : p \in prompts'[Panes!To(c)]
    BY <1>2, <1>4 DEF PanesMove
  <2> QED BY <1>1, <1>2, <1>k, <2>1, <2>2, <2>3, SubmittedMoves DEF IsPrompt
<1>11. GoneOK(c)'
  BY <1>1, <1>2 DEF SenderInv, GoneOK, SenderOK, Panes!Open, Panes!TypeOK, Panes!mux,
     Panes!PressEnter, Panes!Go, Panes!Ends, Panes!Fails, Panes!Submitted
<1>12. /\ KnownPane(c)' => KnownPane(c) \/ Panes!To(c) \in known
       /\ PendingPane(c)' => PendingPane(c)
  BY <1>1, <1>2 DEF KnownPane, PendingPane, SenderInv, SenderOK, Panes!TypeOK, Panes!Texts,
     Panes!PressEnter, Panes!Go, Panes!Ends, Panes!Fails, Panes!Submitted
<1>13. SenderInv(c)'
  BY <1>7, <1>8, <1>9, <1>10, <1>11 DEF SenderInv
<1> QED BY <1>2, <1>3, <1>4, <1>5, <1>6, <1>12, <1>13 DEF PaneEffect

LEMMA TmuxKeyStep ==
    ASSUME PaneInv, NEW c \in Senders, Panes!TmuxKey(c)
    PROVE  PaneEffect({c}, {})
<1>1. /\ Panes!TypeOK /\ pc \in [Senders -> PaneLabels] /\ Panes!IsInjective(tabs) /\ SenderInv(c)
      /\ FreshOK(c)
  BY DEF PaneInv
<1>2. /\ Panes!Kind(c)' = Panes!Kind(c) /\ Panes!To(c)' = Panes!To(c) /\ Panes!To(c) \in Windows
      /\ backend' = backend /\ want' = want
  BY <1>1 DEF Panes!TmuxKey, Panes!Kind, Panes!To, Panes!TypeOK, Panes!Request, Panes!Tmux
<1>k. /\ pc[c] = "run" /\ Panes!Kind(c) \in {"key", "clear"} /\ backend = "tmux"
      /\ \/ Panes!Open(Panes!To(c)) /\ Panes!Pressed(c, Panes!To(c)) /\ Panes!Ends(c, "ok")
         \/ UNCHANGED <<Panes!mux, landed, wiped>> /\ Panes!Ends(c, "error")
      /\ UNCHANGED <<known, enters, pane, buffer, tries, unsure>>
  BY <1>1 DEF Panes!TmuxKey, Panes!Tmux
<1>r. ReachesOnly(c, {Panes!To(c)})
  BY <1>1, <1>2, <1>k, ReachesOne DEF Panes!Pressed
<1>3. PaneTypes
  <2>1. landed' \in [Senders -> Seq(Windows)]
    BY <1>r DEF ReachesOnly
  <2>2. pc' \in [Senders -> PaneLabels] /\ answer' \in [Senders -> Panes!Answers]
    BY <1>1, <1>k DEF Panes!TypeOK, PaneLabels, Panes!Answers, Panes!Ends, Panes!Go
  <2> QED BY <1>1, <1>k, <2>1, <2>2 DEF Panes!TypeOK, PaneTypes
<1>4. PanesMove({})
  BY <1>1, <1>2, <1>k, NothingMoves, PressedMoves DEF Panes!mux
<1>5. \A d \in Senders \ {c} : Unmoved(d)
  BY <1>1, <1>k, <1>r DEF Unmoved, Panes!TypeOK, ReachesOnly, Panes!Go, Panes!Ends, Panes!Raised,
     Panes!HerdrRaised
<1>6. known' \subseteq known \cup {} /\ failed \subseteq failed'
  BY DEF Panes!TmuxKey, Panes!Go, Panes!Ends, Panes!Tmux, Panes!Fails, Panes!Pressed, Panes!Reached
<1>7. SenderOK(c)'
  BY <1>1, <1>2 DEF SenderInv, SenderOK, Panes!TypeOK, AtPane, Untyped, Panes!Texts, Panes!TmuxKey,
     Panes!Go, Panes!Ends, Panes!Tmux, Panes!Fails, Panes!Pressed, Panes!Reached
<1>8. PlaceOK(c)'
  BY <1>1, <1>2 DEF SenderInv, PlaceOK, HoldsNumber, Panes!Numbered, Panes!There, Panes!TypeOK,
     Panes!Texts, Panes!mux, Panes!TmuxKey, Panes!Go, Panes!Ends, Panes!Tmux, Panes!Fails,
     Panes!Pressed, Panes!Reached
<1>9. AddressOK(c)'
  BY <1>1, <1>2, <1>k, <1>r, StillAddressed DEF SenderInv
<1>10. TextOK(c)'
  BY <1>1, <1>2 DEF SenderInv, TextOK, IsPrompt, Panes!Open, SenderOK, Panes!TypeOK, Panes!Texts,
     Panes!mux, Panes!TmuxKey, Panes!Go, Panes!Ends, Panes!Tmux, Panes!Fails, Panes!Pressed,
     Panes!Reached
<1>11. GoneOK(c)'
  BY <1>1, <1>2 DEF SenderInv, GoneOK, SenderOK, Panes!Open, Panes!TypeOK, Panes!mux,
     Panes!TmuxKey, Panes!Go, Panes!Ends, Panes!Tmux, Panes!Fails, Panes!Pressed, Panes!Reached
<1>12. /\ KnownPane(c)' => KnownPane(c) \/ Panes!To(c) \in known
       /\ PendingPane(c)' => PendingPane(c)
  BY <1>1, <1>2 DEF KnownPane, PendingPane, SenderInv, SenderOK, Panes!TypeOK, Panes!Texts,
     Panes!TmuxKey, Panes!Go, Panes!Ends, Panes!Tmux, Panes!Fails, Panes!Pressed, Panes!Reached
<1>13. SenderInv(c)'
  BY <1>7, <1>8, <1>9, <1>10, <1>11 DEF SenderInv
<1> QED BY <1>2, <1>3, <1>4, <1>5, <1>6, <1>12, <1>13 DEF PaneEffect

LEMMA TmuxMakeStep ==
    ASSUME PaneInv, NEW c \in Senders, Panes!TmuxMake(c)
    PROVE  PaneEffect({c}, {Panes!To(c)})
<1>1. /\ Panes!TypeOK /\ pc \in [Senders -> PaneLabels] /\ Panes!IsInjective(tabs) /\ SenderInv(c)
      /\ FreshOK(c)
  BY DEF PaneInv
<1>2. /\ Panes!Kind(c)' = Panes!Kind(c) /\ Panes!To(c)' = Panes!To(c) /\ Panes!To(c) \in Windows
      /\ backend' = backend /\ want' = want
  BY <1>1 DEF Panes!TmuxMake, Panes!Kind, Panes!To, Panes!TypeOK, Panes!Request, Panes!Tmux
<1>k. /\ pc[c] = "run" /\ Panes!Kind(c) = "make" /\ backend = "tmux" /\ PendingPane(c)
      /\ \/ /\ tabs' = Append(tabs, Panes!To(c)) /\ known' = known \cup {Panes!To(c)}
            /\ UNCHANGED <<line, prompts>> /\ Panes!Ends(c, "ok")
         \/ UNCHANGED <<Panes!mux, known>> /\ Panes!Ends(c, "error")
      /\ UNCHANGED <<enters, pane, buffer, tries, landed, unsure, wiped>>
  BY <1>1 DEF Panes!TmuxMake, Panes!Tmux, PendingPane
<1>3. PaneTypes
  BY <1>1, <1>2 DEF Panes!TypeOK, PaneTypes, PaneLabels, Panes!Answers, SenderInv, SenderOK,
     AtPane, Panes!TmuxMake, Panes!Go, Panes!Ends, Panes!Tmux, Panes!Fails
<1>4. PanesMove({Panes!To(c)})
  <2>1. ~Panes!Open(Panes!To(c))
    BY <1>1, <1>k DEF FreshOK
  <2>2. CASE tabs' = Append(tabs, Panes!To(c)) /\ UNCHANGED <<line, prompts>>
    BY <1>1, <1>2, <1>k, <2>1, <2>2, MadeMoves
  <2>3. CASE UNCHANGED Panes!mux
    BY <1>1, <1>k, <2>3, NothingMoves, MovesMore
  <2> QED BY <1>k, <2>2, <2>3
<1>5. \A d \in Senders \ {c} : Unmoved(d)
  BY <1>1 DEF Unmoved, Panes!TypeOK, Panes!TmuxMake, Panes!Go, Panes!Ends, Panes!Tmux, Panes!Fails
<1>6. known' \subseteq known \cup {Panes!To(c)} /\ failed \subseteq failed'
  BY DEF Panes!TmuxMake, Panes!Go, Panes!Ends, Panes!Tmux, Panes!Fails
<1>7. SenderOK(c)'
  BY <1>1, <1>2 DEF SenderInv, SenderOK, Panes!TypeOK, AtPane, Untyped, Panes!Texts,
     Panes!TmuxMake, Panes!Go, Panes!Ends, Panes!Tmux, Panes!Fails
<1>8. PlaceOK(c)'
  BY <1>1, <1>2 DEF SenderInv, PlaceOK, HoldsNumber, Panes!Numbered, Panes!There, Panes!TypeOK,
     Panes!Texts, Panes!mux, Panes!TmuxMake, Panes!Go, Panes!Ends, Panes!Tmux, Panes!Fails
<1>9. AddressOK(c)'
  BY <1>1, <1>2 DEF SenderInv, AddressOK, Panes!TypeOK, Panes!TmuxMake, Panes!Go, Panes!Ends,
     Panes!Tmux, Panes!Fails
<1>10. TextOK(c)'
  BY <1>1, <1>2 DEF SenderInv, TextOK, IsPrompt, Panes!Open, SenderOK, Panes!TypeOK, Panes!Texts,
     Panes!mux, Panes!TmuxMake, Panes!Go, Panes!Ends, Panes!Tmux, Panes!Fails
<1>11. GoneOK(c)'
  BY <1>1, <1>2 DEF SenderInv, GoneOK, SenderOK, Panes!Open, Panes!TypeOK, Panes!mux,
     Panes!TmuxMake, Panes!Go, Panes!Ends, Panes!Tmux, Panes!Fails
<1>12. /\ KnownPane(c)' => KnownPane(c) \/ Panes!To(c) \in known
       /\ PendingPane(c)' => PendingPane(c)
  BY <1>1, <1>2 DEF KnownPane, PendingPane, SenderInv, SenderOK, Panes!TypeOK, Panes!Texts,
     Panes!TmuxMake, Panes!Go, Panes!Ends, Panes!Tmux, Panes!Fails
<1>13. SenderInv(c)'
  BY <1>7, <1>8, <1>9, <1>10, <1>11 DEF SenderInv
<1>14. ~PendingPane(c)'
  BY <1>1, <1>k DEF PendingPane, Panes!Go, Panes!Ends
<1> QED BY <1>2, <1>3, <1>4, <1>5, <1>6, <1>k, <1>12, <1>13, <1>14 DEF PaneEffect

LEMMA TmuxKillStep ==
    ASSUME PaneInv, NEW c \in Senders, Panes!TmuxKill(c)
    PROVE  PaneEffect({c}, {})
<1>1. /\ Panes!TypeOK /\ pc \in [Senders -> PaneLabels] /\ Panes!IsInjective(tabs) /\ SenderInv(c)
      /\ FreshOK(c)
  BY DEF PaneInv
<1>2. /\ Panes!Kind(c)' = Panes!Kind(c) /\ Panes!To(c)' = Panes!To(c) /\ Panes!To(c) \in Windows
      /\ backend' = backend /\ want' = want
  BY <1>1 DEF Panes!TmuxKill, Panes!Kind, Panes!To, Panes!TypeOK, Panes!Request, Panes!Tmux
<1>k. /\ pc[c] = "run" /\ Panes!Kind(c) = "kill" /\ backend = "tmux" /\ Panes!Ends(c, "ok")
      /\ \/ Panes!Open(Panes!To(c)) /\ Panes!Close(Panes!To(c)) /\ Panes!Reached(c, Panes!To(c))
         \/ UNCHANGED <<Panes!mux, unsure, landed>>
      /\ UNCHANGED <<enters, pane, buffer, tries, wiped>> /\ known' \subseteq known
  BY <1>1 DEF Panes!TmuxKill, Panes!Tmux, Panes!Killed
<1>r. ReachesOnly(c, {Panes!To(c)})
  BY <1>1, <1>2, <1>k, ReachesOne DEF Panes!Close
<1>3. PaneTypes
  <2>1. landed' \in [Senders -> Seq(Windows)]
    BY <1>r DEF ReachesOnly
  <2> QED BY <1>1, <1>2, <1>k, <2>1 DEF Panes!TypeOK, PaneTypes, PaneLabels, Panes!Answers,
     SenderInv, SenderOK, AtPane, Panes!Go, Panes!Ends, Panes!Raised, Panes!HerdrRaised
<1>4. PanesMove({})
  BY <1>1, <1>2, <1>k, NothingMoves, CloseMoves DEF Panes!mux
<1>5. \A d \in Senders \ {c} : Unmoved(d)
  BY <1>1, <1>k, <1>r DEF Unmoved, Panes!TypeOK, ReachesOnly, Panes!Go, Panes!Ends, Panes!Raised,
     Panes!HerdrRaised
<1>6. known' \subseteq known \cup {} /\ failed \subseteq failed'
  BY DEF Panes!TmuxKill, Panes!Go, Panes!Ends, Panes!Tmux, Panes!Fails, Panes!Killed, Panes!Reached
<1>7. SenderOK(c)'
  BY <1>1, <1>2 DEF SenderInv, SenderOK, Panes!TypeOK, AtPane, Untyped, Panes!Texts,
     Panes!TmuxKill, Panes!Go, Panes!Ends, Panes!Tmux, Panes!Fails, Panes!Killed, Panes!Reached
<1>8. PlaceOK(c)'
  BY <1>1, <1>2 DEF SenderInv, PlaceOK, HoldsNumber, Panes!Numbered, Panes!There, Panes!TypeOK,
     Panes!Texts, Panes!mux, Panes!TmuxKill, Panes!Go, Panes!Ends, Panes!Tmux, Panes!Fails,
     Panes!Killed, Panes!Reached
<1>9. AddressOK(c)'
  <2>1. unsure \subseteq unsure'
    BY <1>4 DEF PanesMove
  <2> QED BY <1>1, <1>2, <1>k, <1>r, <2>1, StillAddressed DEF SenderInv
<1>10. TextOK(c)'
  BY <1>1, <1>2 DEF SenderInv, TextOK, IsPrompt, Panes!Open, SenderOK, Panes!TypeOK, Panes!Texts,
     Panes!mux, Panes!TmuxKill, Panes!Go, Panes!Ends, Panes!Tmux, Panes!Fails, Panes!Killed,
     Panes!Reached
<1>11. GoneOK(c)'
  BY <1>1, <1>2 DEF SenderInv, GoneOK, SenderOK, Panes!Open, Panes!TypeOK, Panes!mux,
     Panes!TmuxKill, Panes!Go, Panes!Ends, Panes!Tmux, Panes!Fails, Panes!Killed, Panes!Reached
<1>12. /\ KnownPane(c)' => KnownPane(c) \/ Panes!To(c) \in known
       /\ PendingPane(c)' => PendingPane(c)
  BY <1>1, <1>2 DEF KnownPane, PendingPane, SenderInv, SenderOK, Panes!TypeOK, Panes!Texts,
     Panes!TmuxKill, Panes!Go, Panes!Ends, Panes!Tmux, Panes!Fails, Panes!Killed, Panes!Reached
<1>13. SenderInv(c)'
  BY <1>7, <1>8, <1>9, <1>10, <1>11 DEF SenderInv
<1> QED BY <1>2, <1>3, <1>4, <1>5, <1>6, <1>12, <1>13 DEF PaneEffect

LEMMA TmuxKillSessionStep ==
    ASSUME PaneInv, NEW c \in Senders, Panes!TmuxKillSession(c)
    PROVE  PaneEffect({c}, {})
<1>1. /\ Panes!TypeOK /\ pc \in [Senders -> PaneLabels] /\ Panes!IsInjective(tabs) /\ SenderInv(c)
      /\ FreshOK(c)
  BY DEF PaneInv
<1>2. /\ Panes!Kind(c)' = Panes!Kind(c) /\ Panes!To(c)' = Panes!To(c) /\ Panes!To(c) \in Windows
      /\ backend' = backend /\ want' = want
  BY <1>1 DEF Panes!TmuxKillSession, Panes!Kind, Panes!To, Panes!TypeOK, Panes!Request, Panes!Tmux
<1>k. /\ pc[c] = "run" /\ Panes!Kind(c) = "killall" /\ Panes!Ends(c, "ok")
      /\ Panes!CloseAll \/ UNCHANGED <<Panes!mux, unsure>>
      /\ UNCHANGED <<known, enters, pane, buffer, tries, landed, wiped>>
  BY <1>1 DEF Panes!TmuxKillSession, Panes!Tmux
<1>3. PaneTypes
  BY <1>1, <1>2 DEF Panes!TypeOK, PaneTypes, PaneLabels, Panes!Answers, SenderInv, SenderOK,
     AtPane, Panes!TmuxKillSession, Panes!Go, Panes!Ends, Panes!Tmux, Panes!Fails, Panes!Killed
<1>4. PanesMove({})
  BY <1>1, <1>2, <1>k, NothingMoves, CloseAllMoves DEF Panes!mux
<1>5. \A d \in Senders \ {c} : Unmoved(d)
  BY <1>1 DEF Unmoved, Panes!TypeOK, Panes!TmuxKillSession, Panes!Go, Panes!Ends, Panes!Tmux,
     Panes!Fails, Panes!Killed
<1>6. known' \subseteq known \cup {} /\ failed \subseteq failed'
  BY DEF Panes!TmuxKillSession, Panes!Go, Panes!Ends, Panes!Tmux, Panes!Fails, Panes!Killed
<1>7. SenderOK(c)'
  BY <1>1, <1>2 DEF SenderInv, SenderOK, Panes!TypeOK, AtPane, Untyped, Panes!Texts,
     Panes!TmuxKillSession, Panes!Go, Panes!Ends, Panes!Tmux, Panes!Fails, Panes!Killed
<1>8. PlaceOK(c)'
  BY <1>1, <1>2 DEF SenderInv, PlaceOK, HoldsNumber, Panes!Numbered, Panes!There, Panes!TypeOK,
     Panes!Texts, Panes!mux, Panes!TmuxKillSession, Panes!Go, Panes!Ends, Panes!Tmux, Panes!Fails,
     Panes!Killed
<1>9. AddressOK(c)'
  <2>1. unsure \subseteq unsure'
    BY <1>4 DEF PanesMove
  <2> QED BY <1>1, <1>2, <1>k, <2>1 DEF SenderInv, AddressOK
<1>10. TextOK(c)'
  BY <1>1, <1>2 DEF SenderInv, TextOK, IsPrompt, Panes!Open, SenderOK, Panes!TypeOK, Panes!Texts,
     Panes!mux, Panes!TmuxKillSession, Panes!Go, Panes!Ends, Panes!Tmux, Panes!Fails, Panes!Killed
<1>11. GoneOK(c)'
  BY <1>1, <1>2 DEF SenderInv, GoneOK, SenderOK, Panes!Open, Panes!TypeOK, Panes!mux,
     Panes!TmuxKillSession, Panes!Go, Panes!Ends, Panes!Tmux, Panes!Fails, Panes!Killed
<1>12. /\ KnownPane(c)' => KnownPane(c) \/ Panes!To(c) \in known
       /\ PendingPane(c)' => PendingPane(c)
  BY <1>1, <1>2 DEF KnownPane, PendingPane, SenderInv, SenderOK, Panes!TypeOK, Panes!Texts,
     Panes!TmuxKillSession, Panes!Go, Panes!Ends, Panes!Tmux, Panes!Fails, Panes!Killed
<1>13. SenderInv(c)'
  BY <1>7, <1>8, <1>9, <1>10, <1>11 DEF SenderInv
<1> QED BY <1>2, <1>3, <1>4, <1>5, <1>6, <1>12, <1>13 DEF PaneEffect

LEMMA SendTextStep ==
    ASSUME PaneInv, NEW c \in Senders, Panes!SendText(c)
    PROVE  PaneEffect({c}, {})
<1>1. /\ Panes!TypeOK /\ pc \in [Senders -> PaneLabels] /\ Panes!IsInjective(tabs) /\ SenderInv(c)
      /\ FreshOK(c)
  BY DEF PaneInv
<1>2. /\ Panes!Kind(c)' = Panes!Kind(c) /\ Panes!To(c)' = Panes!To(c) /\ Panes!To(c) \in Windows
      /\ backend' = backend /\ want' = want
  BY <1>1 DEF Panes!SendText, Panes!Kind, Panes!To, Panes!TypeOK, Panes!Request
<1>k. /\ pc[c] = "text"
      /\ \/ Panes!Numbered(c) /\ Panes!Typed(c, Panes!There(c)) /\ Panes!Go(c, "enter") /\
                UNCHANGED answer
         \/ UNCHANGED <<Panes!mux, landed>> /\ Panes!HerdrRaised(c)
         \/ Panes!Numbered(c) /\ Panes!Typed(c, Panes!There(c)) /\ Panes!HerdrRaised(c)
      /\ UNCHANGED <<known, enters, pane, buffer, tries, unsure, wiped>>
  BY <1>1 DEF Panes!SendText
<1>p. Panes!Numbered(c) => Panes!There(c) \in Windows /\ (c \notin unsure => Panes!There(c) = Panes!To(c))
  BY <1>1, <1>k, ThereIsOpen DEF SenderInv, PlaceOK, HoldsNumber
<1>r. PICK W : ReachesOnly(c, W) /\ (c \notin unsure => W \subseteq {Panes!To(c)})
  <2>1. CASE Panes!Numbered(c) /\ Panes!Reached(c, Panes!There(c))
    BY <1>1, <1>p, <2>1, ReachesOne
  <2>2. CASE landed' = landed
    BY <1>1, <2>2, ReachesNone
  <2> QED BY <1>k, <2>1, <2>2 DEF Panes!Typed
<1>3. PaneTypes
  <2>1. landed' \in [Senders -> Seq(Windows)]
    BY <1>r DEF ReachesOnly
  <2>2. \/ answer' = answer /\ \E l \in {"enter", "probe"} : pc' = [pc EXCEPT ![c] = l]
        \/ /\ pc' = [pc EXCEPT ![c] = "done"]
           /\ \E how \in {"ok", "error"} : answer' = [answer EXCEPT ![c] = how]
    BY <1>k DEF Panes!Go, Panes!Ends, Panes!Raised, Panes!HerdrRaised
  <2>3. UNCHANGED <<known, enters, pane, buffer, tries>>
    BY <1>k
  <2> QED
    BY <1>1, <2>1, <2>2, <2>3 DEF Panes!TypeOK, PaneTypes, PaneLabels, Panes!Answers
<1>4. PanesMove({})
  BY <1>1, <1>2, <1>k, <1>p, NothingMoves, TypedMoves DEF Panes!mux
<1>5. \A d \in Senders \ {c} : Unmoved(d)
  BY <1>1, <1>k, <1>r DEF Unmoved, Panes!TypeOK, ReachesOnly, Panes!Go, Panes!Ends, Panes!Raised,
     Panes!HerdrRaised
<1>6. known' \subseteq known \cup {} /\ failed \subseteq failed'
  BY DEF Panes!SendText, Panes!Go, Panes!Ends, Panes!HerdrRaised, Panes!Raised, Panes!Fails,
     Panes!Typed, Panes!Reached
<1>7. SenderOK(c)'
  <2>1. \/ /\ Panes!Reached(c, Panes!There(c))
           /\ \/ Panes!Go(c, "enter") /\ answer' = answer
              \/ Panes!HerdrRaised(c)
        \/ landed' = landed /\ Panes!HerdrRaised(c)
    BY <1>k DEF Panes!Typed
  <2>2. Panes!Kind(c) \in Panes!Texts => landed[c] = <<>>
    BY <1>1, <1>k DEF SenderInv, SenderOK, Untyped
  <2>3. Panes!Kind(c) \in Panes!Texts => Len(landed'[c]) <= 1
    <3> SUFFICES ASSUME Panes!Kind(c) \in Panes!Texts PROVE Len(landed'[c]) <= 1
      OBVIOUS
    <3>1. landed'[c] = <<>> \/ landed'[c] = Append(<<>>, Panes!There(c))
      BY <1>1, <2>1, <2>2 DEF Panes!Reached, Panes!TypeOK
    <3>2. CASE landed'[c] = <<>>
      BY <3>2
    <3>3. CASE landed'[c] = Append(<<>>, Panes!There(c))
      <4> DEFINE w == Panes!There(c)
      <4>1. landed'[c] = <<w>>
        BY <3>3
      <4> HIDE DEF w
      <4> QED BY <4>1
    <3> QED BY <3>1, <3>2, <3>3
  <2>4. \/ Panes!Go(c, "enter") /\ answer' = answer
        \/ Panes!Kind(c) \in Panes!Texts /\ Panes!Go(c, "probe") /\ answer' = answer
        \/ Panes!Ends(c, "ok") \/ Panes!Ends(c, "error")
    BY <2>1 DEF Panes!HerdrRaised, Panes!Raised
  <2>5. answer[c] = "none" /\ enters[c] >= 1 /\ UNCHANGED <<buffer, enters>>
    BY <1>1, <1>k DEF SenderInv, SenderOK, AtPane
  <2> QED
    BY <1>1, <1>2, <2>3, <2>4, <2>5
       DEF SenderInv, SenderOK, Panes!TypeOK, AtPane, Untyped, Panes!Go, Panes!Ends
<1>8. PlaceOK(c)'
  BY <1>1, <1>2 DEF SenderInv, PlaceOK, HoldsNumber, Panes!Numbered, Panes!There, Panes!TypeOK,
     Panes!Texts, Panes!mux, Panes!SendText, Panes!Go, Panes!Ends, Panes!HerdrRaised, Panes!Raised,
     Panes!Fails, Panes!Typed, Panes!Reached
<1>9. AddressOK(c)'
  BY <1>1, <1>2, <1>k, <1>r, StillAddressed DEF SenderInv
<1>10. TextOK(c)'
  <2> SUFFICES ASSUME Panes!Kind(c) \in Panes!Texts, c \notin unsure
               PROVE  /\ pc'[c] = "enter" => c \in Panes!ToSet(line'[Panes!To(c)])
                      /\ pc'[c] # "free" /\ answer'[c] # "ok"
    BY <1>2, <1>k DEF TextOK
  <2>1. answer'[c] = "none" /\ pc'[c] \in {"enter", "probe"}
    BY <1>1, <1>k DEF SenderInv, SenderOK, Panes!HerdrRaised, Panes!Raised, Panes!Go, Panes!Ends,
       Panes!Texts
  <2>2. pc'[c] = "enter" => Panes!Numbered(c) /\ Panes!Typed(c, Panes!There(c))
    BY <1>1, <1>k DEF Panes!HerdrRaised, Panes!Raised, Panes!Go, Panes!Ends, Panes!Texts
  <2>3. Panes!Numbered(c) => Panes!There(c) = Panes!To(c)
    BY <1>p DEF Panes!Texts
  <2> QED BY <1>1, <1>2, <1>k, <2>1, <2>2, <2>3, TypedMoves
<1>11. GoneOK(c)'
  BY <1>1, <1>2 DEF SenderInv, GoneOK, SenderOK, Panes!Open, Panes!TypeOK, Panes!mux,
     Panes!SendText, Panes!Go, Panes!Ends, Panes!HerdrRaised, Panes!Raised, Panes!Fails,
     Panes!Typed, Panes!Reached
<1>12. /\ KnownPane(c)' => KnownPane(c) \/ Panes!To(c) \in known
       /\ PendingPane(c)' => PendingPane(c)
  BY <1>1, <1>2 DEF KnownPane, PendingPane, SenderInv, SenderOK, Panes!TypeOK, Panes!Texts,
     Panes!SendText, Panes!Go, Panes!Ends, Panes!HerdrRaised, Panes!Raised, Panes!Fails,
     Panes!Typed, Panes!Reached
<1>13. SenderInv(c)'
  BY <1>7, <1>8, <1>9, <1>10, <1>11 DEF SenderInv
<1> QED BY <1>2, <1>3, <1>4, <1>5, <1>6, <1>12, <1>13 DEF PaneEffect

LEMMA SendEnterStep ==
    ASSUME PaneInv, NEW c \in Senders, Panes!SendEnter(c)
    PROVE  PaneEffect({c}, {})
<1>1. /\ Panes!TypeOK /\ pc \in [Senders -> PaneLabels] /\ Panes!IsInjective(tabs) /\ SenderInv(c)
      /\ FreshOK(c)
  BY DEF PaneInv
<1>2. /\ Panes!Kind(c)' = Panes!Kind(c) /\ Panes!To(c)' = Panes!To(c) /\ Panes!To(c) \in Windows
      /\ backend' = backend /\ want' = want
  BY <1>1 DEF Panes!SendEnter, Panes!Kind, Panes!To, Panes!TypeOK, Panes!Request
<1>k. /\ pc[c] = "enter" /\ backend = "herdr"
      /\ \/ /\ Panes!Numbered(c) /\ Panes!Submitted(Panes!There(c)) /\
                   enters' = [enters EXCEPT ![c] = @ - 1]
            /\ IF enters[c] = 1 THEN Panes!Ends(c, "ok") ELSE Panes!Go(c, "enter") /\ UNCHANGED answer
         \/ UNCHANGED <<Panes!mux, enters>> /\ Panes!HerdrRaised(c)
      /\ UNCHANGED <<known, pane, buffer, tries, landed, unsure, wiped>>
  BY <1>1 DEF Panes!SendEnter
<1>p. Panes!Numbered(c) => Panes!There(c) \in Windows /\ Panes!Open(Panes!There(c))
                     /\ (c \notin unsure => Panes!There(c) = Panes!To(c))
  BY <1>1, <1>k, ThereIsOpen DEF SenderInv, PlaceOK, HoldsNumber
<1>3. PaneTypes
  <2>1. enters[c] \in Nat /\ enters[c] >= 1 /\ enters \in [Senders -> Nat]
    BY <1>1, <1>k DEF Panes!TypeOK, SenderInv, SenderOK, AtPane
  <2>2. enters' \in [Senders -> Nat]
    <3>1. enters[c] - 1 \in Nat
      BY <2>1
    <3> QED BY <1>k, <2>1, <3>1
  <2>3. pc' \in [Senders -> PaneLabels]
    BY <1>1, <1>k DEF PaneLabels, Panes!Go, Panes!Ends, Panes!Raised, Panes!HerdrRaised
  <2>4. answer' \in [Senders -> Panes!Answers]
    BY <1>1, <1>k DEF Panes!TypeOK, Panes!Answers, Panes!Go, Panes!Ends, Panes!Raised,
       Panes!HerdrRaised
  <2> QED BY <1>1, <1>k, <2>2, <2>3, <2>4 DEF Panes!TypeOK, PaneTypes
<1>4. PanesMove({})
  BY <1>1, <1>2, <1>k, <1>p, NothingMoves, SubmittedMoves DEF Panes!mux
<1>5. \A d \in Senders \ {c} : Unmoved(d)
  BY <1>1 DEF Unmoved, Panes!TypeOK, Panes!SendEnter, Panes!Go, Panes!Ends, Panes!HerdrRaised,
     Panes!Raised, Panes!Fails, Panes!Submitted
<1>6. known' \subseteq known \cup {} /\ failed \subseteq failed'
  BY DEF Panes!SendEnter, Panes!Go, Panes!Ends, Panes!HerdrRaised, Panes!Raised, Panes!Fails,
     Panes!Submitted
<1>7. SenderOK(c)'
  BY SMTT(30), <1>1, <1>2 DEF SenderInv, SenderOK, Panes!TypeOK, AtPane, Untyped, Panes!Texts,
     Panes!SendEnter, Panes!Go, Panes!Ends, Panes!HerdrRaised, Panes!Raised, Panes!Fails,
     Panes!Submitted
<1>8. PlaceOK(c)'
  BY <1>1, <1>2 DEF SenderInv, PlaceOK, HoldsNumber, Panes!Numbered, Panes!There, Panes!TypeOK,
     Panes!Texts, Panes!mux, Panes!SendEnter, Panes!Go, Panes!Ends, Panes!HerdrRaised,
     Panes!Raised, Panes!Fails, Panes!Submitted
<1>9. AddressOK(c)'
  BY <1>1, <1>2 DEF SenderInv, AddressOK, Panes!TypeOK, Panes!SendEnter, Panes!Go, Panes!Ends,
     Panes!HerdrRaised, Panes!Raised, Panes!Fails, Panes!Submitted
<1>10. TextOK(c)'
  <2> SUFFICES ASSUME Panes!Kind(c) \in Panes!Texts, c \notin unsure \cup wiped, pc'[c] # "undo",
                      pc'[c] # "probe"
               PROVE  IsPrompt(c)'
    <3>1. (pc'[c] = "undo" \/ pc'[c] = "probe") => answer'[c] # "ok"
      BY <1>1, <1>k DEF SenderInv, SenderOK, Panes!HerdrRaised, Panes!Raised, Panes!Go, Panes!Ends,
         Panes!TypeOK
    <3> QED BY <1>2, <1>k, <3>1 DEF TextOK
  <2>1. Panes!Open(Panes!To(c)) /\ Panes!Submitted(Panes!To(c))
    <3>1. ~Panes!HerdrRaised(c)
      BY <1>1, <1>k DEF Panes!HerdrRaised, Panes!Raised, Panes!Go, Panes!Texts
    <3> QED BY <1>k, <1>p, <3>1 DEF Panes!Texts
  <2>2. c \in Panes!ToSet(line[Panes!To(c)]) \/ IsPrompt(c)
    BY <1>1, <1>k, <2>1 DEF SenderInv, TextOK
  <2>3. \A p \in prompts[Panes!To(c)] : p \in prompts'[Panes!To(c)]
    BY <1>2, <1>4 DEF PanesMove
  <2> QED BY <1>1, <1>2, <1>k, <2>1, <2>2, <2>3, SubmittedMoves DEF IsPrompt
<1>11. GoneOK(c)'
  BY <1>1, <1>2 DEF SenderInv, GoneOK, SenderOK, Panes!Open, Panes!TypeOK, Panes!mux,
     Panes!SendEnter, Panes!Go, Panes!Ends, Panes!HerdrRaised, Panes!Raised, Panes!Fails,
     Panes!Submitted
<1>12. /\ KnownPane(c)' => KnownPane(c) \/ Panes!To(c) \in known
       /\ PendingPane(c)' => PendingPane(c)
  BY <1>1, <1>2 DEF KnownPane, PendingPane, SenderInv, SenderOK, Panes!TypeOK, Panes!Texts,
     Panes!SendEnter, Panes!Go, Panes!Ends, Panes!HerdrRaised, Panes!Raised, Panes!Fails,
     Panes!Submitted
<1>13. SenderInv(c)'
  BY <1>7, <1>8, <1>9, <1>10, <1>11 DEF SenderInv
<1> QED BY <1>2, <1>3, <1>4, <1>5, <1>6, <1>12, <1>13 DEF PaneEffect

LEMMA HerdrKeyStep ==
    ASSUME PaneInv, NEW c \in Senders, Panes!HerdrKey(c)
    PROVE  PaneEffect({c}, {})
<1>1. /\ Panes!TypeOK /\ pc \in [Senders -> PaneLabels] /\ Panes!IsInjective(tabs) /\ SenderInv(c)
      /\ FreshOK(c)
  BY DEF PaneInv
<1>2. /\ Panes!Kind(c)' = Panes!Kind(c) /\ Panes!To(c)' = Panes!To(c) /\ Panes!To(c) \in Windows
      /\ backend' = backend /\ want' = want
  BY <1>1 DEF Panes!HerdrKey, Panes!Kind, Panes!To, Panes!TypeOK, Panes!Request, Panes!Herdr
<1>k. /\ pc[c] = "use" /\ Panes!Kind(c) \in {"key", "clear"}
      /\ \/ Panes!Numbered(c) /\ Panes!Pressed(c, Panes!There(c)) /\ Panes!Ends(c, "ok")
         \/ UNCHANGED <<Panes!mux, landed, wiped>> /\ Panes!Ends(c, "error")
      /\ UNCHANGED <<known, enters, pane, buffer, tries, unsure>>
  BY <1>1 DEF Panes!HerdrKey, Panes!Herdr
<1>p. Panes!Numbered(c) => Panes!There(c) \in Windows /\ Panes!Open(Panes!There(c)) /\
          (c \notin unsure => Panes!There(c) = Panes!To(c))
  BY <1>1, <1>k, ThereIsOpen DEF SenderInv, PlaceOK, HoldsNumber
<1>r. PICK W : ReachesOnly(c, W) /\ (c \notin unsure => W \subseteq {Panes!To(c)})
  <2>1. CASE Panes!Numbered(c) /\ Panes!Reached(c, Panes!There(c))
    BY <1>1, <1>p, <2>1, ReachesOne
  <2>2. CASE landed' = landed
    BY <1>1, <2>2, ReachesNone
  <2> QED BY <1>k, <2>1, <2>2 DEF Panes!Pressed
<1>3. PaneTypes
  <2>1. landed' \in [Senders -> Seq(Windows)]
    BY <1>r DEF ReachesOnly
  <2>2. \E how \in {"ok", "error"} : answer' = [answer EXCEPT ![c] = how] /\
            pc' = [pc EXCEPT ![c] = "done"]
    BY <1>k DEF Panes!Go, Panes!Ends
  <2>3. UNCHANGED <<known, enters, pane, buffer, tries>>
    BY <1>k
  <2> QED
    BY <1>1, <2>1, <2>2, <2>3 DEF Panes!TypeOK, PaneTypes, PaneLabels, Panes!Answers
<1>4. PanesMove({})
  BY <1>1, <1>2, <1>k, <1>p, NothingMoves, PressedMoves DEF Panes!mux
<1>5. \A d \in Senders \ {c} : Unmoved(d)
  BY <1>1, <1>k, <1>r DEF Unmoved, Panes!TypeOK, ReachesOnly, Panes!Go, Panes!Ends, Panes!Raised,
     Panes!HerdrRaised
<1>6. known' \subseteq known \cup {} /\ failed \subseteq failed'
  BY DEF Panes!HerdrKey, Panes!Go, Panes!Ends, Panes!Herdr, Panes!Fails, Panes!Pressed,
     Panes!Reached
<1>7. SenderOK(c)'
  BY <1>1, <1>2 DEF SenderInv, SenderOK, Panes!TypeOK, AtPane, Untyped, Panes!Texts,
     Panes!HerdrKey, Panes!Go, Panes!Ends, Panes!Herdr, Panes!Fails, Panes!Pressed, Panes!Reached
<1>8. PlaceOK(c)'
  BY <1>1, <1>2 DEF SenderInv, PlaceOK, HoldsNumber, Panes!Numbered, Panes!There, Panes!TypeOK,
     Panes!Texts, Panes!mux, Panes!HerdrKey, Panes!Go, Panes!Ends, Panes!Herdr, Panes!Fails,
     Panes!Pressed, Panes!Reached
<1>9. AddressOK(c)'
  BY <1>1, <1>2, <1>k, <1>r, StillAddressed DEF SenderInv
<1>10. TextOK(c)'
  BY <1>1, <1>2 DEF SenderInv, TextOK, IsPrompt, Panes!Open, SenderOK, Panes!TypeOK, Panes!Texts,
     Panes!mux, Panes!HerdrKey, Panes!Go, Panes!Ends, Panes!Herdr, Panes!Fails, Panes!Pressed,
     Panes!Reached
<1>11. GoneOK(c)'
  BY <1>1, <1>2 DEF SenderInv, GoneOK, SenderOK, Panes!Open, Panes!TypeOK, Panes!mux,
     Panes!HerdrKey, Panes!Go, Panes!Ends, Panes!Herdr, Panes!Fails, Panes!Pressed, Panes!Reached
<1>12. /\ KnownPane(c)' => KnownPane(c) \/ Panes!To(c) \in known
       /\ PendingPane(c)' => PendingPane(c)
  BY <1>1, <1>2 DEF KnownPane, PendingPane, SenderInv, SenderOK, Panes!TypeOK, Panes!Texts,
     Panes!HerdrKey, Panes!Go, Panes!Ends, Panes!Herdr, Panes!Fails, Panes!Pressed, Panes!Reached
<1>13. SenderInv(c)'
  BY <1>7, <1>8, <1>9, <1>10, <1>11 DEF SenderInv
<1> QED BY <1>2, <1>3, <1>4, <1>5, <1>6, <1>12, <1>13 DEF PaneEffect

LEMMA HerdrKillStep ==
    ASSUME PaneInv, NEW c \in Senders, Panes!HerdrKill(c)
    PROVE  PaneEffect({c}, {})
<1>1. /\ Panes!TypeOK /\ pc \in [Senders -> PaneLabels] /\ Panes!IsInjective(tabs) /\ SenderInv(c)
      /\ FreshOK(c)
  BY DEF PaneInv
<1>2. /\ Panes!Kind(c)' = Panes!Kind(c) /\ Panes!To(c)' = Panes!To(c) /\ Panes!To(c) \in Windows
      /\ backend' = backend /\ want' = want
  BY <1>1 DEF Panes!HerdrKill, Panes!Kind, Panes!To, Panes!TypeOK, Panes!Request, Panes!Herdr
<1>k. /\ pc[c] = "use" /\ Panes!Kind(c) = "kill" /\ Panes!Ends(c, "ok")
      /\ \/ Panes!Numbered(c) /\ Panes!Close(Panes!There(c)) /\ Panes!Reached(c, Panes!There(c))
         \/ UNCHANGED <<Panes!mux, unsure, landed>>
      /\ UNCHANGED <<enters, pane, buffer, tries, wiped>> /\ known' \subseteq known
  BY <1>1 DEF Panes!HerdrKill, Panes!Herdr, Panes!Killed
<1>p. Panes!Numbered(c) => Panes!There(c) \in Windows /\ Panes!Open(Panes!There(c)) /\
          (c \notin unsure => Panes!There(c) = Panes!To(c))
  BY <1>1, <1>k, ThereIsOpen DEF SenderInv, PlaceOK, HoldsNumber
<1>r. PICK W : ReachesOnly(c, W) /\ (c \notin unsure => W \subseteq {Panes!To(c)})
  <2>1. CASE Panes!Numbered(c) /\ Panes!Reached(c, Panes!There(c))
    BY <1>1, <1>p, <2>1, ReachesOne
  <2>2. CASE landed' = landed
    BY <1>1, <2>2, ReachesNone
  <2> QED BY <1>k, <2>1, <2>2 DEF Panes!Close
<1>3. PaneTypes
  <2>1. landed' \in [Senders -> Seq(Windows)]
    BY <1>r DEF ReachesOnly
  <2> QED BY <1>1, <1>2, <1>k, <2>1 DEF Panes!TypeOK, PaneTypes, PaneLabels, Panes!Answers,
     SenderInv, SenderOK, AtPane, Panes!Go, Panes!Ends, Panes!Raised, Panes!HerdrRaised
<1>4. PanesMove({})
  BY <1>1, <1>2, <1>k, <1>p, NothingMoves, CloseMoves DEF Panes!mux
<1>5. \A d \in Senders \ {c} : Unmoved(d)
  BY <1>1, <1>k, <1>r DEF Unmoved, Panes!TypeOK, ReachesOnly, Panes!Go, Panes!Ends, Panes!Raised,
     Panes!HerdrRaised
<1>6. known' \subseteq known \cup {} /\ failed \subseteq failed'
  BY DEF Panes!HerdrKill, Panes!Go, Panes!Ends, Panes!Herdr, Panes!Fails, Panes!Killed,
     Panes!Reached
<1>7. SenderOK(c)'
  BY <1>1, <1>2 DEF SenderInv, SenderOK, Panes!TypeOK, AtPane, Untyped, Panes!Texts,
     Panes!HerdrKill, Panes!Go, Panes!Ends, Panes!Herdr, Panes!Fails, Panes!Killed, Panes!Reached
<1>8. PlaceOK(c)'
  BY <1>1, <1>2 DEF SenderInv, PlaceOK, HoldsNumber, Panes!Numbered, Panes!There, Panes!TypeOK,
     Panes!Texts, Panes!mux, Panes!HerdrKill, Panes!Go, Panes!Ends, Panes!Herdr, Panes!Fails,
     Panes!Killed, Panes!Reached
<1>9. AddressOK(c)'
  <2>1. unsure \subseteq unsure'
    BY <1>4 DEF PanesMove
  <2> QED BY <1>1, <1>2, <1>k, <1>r, <2>1, StillAddressed DEF SenderInv
<1>10. TextOK(c)'
  BY <1>1, <1>2 DEF SenderInv, TextOK, IsPrompt, Panes!Open, SenderOK, Panes!TypeOK, Panes!Texts,
     Panes!mux, Panes!HerdrKill, Panes!Go, Panes!Ends, Panes!Herdr, Panes!Fails, Panes!Killed,
     Panes!Reached
<1>11. GoneOK(c)'
  BY <1>1, <1>2 DEF SenderInv, GoneOK, SenderOK, Panes!Open, Panes!TypeOK, Panes!mux,
     Panes!HerdrKill, Panes!Go, Panes!Ends, Panes!Herdr, Panes!Fails, Panes!Killed, Panes!Reached
<1>12. /\ KnownPane(c)' => KnownPane(c) \/ Panes!To(c) \in known
       /\ PendingPane(c)' => PendingPane(c)
  BY <1>1, <1>2 DEF KnownPane, PendingPane, SenderInv, SenderOK, Panes!TypeOK, Panes!Texts,
     Panes!HerdrKill, Panes!Go, Panes!Ends, Panes!Herdr, Panes!Fails, Panes!Killed, Panes!Reached
<1>13. SenderInv(c)'
  BY <1>7, <1>8, <1>9, <1>10, <1>11 DEF SenderInv
<1> QED BY <1>2, <1>3, <1>4, <1>5, <1>6, <1>12, <1>13 DEF PaneEffect

LEMMA HerdrKillSessionStep ==
    ASSUME PaneInv, NEW c \in Senders, Panes!HerdrKillSession(c)
    PROVE  PaneEffect({c}, {})
<1>1. /\ Panes!TypeOK /\ pc \in [Senders -> PaneLabels] /\ Panes!IsInjective(tabs) /\ SenderInv(c)
      /\ FreshOK(c)
  BY DEF PaneInv
<1>2. /\ Panes!Kind(c)' = Panes!Kind(c) /\ Panes!To(c)' = Panes!To(c) /\ Panes!To(c) \in Windows
      /\ backend' = backend /\ want' = want
  BY <1>1 DEF Panes!HerdrKillSession, Panes!Kind, Panes!To, Panes!TypeOK, Panes!Request, Panes!Herdr
<1>k. /\ pc[c] = "use" /\ Panes!Kind(c) = "killall" /\ Panes!Ends(c, "ok")
      /\ Panes!CloseAll \/ UNCHANGED <<Panes!mux, unsure>>
      /\ UNCHANGED <<known, enters, pane, buffer, tries, landed, wiped>>
  BY <1>1 DEF Panes!HerdrKillSession, Panes!Herdr
<1>3. PaneTypes
  BY <1>1, <1>2 DEF Panes!TypeOK, PaneTypes, PaneLabels, Panes!Answers, SenderInv, SenderOK,
     AtPane, Panes!HerdrKillSession, Panes!Go, Panes!Ends, Panes!Herdr, Panes!Fails, Panes!Killed
<1>4. PanesMove({})
  BY <1>1, <1>2, <1>k, NothingMoves, CloseAllMoves DEF Panes!mux
<1>5. \A d \in Senders \ {c} : Unmoved(d)
  BY <1>1 DEF Unmoved, Panes!TypeOK, Panes!HerdrKillSession, Panes!Go, Panes!Ends, Panes!Herdr,
     Panes!Fails, Panes!Killed
<1>6. known' \subseteq known \cup {} /\ failed \subseteq failed'
  BY DEF Panes!HerdrKillSession, Panes!Go, Panes!Ends, Panes!Herdr, Panes!Fails, Panes!Killed
<1>7. SenderOK(c)'
  BY <1>1, <1>2 DEF SenderInv, SenderOK, Panes!TypeOK, AtPane, Untyped, Panes!Texts,
     Panes!HerdrKillSession, Panes!Go, Panes!Ends, Panes!Herdr, Panes!Fails, Panes!Killed
<1>8. PlaceOK(c)'
  BY <1>1, <1>2 DEF SenderInv, PlaceOK, HoldsNumber, Panes!Numbered, Panes!There, Panes!TypeOK,
     Panes!Texts, Panes!mux, Panes!HerdrKillSession, Panes!Go, Panes!Ends, Panes!Herdr,
     Panes!Fails, Panes!Killed
<1>9. AddressOK(c)'
  <2>1. unsure \subseteq unsure'
    BY <1>4 DEF PanesMove
  <2> QED BY <1>1, <1>2, <1>k, <2>1 DEF SenderInv, AddressOK
<1>10. TextOK(c)'
  BY <1>1, <1>2 DEF SenderInv, TextOK, IsPrompt, Panes!Open, SenderOK, Panes!TypeOK, Panes!Texts,
     Panes!mux, Panes!HerdrKillSession, Panes!Go, Panes!Ends, Panes!Herdr, Panes!Fails, Panes!Killed
<1>11. GoneOK(c)'
  BY <1>1, <1>2 DEF SenderInv, GoneOK, SenderOK, Panes!Open, Panes!TypeOK, Panes!mux,
     Panes!HerdrKillSession, Panes!Go, Panes!Ends, Panes!Herdr, Panes!Fails, Panes!Killed
<1>12. /\ KnownPane(c)' => KnownPane(c) \/ Panes!To(c) \in known
       /\ PendingPane(c)' => PendingPane(c)
  BY <1>1, <1>2 DEF KnownPane, PendingPane, SenderInv, SenderOK, Panes!TypeOK, Panes!Texts,
     Panes!HerdrKillSession, Panes!Go, Panes!Ends, Panes!Herdr, Panes!Fails, Panes!Killed
<1>13. SenderInv(c)'
  BY <1>7, <1>8, <1>9, <1>10, <1>11 DEF SenderInv
<1> QED BY <1>2, <1>3, <1>4, <1>5, <1>6, <1>12, <1>13 DEF PaneEffect

LEMMA MakeTabStep ==
    ASSUME PaneInv, NEW c \in Senders, Panes!MakeTab(c)
    PROVE  PaneEffect({c}, {Panes!To(c)})
<1>1. /\ Panes!TypeOK /\ pc \in [Senders -> PaneLabels] /\ Panes!IsInjective(tabs) /\ SenderInv(c)
      /\ FreshOK(c)
  BY DEF PaneInv
<1>2. /\ Panes!Kind(c)' = Panes!Kind(c) /\ Panes!To(c)' = Panes!To(c) /\ Panes!To(c) \in Windows
      /\ backend' = backend /\ want' = want
  BY <1>1 DEF Panes!MakeTab, Panes!Kind, Panes!To, Panes!TypeOK, Panes!Request
<1>k. /\ pc[c] = "make" /\ Panes!Kind(c) = "make" /\ PendingPane(c)
      /\ \/ /\ tabs' = Append(tabs, Panes!To(c)) /\ known' = known \cup {Panes!To(c)}
            /\ UNCHANGED <<line, prompts>> /\ UNCHANGED answer
            /\ \/ pane' = [pane EXCEPT ![c] = Len(tabs) + 1] /\ Panes!Go(c, "text")
               \/ UNCHANGED pane /\ Panes!Go(c, "scan")
         \/ UNCHANGED <<Panes!mux, known, pane>> /\ Panes!Ends(c, "error")
      /\ UNCHANGED <<enters, buffer, tries, landed, unsure, wiped>>
  BY <1>1 DEF Panes!MakeTab, PendingPane, SenderInv, SenderOK, Panes!mux
<1>3. PaneTypes
  <2>1. Len(tabs) + 1 \in Nat
    BY <1>1 DEF Panes!TypeOK
  <2>2. pane' \in [Senders -> Nat]
    BY <1>1, <1>k, <2>1 DEF Panes!TypeOK
  <2> QED BY <1>1, <1>2, <1>k, <2>2 DEF Panes!TypeOK, PaneTypes, PaneLabels, Panes!Answers,
     Panes!Go, Panes!Ends
<1>4. PanesMove({Panes!To(c)})
  <2>1. ~Panes!Open(Panes!To(c))
    BY <1>1, <1>k DEF FreshOK
  <2>2. CASE tabs' = Append(tabs, Panes!To(c)) /\ UNCHANGED <<line, prompts>>
    BY <1>1, <1>2, <1>k, <2>1, <2>2, MadeMoves
  <2>3. CASE UNCHANGED Panes!mux
    BY <1>1, <1>k, <2>3, NothingMoves, MovesMore
  <2> QED BY <1>k, <2>2, <2>3
<1>5. \A d \in Senders \ {c} : Unmoved(d)
  BY <1>1 DEF Unmoved, Panes!TypeOK, Panes!MakeTab, Panes!Go, Panes!Ends, Panes!Fails
<1>6. known' \subseteq known \cup {Panes!To(c)} /\ failed \subseteq failed'
  BY DEF Panes!MakeTab, Panes!Go, Panes!Ends, Panes!Fails
<1>7. SenderOK(c)'
  BY <1>1, <1>2 DEF SenderInv, SenderOK, Panes!TypeOK, AtPane, Untyped, Panes!Texts, Panes!MakeTab,
     Panes!Go, Panes!Ends, Panes!Fails
<1>8. PlaceOK(c)'
  BY <1>1, <1>2 DEF SenderInv, PlaceOK, HoldsNumber, Panes!Numbered, Panes!There, Panes!TypeOK,
     Panes!Texts, Panes!mux, Panes!MakeTab, Panes!Go, Panes!Ends, Panes!Fails
<1>9. AddressOK(c)'
  BY <1>1, <1>2 DEF SenderInv, AddressOK, Panes!TypeOK, Panes!MakeTab, Panes!Go, Panes!Ends,
     Panes!Fails
<1>10. TextOK(c)'
  BY <1>1, <1>2 DEF SenderInv, TextOK, IsPrompt, Panes!Open, SenderOK, Panes!TypeOK, Panes!Texts,
     Panes!mux, Panes!MakeTab, Panes!Go, Panes!Ends, Panes!Fails
<1>11. GoneOK(c)'
  BY <1>1, <1>2 DEF SenderInv, GoneOK, SenderOK, Panes!Open, Panes!TypeOK, Panes!mux,
     Panes!MakeTab, Panes!Go, Panes!Ends, Panes!Fails
<1>12. /\ KnownPane(c)' => KnownPane(c) \/ Panes!To(c) \in known
       /\ PendingPane(c)' => PendingPane(c)
  BY <1>1, <1>2 DEF KnownPane, PendingPane, SenderInv, SenderOK, Panes!TypeOK, Panes!Texts,
     Panes!MakeTab, Panes!Go, Panes!Ends, Panes!Fails
<1>13. SenderInv(c)'
  BY <1>7, <1>8, <1>9, <1>10, <1>11 DEF SenderInv
<1>14. ~PendingPane(c)'
  BY <1>1, <1>k DEF PendingPane, Panes!Go, Panes!Ends
<1> QED BY <1>2, <1>3, <1>4, <1>5, <1>6, <1>k, <1>12, <1>13, <1>14 DEF PaneEffect

LEMMA AgentExitsStep ==
    ASSUME PaneInv, NEW w \in Windows, Panes!AgentExits(w)
    PROVE  PaneEffect({}, {})
<1>1. Panes!TypeOK /\ pc \in [Senders -> PaneLabels] /\ Panes!IsInjective(tabs)
  BY DEF PaneInv
<1>2. /\ Panes!Open(w) /\ Panes!Close(w)
      /\ UNCHANGED <<backend, known, want, pc, enters, pane, buffer, tries, answer, landed, wiped,
                     failed>>
  BY DEF Panes!AgentExits
<1>3. PanesMove({})
  BY <1>1, <1>2, CloseMoves
<1>4. PaneTypes
  BY <1>1, <1>2 DEF Panes!TypeOK, PaneTypes
<1>5. \A c \in Senders : Unmoved(c)
  BY <1>2 DEF Unmoved
<1> QED BY <1>2, <1>3, <1>4, <1>5 DEF PaneEffect

LEMMA PaneStepInv ==
    ASSUME PaneInv, [Panes!Next]_(Panes!vars)
    PROVE  PaneInv'
<1>1. ASSUME NEW c \in Senders, Panes!Step(c) PROVE PaneInv'
  <2>1. \E new : PaneEffect({c}, new)
    BY <1>1, BeginStep, ProbeStep, LoadBufferStep, PasteBufferStep, PressEnterStep,
       DeleteBufferStep, TmuxKeyStep, TmuxReadStep, TmuxMakeStep, TmuxKillStep,
       TmuxKillSessionStep, ResolveTabStep, ResolvePaneStep, SendTextStep, SendEnterStep,
       HerdrKeyStep, HerdrReadStep, HerdrKillStep, HerdrKillSessionStep, MakeTabStep,
       ScanPanesStep DEF Panes!Step
  <2> QED BY <2>1, EffectInv
<1>2. ASSUME NEW w \in Windows, Panes!AgentExits(w) PROVE PaneInv'
  BY <1>2, AgentExitsStep, EffectInv
<1>3. CASE UNCHANGED Panes!vars
  BY <1>3 DEF PaneInv, Panes!vars, Panes!mux, Panes!TypeOK, SenderInv, SenderOK, PlaceOK,
     HoldsNumber, Panes!Numbered, Panes!There, AddressOK,
       TextOK, IsPrompt, GoneOK, FreshOK, KnownPane, PendingPane, Panes!Kind, Panes!To, Panes!Open
<1> QED BY <1>1, <1>2, <1>3 DEF Panes!Next

LEMMA PaneInitInv ==
    ASSUME Panes!Init
    PROVE  PaneInv
<1>1. /\ tabs \in Seq(Windows) /\ want \in Wanted /\ want \in [Senders -> Panes!Request]
      /\ Panes!IsInjective(tabs)
  BY DEF Panes!Init, Panes!NamesAreFresh
<1>2. <<>> \in Seq(Senders) /\ <<>> \in Seq(Windows) /\ Len(<<>>) = 0
  OBVIOUS
<1>3. Panes!TypeOK
  <2>1. known \subseteq Windows
    BY <1>1, SetOfSeq DEF Panes!Init
  <2> QED BY <1>1, <1>2, <2>1 DEF Panes!Init, Panes!TypeOK, Panes!Answers
<1>4. pc \in [Senders -> PaneLabels]
  BY DEF Panes!Init, PaneLabels
<1>5. ASSUME NEW c \in Senders PROVE SenderInv(c)
  BY <1>2, SetOfEmpty DEF Panes!Init, SenderInv, SenderOK, AtPane, PlaceOK, HoldsNumber, AddressOK,
     TextOK, GoneOK
<1>6. ASSUME NEW d \in Senders PROVE FreshOK(d)
  <2>1. Panes!Kind(d) = "make" => Panes!To(d) \notin Panes!ToSet(tabs)
    BY <1>1 DEF Panes!Init, Panes!NamesAreFresh, Panes!Kind, Panes!To
  <2> QED BY <2>1 DEF Panes!Init, FreshOK, PendingPane, KnownPane, Panes!Open
<1> QED BY <1>1, <1>3, <1>4, <1>5, <1>6 DEF PaneInv

\* Every call has its place between the panes, its buffer and its answer, whatever the
\* others type, close, kill or make: the inductive invariant of PaneInput.
LEMMA PaneSpecInv == Panes!Spec => []PaneInv
<1>1. Panes!Init => PaneInv
  BY PaneInitInv
<1>2. PaneInv /\ [Panes!Next]_(Panes!vars) => PaneInv'
  BY PaneStepInv
<1> QED BY <1>1, <1>2, PTL DEF Panes!Spec

\* What the multiplexer, the rows, the inbox and the calls into the panes keep has its type.
THEOREM SpecPanesTypeOK == Panes!Spec => []Panes!TypeOK
<1>1. PaneInv => Panes!TypeOK
  BY DEF PaneInv
<1> QED BY <1>1, PaneSpecInv, PTL

\* What send_keys pastes, presses, reads or kills reaches the window it was asked for and no
\* other, unless the pane moves up under an address that was resolved before (PaneInput says
\* when): for any number of callers, windows, positions and retries.
THEOREM SpecAddressed == Panes!Spec => []Addressed
<1>1. PaneInv => Addressed
  BY DEF PaneInv, SenderInv, AddressOK, Addressed, Panes!Addressed
<1> QED BY <1>1, PaneSpecInv, PTL

\* What send_input and the inbox tell of a text is so: it is typed once at most, "ok" is of one
\* that was submitted in its window unless its pane moved up or its line was cleared, "retry" of
\* one that was typed nowhere, "gone" of a window that is closed or whose probe failed.
THEOREM SpecAnswerIsTrue == Panes!Spec => []AnswerIsTrue
<1>1. PaneInv => AnswerIsTrue
  <2> SUFFICES ASSUME PaneInv, NEW c \in Senders
               PROVE  /\ Panes!Kind(c) \in Panes!Texts => Len(landed[c]) <= 1
                      /\ (Panes!Kind(c) \in Panes!Texts /\ answer[c] = "ok" /\ c \notin unsure \cup wiped) =>
                             \E p \in prompts[Panes!To(c)] : c \in Panes!ToSet(p)
                      /\ answer[c] = "retry" => landed[c] = <<>>
                      /\ answer[c] = "gone" => ~Panes!Open(Panes!To(c)) \/ <<c, "probe">> \in failed
    BY DEF AnswerIsTrue, Panes!AnswerIsTrue
  <2>1. SenderInv(c)
    BY DEF PaneInv
  <2> QED BY <2>1 DEF SenderInv, SenderOK, TextOK, IsPrompt, GoneOK
<1> QED BY <1>1, PaneSpecInv, PTL

=============================================================================
