-------------------------- MODULE MemoryStoreProofs --------------------------
(* For every number of keys, stores, compiles, removals and faults: no entry is    *)
(* lost or comes back, and what a memory consists of agrees.                        *)
EXTENDS MemoryStore, TLAPS

InStore == {"locked", "written", "indexed"}
AtWork == {"check", "unlink", "index", "row", "rewrite", "renew"}
CallType == [pc : {"unused", "locked", "written", "indexed", "done", "lost"},
             key : Keys, seen : Article]
JobType == [pc : {"none", "llm", "write", "stamp"}, key : Keys, expect : Article]
RemType == [pc : {"unused", "lint", "ready", "next", "done"} \cup AtWork,
            kind : AllKinds, todo : SUBSET Keys, on : Keys, seen : Article,
            pend : SUBSET Keys]

Types ==
    /\ file \in [Keys -> Article]
    /\ index \in [Keys -> {"none", "recent", "old"}]
    /\ row \in [Keys -> {"none", "stale", "fresh"}]
    /\ holder \in [Keys -> Compilers \cup {NoOp}]
    /\ call \in [Stores -> CallType]
    /\ job \in [Compilers -> JobType]
    /\ todo \in [Sweeps -> SUBSET Keys]
    /\ rem \in [Removals -> RemType]
    /\ owed \in [Keys -> SUBSET Stores] /\ gone \in [Keys -> SUBSET Stores]
    /\ since \in [Keys -> SUBSET Keys]
    /\ torn \subseteq Keys
    /\ faults \in 0..MaxFaults

LEMMA Values ==
    /\ SomeKey \in Keys /\ NoFile \in Article
    /\ \A pc \in {"unused", "locked", "written", "indexed", "done", "lost"} : Call(pc) \in CallType
    /\ NoJob \in JobType /\ NoRemoval \in RemType /\ Over \in RemType
    /\ NoRemoval.pend = {} /\ NoRemoval.pc = "unused" /\ Over.pc = "done" /\ Over.pend = {}
    /\ NoJob.pc = "none"
<1>1. SomeKey \in Keys
  BY MemoryAssumption DEF SomeKey, MemoryAssumption
<1>2. NoFile \in Article
  BY DEF NoFile, Article
<1> QED
  BY <1>1, <1>2 DEF Call, CallType, NoJob, JobType, NoRemoval, RemType, Over, AllKinds

LEMMA InitTypes == Init => Types
<1> SUFFICES ASSUME Init PROVE Types
  OBVIOUS
<1>1. 0 \in 0..MaxFaults
  BY MemoryAssumption DEF MemoryAssumption
<1> QED
  BY <1>1, Values DEF Init, Types

LEMMA UpsertTypes ==
    ASSUME Types, NEW k \in Keys, NEW state \in {"stale", "fresh"}, Upsert(k, state)
    PROVE  row' \in [Keys -> {"none", "stale", "fresh"}] /\ since' \in [Keys -> SUBSET Keys]
BY DEF Types, Upsert

LEMMA DropTypes ==
    ASSUME Types, NEW ks, Drop(ks)
    PROVE  row' \in [Keys -> {"none", "stale", "fresh"}] /\ since' \in [Keys -> SUBSET Keys]
BY DEF Types, Drop

LEMMA FaultTypes ==
    ASSUME Types, NEW kind, Fault(kind)
    PROVE  faults' \in 0..MaxFaults
BY MemoryAssumption DEF Types, Fault, MemoryAssumption

LEMMA TypeStep == Types /\ [Next]_vars => Types'
<1> SUFFICES ASSUME Types, [Next]_vars PROVE Types'
  OBVIOUS
<1> USE DEF Types
<1>1. CASE UNCHANGED vars
  BY <1>1 DEF vars
<1>2. ASSUME NEW s \in Stores, Storing(s) PROVE Types'
  <2>0. s \in Compilers
    BY DEF Compilers
  <2>1. ASSUME NEW k \in Keys, Lock(s, k) PROVE Types'
    <3>1. [pc |-> "locked", key |-> k, seen |-> file[k]] \in CallType
      BY DEF CallType
    <3> QED
      BY <2>0, <2>1, <3>1 DEF Lock, table, history
  <2>2. ASSUME Append(s) PROVE Types'
    <3> DEFINE k == call[s].key
               new == [entries |-> call[s].seen.entries \cup {s}, how |-> "append", who |-> s]
    <3>1. k \in Keys /\ call[s].seen \in Article
      BY DEF CallType
    <3>2. new \in Article
      BY <2>0, <3>1 DEF Article, Ops
    <3>3. [pc |-> "llm", key |-> k, expect |-> new] \in JobType
      BY <3>1, <3>2 DEF JobType
    <3>4. job' \in [Compilers -> JobType]
      BY <2>0, <2>2, <3>3 DEF Append
    <3>5. call' \in [Stores -> CallType]
      <4>1. [call[s] EXCEPT !.pc = "written", !.seen = NoFile] \in CallType
        BY Values DEF CallType
      <4>2. call' = [call EXCEPT ![s] = [call[s] EXCEPT !.pc = "written", !.seen = NoFile]]
        BY <2>2 DEF Append
      <4> QED
        BY <4>1, <4>2
    <3>6. file' \in [Keys -> Article]
      BY <2>2, <3>1, <3>2 DEF Append
    <3> QED
      BY <2>2, <3>4, <3>5, <3>6 DEF Append, table, history
  <2>3. ASSUME WriteLine(s) PROVE Types'
    <3>1. call' \in [Stores -> CallType] /\ index' \in [Keys -> {"none", "recent", "old"}]
      BY <2>3 DEF WriteLine, CallType
    <3> QED
      BY <2>3, <3>1 DEF WriteLine, table, history
  <2>4. ASSUME WriteRow(s) PROVE Types'
    <3>1. call[s].key \in Keys
      BY DEF CallType
    <3>2. row' \in [Keys -> {"none", "stale", "fresh"}] /\ since' \in [Keys -> SUBSET Keys]
      BY <2>4, <3>1, UpsertTypes DEF WriteRow, table
    <3>3. faults' \in 0..MaxFaults /\ torn' \subseteq Keys
      BY <2>4, <3>1, FaultTypes DEF WriteRow
    <3>4. call' \in [Stores -> CallType]
      BY <2>4, Values DEF WriteRow
    <3> QED
      BY <2>4, <3>1, <3>2, <3>3, <3>4 DEF WriteRow
  <2> QED
    BY <1>2, <2>1, <2>2, <2>3, <2>4 DEF Storing
<1>3. ASSUME NEW c \in Compilers, Compiling(c) PROVE Types'
  <2>1. job[c] \in JobType /\ job[c].key \in Keys /\ job[c].expect \in Article
    BY DEF JobType
  <2>2. CASE Fallback(c)
    BY <2>2, Values DEF Fallback, table, history
  <2>3. CASE Compiled(c)
    <3>1. [job[c] EXCEPT !.pc = "write"] \in JobType
      BY <2>1 DEF JobType
    <3>2. job' \in [Compilers -> JobType]
      BY <2>3, <3>1, Values DEF Compiled
    <3>3. holder' \in [Keys -> Compilers \cup {NoOp}]
      BY <2>1, <2>3 DEF Compiled, HeldAfterCheck
    <3> QED
      BY <2>3, <3>2, <3>3 DEF Compiled, table, history
  <2>4. CASE WriteBack(c)
    <3>1. [entries |-> job[c].expect.entries, how |-> "compile", who |-> c] \in Article
      BY <2>1 DEF Article, Ops
    <3>2. job' \in [Compilers -> JobType]
      <4>1. [job[c] EXCEPT !.pc = "stamp"] \in JobType
        BY <2>1 DEF JobType
      <4>2. job' = [job EXCEPT ![c] = [job[c] EXCEPT !.pc = "stamp"]]
        BY <2>4 DEF WriteBack
      <4> QED
        BY <4>1, <4>2
    <3> QED
      BY <2>1, <2>4, <3>1, <3>2 DEF WriteBack, Held, table, history
  <2>5. CASE Stamp(c)
    <3>1. row' \in [Keys -> {"none", "stale", "fresh"}] /\ since' \in [Keys -> SUBSET Keys]
      BY <2>1, <2>5, UpsertTypes DEF Stamp, table
    <3>2. faults' \in 0..MaxFaults /\ torn' \subseteq Keys
      BY <2>1, <2>5, FaultTypes DEF Stamp
    <3> QED
      BY <2>1, <2>5, <3>1, <3>2, Values DEF Stamp
  <2> QED
    BY <1>3, <2>2, <2>3, <2>4, <2>5 DEF Compiling
<1>4. ASSUME NEW w \in Sweeps, Sweeping(w) PROVE Types'
  <2>0. w \in Compilers
    BY DEF Compilers
  <2>1. CASE ListUncompiled(w)
    BY <2>1 DEF ListUncompiled, table, history
  <2>2. ASSUME NEW k \in Keys, ReadArticle(w, k) PROVE Types'
    <3>1. [pc |-> "llm", key |-> k, expect |-> file[k]] \in JobType
      BY DEF JobType
    <3> QED
      BY <2>0, <2>2, <3>1 DEF ReadArticle, table, history
  <2> QED
    BY <1>4, <2>1, <2>2 DEF Sweeping
<1>5. ASSUME NEW r \in Removals, Removing(r) PROVE Types'
  <2> DEFINE k == rem[r].on
  <2>1. rem[r] \in RemType /\ k \in Keys /\ rem[r].seen \in Article /\ rem[r].pend \subseteq Keys
    BY DEF RemType
  <2>2. Back(r) \in RemType /\ [Back(r) EXCEPT !.pend = @ \cup {k}] \in RemType
    BY <2>1, Values DEF Back, RemType
  <2>3. ASSUME NEW new \in RemType, Step(r, new) PROVE rem' \in [Removals -> RemType]
    BY <2>3 DEF Step
  <2> DEFINE Moves == rem' \in [Removals -> RemType]
  <2> DEFINE Told == row' \in [Keys -> {"none", "stale", "fresh"}] /\ since' \in [Keys -> SUBSET Keys]
                     /\ torn' \subseteq Keys /\ faults' \in 0..MaxFaults
  <2>4. ASSUME UNCHANGED <<table, history>> PROVE Told
    BY <2>4 DEF table, history
  <2>5. ASSUME NEW ks \in SUBSET Keys, Drop(ks), UNCHANGED history PROVE Told
    BY <2>5, DropTypes DEF history
  <2>6. ASSUME NEW ks \in SUBSET Keys, Fault("db"), torn' = torn \cup ks, UNCHANGED table PROVE Told
    BY <2>6, FaultTypes DEF table
  <2>7. {k} \in SUBSET Keys
    BY <2>1
  <2>8. CASE Request(r)
    <3>1. ASSUME NEW kind, NEW pc \in {"lint", "ready", "next"}, NEW keys \in SUBSET Keys,
                 Begin(r, kind, pc, keys)
          PROVE  Types'
      <4>1. [NoRemoval EXCEPT !.pc = pc, !.kind = kind, !.todo = keys] \in RemType
        BY <3>1, MemoryAssumption, Values DEF Begin, RemType, MemoryAssumption
      <4> QED
        BY <2>3, <3>1, <4>1 DEF Begin, Reads, Alone, table, history
    <3>2. Rows \subseteq Keys /\ Keys \ Rows \subseteq Keys /\ {x \in Keys : index[x] = "old"} \subseteq Keys
      BY DEF Rows
    <3>3. ASSUME NEW x \in Keys, NEW kind, NEW pc \in {"lint", "ready", "next"}, Begin(r, kind, pc, {x})
          PROVE  Types'
      <4>1. {x} \in SUBSET Keys
        OBVIOUS
      <4> QED
        BY <3>1, <3>3, <4>1
    <3>4. CASE \E x \in Keys : Begin(r, "forget", "next", {x})
      BY <3>3, <3>4
    <3>5. CASE \E x \in Keys : Begin(r, "stale_claim", "ready", {x})
      BY <3>3, <3>5
    <3>6. CASE \E x \in Keys : Begin(r, "contradiction", "ready", {x})
      BY <3>3, <3>6
    <3>7. CASE Begin(r, "expire", "next", {x \in Keys : index[x] = "old"})
      BY <3>1, <3>2, <3>7
    <3>8. CASE Begin(r, "orphan", "lint", Keys \ Rows)
      BY <3>1, <3>2, <3>8
    <3> HIDE DEF Types
    <3> QED
      BY <2>8, <3>4, <3>5, <3>6, <3>7, <3>8 DEF Request
  <2>9. CASE DetectOrphans(r)
    <3>1. Moves
      BY <2>1, <2>9 DEF DetectOrphans, Step, RemType
    <3> QED
      BY <2>9, <3>1 DEF DetectOrphans, Reads, Alone, table, history
  <2>10. CASE AcquireHealLock(r)
    <3>1. Moves
      BY <2>2, <2>3, <2>10, Values DEF AcquireHealLock
    <3> QED
      BY <2>10, <3>1 DEF AcquireHealLock, Reads, Alone, table, history
  <2>11. CASE Take(r)
    <3>1. PICK x \in rem[r].todo :
              LET rest == [rem[r] EXCEPT !.todo = @ \ {x}] IN
              \/ Step(r, rest)
              \/ Step(r, [rest EXCEPT !.pc = "check", !.on = x])
              \/ Step(r, [rest EXCEPT !.pc = "rewrite", !.on = x, !.seen = file[x]])
      BY <2>11 DEF Take
    <3> DEFINE rest == [rem[r] EXCEPT !.todo = @ \ {x}]
    <3>2. x \in Keys /\ file[x] \in Article
      BY <2>1 DEF RemType
    <3>3. rest \in RemType
      BY <2>1 DEF RemType
    <3>4. [rest EXCEPT !.pc = "check", !.on = x] \in RemType
      BY <3>2, <3>3 DEF RemType, AtWork
    <3>5. [rest EXCEPT !.pc = "rewrite", !.on = x, !.seen = file[x]] \in RemType
      BY <3>2, <3>3 DEF RemType, AtWork
    <3>6. Moves
      BY <2>3, <3>1, <3>3, <3>4, <3>5
    <3> QED
      BY <2>11, <3>6 DEF Take, Reads, Alone, table, history
  <2>12. CASE CheckFile(r)
    <3>1. Told
      BY <2>4, <2>5, <2>6, <2>7, <2>12 DEF CheckFile
    <3>2. [rem[r] EXCEPT !.pc = "unlink"] \in RemType /\ [rem[r] EXCEPT !.pc = "index"] \in RemType
      BY <2>1 DEF RemType, AtWork
    <3>4. Moves
      BY <2>2, <2>3, <2>12, <3>2 DEF CheckFile
    <3>3. UNCHANGED <<file, index, owed, gone>> /\ Alone
      BY <2>12 DEF CheckFile, history
    <3> QED
      BY <3>1, <3>3, <3>4 DEF Alone
  <2>13. CASE Unlink(r)
    <3>1. Moves
      BY <2>1, <2>2, <2>13 DEF Unlink, Step, RemType, AtWork
    <3>2. file[k].entries \in SUBSET Stores
      BY <2>1 DEF Article
    <3>3. file' \in [Keys -> Article] /\ owed' \in [Keys -> SUBSET Stores]
          /\ gone' \in [Keys -> SUBSET Stores]
      BY <2>1, <2>13, <3>2, Values DEF Unlink
    <3> QED
      BY <2>13, <3>1, <3>3 DEF Unlink, Alone, table
  <2>14. CASE RemoveLine(r)
    <3>1. Moves
      BY <2>1, <2>14 DEF RemoveLine, Step, RemType, AtWork
    <3> QED
      BY <2>1, <2>14, <3>1 DEF RemoveLine, Alone, table, history
  <2>15. CASE DeleteRow(r)
    <3>1. Told
      BY <2>4, <2>5, <2>6, <2>7, <2>15 DEF DeleteRow
    <3>2. Moves
      BY <2>2, <2>3, <2>15 DEF DeleteRow
    <3>3. UNCHANGED <<file, index, owed, gone>> /\ Alone
      BY <2>15 DEF DeleteRow, history
    <3> QED
      BY <3>1, <3>2, <3>3 DEF Alone
  <2>16. CASE Rewrite(r)
    <3>1. Moves
      BY <2>1, <2>16, Values DEF Rewrite, Step, RemType, AtWork
    <3>2. [entries |-> rem[r].seen.entries, how |-> "strip", who |-> r] \in Article
      BY <2>1 DEF Article, Ops
    <3> QED
      BY <2>1, <2>16, <3>1, <3>2 DEF Rewrite, Alone, table, history
  <2>17. CASE Renew(r)
    <3>1. Told
      BY <2>1, <2>6, <2>7, <2>17, UpsertTypes DEF Renew, history
    <3>2. Moves
      BY <2>2, <2>3, <2>17 DEF Renew
    <3>3. UNCHANGED <<file, index, owed, gone>> /\ Alone
      BY <2>17 DEF Renew, history
    <3> QED
      BY <3>1, <3>2, <3>3 DEF Alone
  <2>18. CASE Finish(r)
    <3>1. Told
      BY <2>1, <2>5, <2>6, <2>18 DEF Finish
    <3>2. Moves
      BY <2>3, <2>18, Values DEF Finish
    <3>3. UNCHANGED <<file, index, owed, gone>> /\ Alone
      BY <2>18 DEF Finish, history
    <3> QED
      BY <3>1, <3>2, <3>3 DEF Alone
  <2> QED
    BY <1>5, <2>8, <2>9, <2>10, <2>11, <2>12, <2>13, <2>14, <2>15, <2>16, <2>17, <2>18 DEF Removing
<1>6. ASSUME NEW k \in Keys, Recall(k) \/ Age(k) PROVE Types'
  <2>1. CASE Recall(k)
    BY <2>1, UpsertTypes DEF Recall, Alone, history
  <2>2. CASE Age(k)
    BY <2>2 DEF Age, Alone, table, history
  <2> QED
    BY <1>6, <2>1, <2>2
<1>7. CASE Die
  <2>0. faults' \in 0..MaxFaults /\ UNCHANGED <<file, index, table, owed, gone>>
    BY <1>7, FaultTypes DEF Die
  <2>1. ASSUME NEW s \in Stores,
               call' = [call EXCEPT ![s] = Call("lost")], job' = [job EXCEPT ![s] = NoJob],
               holder' = [holder EXCEPT ![call[s].key] = NoOp],
               torn' = torn \cup {call[s].key}, UNCHANGED <<todo, rem>>
        PROVE  Types'
    <3>1. call[s].key \in Keys
      BY DEF CallType
    <3> QED
      BY <2>0, <2>1, <3>1, Values DEF table
  <2>2. ASSUME NEW c \in Compilers, job' = [job EXCEPT ![c] = NoJob],
               todo' = [w \in Sweeps |-> IF w = c THEN {} ELSE todo[w]],
               holder' = [holder EXCEPT ![job[c].key] = NoOp],
               torn' = torn \cup {job[c].key}, UNCHANGED <<call, rem>>
        PROVE  Types'
    <3>1. job[c].key \in Keys
      BY DEF JobType
    <3> QED
      BY <2>0, <2>2, <3>1, Values DEF table
  <2>3. ASSUME NEW r \in Removals, Step(r, Over),
               torn' = torn \cup rem[r].pend
                             \cup IF rem[r].pc = "next" THEN {} ELSE {rem[r].on},
               UNCHANGED <<call, job, todo, holder>>
        PROVE  Types'
    <3>1. rem[r].on \in Keys /\ rem[r].pend \subseteq Keys
      BY DEF RemType
    <3> QED
      BY <2>0, <2>3, <3>1, Values DEF table, Step
  <2> QED
    BY <1>7, <2>1, <2>2, <2>3 DEF Die
<1> QED
  BY <1>1, <1>2, <1>3, <1>4, <1>5, <1>6, <1>7 DEF Next

-----------------------------------------------------------------------------
(* The topic locks.                                                             *)

\* Who holds the lock of a key works on it; who works under a lock holds it, and a
\* store waits for the lock of its own compile.
Locks ==
    /\ \A k \in Keys : holder[k] # NoOp =>
          \/ holder[k] \in Stores /\ call[holder[k]].key = k /\ call[holder[k]].pc \in InStore
          \/ job[holder[k]].key = k /\ job[holder[k]].pc \in {"write", "stamp"}
    /\ \A s \in Stores : call[s].pc \in InStore => holder[call[s].key] = s
    /\ \A s \in Stores : call[s].pc \in {"unused", "locked"} => job[s].pc = "none"
    /\ \A s \in Stores : call[s].pc \in InStore /\ job[s].pc # "none" =>
          job[s].pc = "llm" /\ job[s].key = call[s].key
    /\ \A c \in Compilers : job[c].pc \in {"write", "stamp"} => holder[job[c].key] = c

LEMMA InitLocks == Init => Locks
<1> SUFFICES ASSUME Init PROVE Locks
  OBVIOUS
<1>1. Stores \subseteq Compilers
  BY DEF Compilers
<1> QED
  BY <1>1, Values DEF Init, Locks, Call, InStore, NoJob

LEMMA LocksStep == Types /\ Locks /\ [Next]_vars => Locks'
<1> SUFFICES ASSUME Types, Locks, [Next]_vars PROVE Locks'
  OBVIOUS
<1>0. /\ Stores \subseteq Compilers /\ Sweeps \subseteq Compilers
      /\ Stores \cap Sweeps = {} /\ NoOp \notin Compilers
  BY MemoryAssumption DEF Compilers, Ops, MemoryAssumption
<1>00. /\ call \in [Stores -> CallType] /\ job \in [Compilers -> JobType]
       /\ holder \in [Keys -> Compilers \cup {NoOp}]
  BY DEF Types
<1>01. \A s \in Stores : call[s].key \in Keys
  BY <1>00 DEF CallType
<1>02. \A c \in Compilers : job[c].key \in Keys
  BY <1>00 DEF JobType
<1> USE DEF Locks
<1>1. CASE UNCHANGED <<holder, call, job>>
  BY <1>1
<1>2. ASSUME NEW s \in Stores, Storing(s) PROVE Locks'
  <2>1. ASSUME NEW k \in Keys, Lock(s, k) PROVE Locks'
    BY <1>0, <1>00, <2>1 DEF Lock, InStore, Lockable
  <2>2. ASSUME Append(s) PROVE Locks'
    <3>1. /\ call[s].pc = "locked" /\ holder[call[s].key] = s /\ job[s].pc = "none"
          /\ UNCHANGED holder
      BY <2>2 DEF Append, InStore
    <3>2. /\ \A x \in Stores : x # s => call'[x] = call[x]
          /\ call'[s].pc = "written" /\ call'[s].key = call[s].key
      BY <1>00, <2>2 DEF Append, CallType
    <3>3. /\ \A x \in Compilers : x # s => job'[x] = job[x]
          /\ job'[s].pc # "none" => job'[s].pc = "llm" /\ job'[s].key = call[s].key
          /\ job'[s].pc \in {"none", "llm"}
      BY <1>0, <1>00, <2>2, <3>1 DEF Append
    <3> QED
      BY <1>0, <1>00, <1>01, <3>1, <3>2, <3>3 DEF InStore
  <2>3. ASSUME WriteLine(s) PROVE Locks'
    <3>2. /\ \A x \in Stores : x # s => call'[x] = call[x]
          /\ call[s].pc = "written" /\ call'[s].pc = "indexed" /\ call'[s].key = call[s].key
          /\ UNCHANGED <<holder, job>>
      BY <1>00, <2>3 DEF WriteLine, CallType
    <3> QED
      BY <1>0, <1>00, <1>01, <3>2 DEF InStore
  <2>4. ASSUME WriteRow(s) PROVE Locks'
    <3>1. /\ call[s].pc = "indexed" /\ holder' = [holder EXCEPT ![call[s].key] = NoOp]
          /\ call' = [call EXCEPT ![s] = Call("done")] /\ UNCHANGED job
      BY <2>4 DEF WriteRow
    <3>2. /\ \A x \in Stores : x # s => call'[x] = call[x]
          /\ call'[s].pc = "done" /\ job[s].pc \notin {"write", "stamp"}
      BY <1>00, <3>1 DEF Call, InStore
    <3> QED
      BY <1>0, <1>00, <1>01, <1>02, <3>1, <3>2 DEF InStore
  <2> QED
    BY <1>2, <2>1, <2>2, <2>3, <2>4 DEF Storing
<1>3. ASSUME NEW c \in Compilers, Compiling(c) PROVE Locks'
  <2>1. CASE Fallback(c)
    <3>1. \A x \in Compilers : x # c => job'[x] = job[x]
      BY <1>00, <2>1 DEF Fallback
    <3>2. job[c].pc = "llm" /\ job'[c].pc = "none" /\ UNCHANGED <<holder, call>>
      BY <1>00, <2>1 DEF Fallback, NoJob
    <3> QED
      BY <1>0, <1>00, <1>01, <1>02, <3>1, <3>2
  <2>2. CASE Compiled(c)
    <3> DEFINE k == job[c].key
    <3>1. /\ \A x \in Compilers : x # c => job'[x] = job[x]
          /\ \A x \in Keys : x # k => holder'[x] = holder[x]
          /\ job[c].pc = "llm" /\ holder[k] = NoOp /\ UNCHANGED call /\ k \in Keys
      BY <1>00, <1>02, <2>2 DEF Compiled, Lockable
    <3>2. \/ job'[c].pc = "write" /\ job'[c].key = k /\ holder'[k] = c
          \/ job'[c].pc = "none" /\ holder'[k] = NoOp
      BY <1>00, <1>02, <2>2, Values DEF Compiled, HeldAfterCheck, JobType
    <3>3. c \in Stores => call[c].pc \notin InStore
      BY <1>0, <3>1 DEF InStore
    <3> HIDE DEF k
    <3> QED
      BY <1>0, <1>00, <1>01, <1>02, <3>1, <3>2, <3>3 DEF InStore
  <2>3. CASE WriteBack(c)
    <3>1. /\ \A x \in Compilers : x # c => job'[x] = job[x]
          /\ job[c].pc = "write" /\ job'[c].pc = "stamp" /\ job'[c].key = job[c].key
          /\ holder' = [holder EXCEPT ![job[c].key] = c] /\ UNCHANGED call
      BY <1>00, <2>3 DEF WriteBack, Held, JobType
    <3>2. holder' = holder
      BY <1>00, <1>02, <3>1
    <3> QED
      BY <1>0, <1>00, <1>01, <1>02, <3>1, <3>2
  <2>4. CASE Stamp(c)
    <3>1. /\ \A x \in Compilers : x # c => job'[x] = job[x]
          /\ job[c].pc = "stamp" /\ job'[c].pc = "none"
          /\ holder' = [holder EXCEPT ![job[c].key] = NoOp] /\ UNCHANGED call
      BY <1>00, <2>4, Values DEF Stamp
    <3>2. c \in Stores => call[c].pc \notin InStore
      BY <1>0, <3>1 DEF InStore
    <3> QED
      BY <1>0, <1>00, <1>01, <1>02, <3>1, <3>2
  <2> QED
    BY <1>3, <2>1, <2>2, <2>3, <2>4 DEF Compiling
<1>4. ASSUME NEW w \in Sweeps, Sweeping(w) PROVE Locks'
  <2>1. CASE ListUncompiled(w)
    BY <1>1, <2>1 DEF ListUncompiled
  <2>2. ASSUME NEW k \in Keys, ReadArticle(w, k) PROVE Locks'
    <3>1. /\ \A x \in Compilers : x # w => job'[x] = job[x]
          /\ job[w].pc = "none" /\ job'[w].pc \in {"none", "llm"} /\ UNCHANGED <<holder, call>>
      BY <1>0, <1>00, <2>2 DEF ReadArticle
    <3> QED
      BY <1>0, <1>00, <1>01, <1>02, <3>1
  <2> QED
    BY <1>4, <2>1, <2>2 DEF Sweeping
<1>5. ASSUME NEW r \in Removals, Removing(r) PROVE UNCHANGED <<holder, call, job>>
  BY <1>5 DEF Removing, Request, Begin, DetectOrphans, AcquireHealLock, Take, CheckFile, Unlink,
              RemoveLine, DeleteRow, Rewrite, Renew, Finish, Reads, Alone
<1>6. ASSUME NEW k \in Keys, Recall(k) \/ Age(k) PROVE UNCHANGED <<holder, call, job>>
  BY <1>6 DEF Recall, Age, Alone
<1>7. CASE Die
  <2>1. ASSUME NEW s \in Stores, call[s].pc \in InStore,
               call' = [call EXCEPT ![s] = Call("lost")], job' = [job EXCEPT ![s] = NoJob],
               holder' = [holder EXCEPT ![call[s].key] = NoOp]
        PROVE  Locks'
    <3>1. /\ \A x \in Stores : x # s => call'[x] = call[x]
          /\ \A x \in Compilers : x # s => job'[x] = job[x]
          /\ call'[s].pc = "lost" /\ job'[s].pc = "none" /\ job[s].pc \notin {"write", "stamp"}
      BY <1>0, <1>00, <2>1, Values DEF Call
    <3> QED
      BY <1>0, <1>00, <1>01, <1>02, <2>1, <3>1 DEF InStore
  <2>2. ASSUME NEW c \in Compilers, job[c].pc \in {"write", "stamp"}, job' = [job EXCEPT ![c] = NoJob],
               holder' = [holder EXCEPT ![job[c].key] = NoOp], UNCHANGED call
        PROVE  Locks'
    <3>1. /\ \A x \in Compilers : x # c => job'[x] = job[x]
          /\ job'[c].pc = "none"
      BY <1>00, <2>2, Values
    <3>2. c \in Stores => call[c].pc \notin InStore
      BY <1>0, <2>2 DEF InStore
    <3> QED
      BY <1>0, <1>00, <1>01, <1>02, <2>2, <3>1, <3>2
  <2> QED
    BY <1>1, <1>7, <2>1, <2>2 DEF Die, InStore
<1> QED
  BY <1>1, <1>2, <1>3, <1>4, <1>5, <1>6, <1>7 DEF Next, vars

\* What a call of the memory has, by its type.
THEOREM SpecTypeOK == Spec => []TypeOK
<1>1. Types /\ Locks => TypeOK
  BY DEF Types, Locks, TypeOK, CallType, JobType, RemType, AtWork, InStore
<1> QED
  BY <1>1, InitTypes, TypeStep, InitLocks, LocksStep, PTL DEF Spec

-----------------------------------------------------------------------------
(* No entry is lost or comes back.                                              *)

\* What a store, a compile and a removal have found and left, and what is known of the
\* entries of a key.
StoreHas(s) ==
    call[s].pc \in InStore =>
        /\ call[s].pc = "locked" => call[s].seen = file[call[s].key]
        /\ call[s].pc # "locked" => /\ s \in file[call[s].key].entries
                                    /\ file[call[s].key].how = "append"
        /\ call[s].pc = "indexed" => index[call[s].key] # "none"

JobHas(c) ==
    /\ job[c].pc # "none" => job[c].expect # NoFile
    /\ job[c].pc = "write" => file[job[c].key] = job[c].expect
    /\ job[c].pc = "stamp" => file[job[c].key].how = "compile"

\* n is the record of r.
RemOK(r, n) ==
    n.pc \in AtWork =>
        /\ holder[n.on] = NoOp
        /\ n.pc \in {"rewrite", "renew"} <=> n.kind = "stale_claim"
        /\ \A q \in Removals \ {r} : rem[q].pc \in AtWork /\ rem[q].on = n.on =>
              n.kind # "stale_claim" /\ rem[q].kind # "stale_claim"
        /\ n.pc = "rewrite" => n.seen = file[n.on] /\ Exists(n.on)
        /\ n.pc = "renew" => file[n.on].how = "strip"
        /\ n.pc \in {"check", "unlink"} /\ n.kind = "orphan" => owed[n.on] = {}
        /\ n.pc \in {"index", "row"} => file[n.on] = NoFile /\ owed[n.on] = {}
        /\ n.pc = "row" => index[n.on] = "none"

KeyHas(k) ==
    /\ owed[k] \subseteq file[k].entries /\ file[k].entries \cap gone[k] = {}
    /\ owed[k] # {} => index[k] # "none"
    /\ \A s \in Stores : call[s].pc \in {"unused", "locked"} =>
          s \notin file[k].entries \cup owed[k] \cup gone[k]

AllHave ==
    /\ \A s \in Stores : StoreHas(s)
    /\ \A c \in Compilers : JobHas(c)
    /\ \A r \in Removals : RemOK(r, rem[r])
    /\ \A k \in Keys : KeyHas(k)

Inv == Types /\ Locks /\ AllHave

LEMMA InitAllHave == Init => AllHave
<1> SUFFICES ASSUME Init PROVE AllHave
  OBVIOUS
<1>1. \A r \in Removals : rem[r].pc = "unused"
  BY Values DEF Init
<1> QED
  BY <1>1, Values DEF Init, AllHave, StoreHas, JobHas, RemOK, KeyHas, InStore, AtWork, Call, NoFile

\* Types of the parts.
LEMMA Parts ==
    ASSUME Types
    PROVE  /\ Stores \subseteq Compilers /\ Sweeps \subseteq Compilers /\ NoOp \notin Compilers
           /\ file \in [Keys -> Article] /\ index \in [Keys -> {"none", "recent", "old"}]
           /\ holder \in [Keys -> Compilers \cup {NoOp}]
           /\ call \in [Stores -> CallType] /\ job \in [Compilers -> JobType]
           /\ rem \in [Removals -> RemType]
           /\ owed \in [Keys -> SUBSET Stores] /\ gone \in [Keys -> SUBSET Stores]
           /\ \A s \in Stores : call[s].key \in Keys
           /\ \A c \in Compilers : job[c].key \in Keys
           /\ \A r \in Removals : rem[r].on \in Keys
BY MemoryAssumption DEF MemoryAssumption, Types, Compilers, Ops, CallType, JobType, RemType

\* A step of one removal that writes nothing but its record.
LEMMA RemMove ==
    ASSUME Types, AllHave, NEW r \in Removals, NEW n, Step(r, n), RemOK(r, n),
           UNCHANGED <<file, index, holder, call, job, owed, gone>>
    PROVE  AllHave'
<1>1. /\ rem'[r] = n /\ \A q \in Removals : q # r => rem'[q] = rem[q]
      /\ UNCHANGED <<file, index, holder, owed>>
  BY Parts DEF Step
<1>2. /\ \A s \in Stores : StoreHas(s)'
      /\ \A c \in Compilers : JobHas(c)'
      /\ \A k \in Keys : KeyHas(k)'
  BY DEF AllHave, StoreHas, JobHas, KeyHas
<1>3. RemOK(r, rem[r])'
  BY <1>1 DEF RemOK, Exists
<1>4. ASSUME NEW q \in Removals, q # r PROVE RemOK(q, rem[q])'
  <2>1. RemOK(q, rem[q])
    BY DEF AllHave
  <2>2. rem'[q].pc \in AtWork /\ n.pc \in AtWork /\ n.on = rem[q].on =>
            rem[q].kind # "stale_claim" /\ n.kind # "stale_claim"
    BY <1>1, <1>4 DEF RemOK
  <2> QED
    BY <1>1, <1>4, <2>1, <2>2 DEF RemOK, Exists
<1> QED
  BY <1>2, <1>3, <1>4 DEF AllHave

\* Under a lock nothing is removed, and the lock is one.
LEMMA UnderLock ==
    ASSUME Types, Locks, AllHave, NEW k \in Keys, holder[k] # NoOp
    PROVE  /\ \A r \in Removals : rem[r].pc \in AtWork => rem[r].on # k
           /\ \A s \in Stores : s # holder[k] => ~(call[s].pc \in InStore /\ call[s].key = k)
           /\ \A c \in Compilers : c # holder[k] => ~(job[c].pc \in {"write", "stamp"} /\ job[c].key = k)
BY DEF Locks, AllHave, RemOK

\* Who removes removes where no lock is held.
LEMMA NoLock ==
    ASSUME Types, Locks, NEW k \in Keys, holder[k] = NoOp
    PROVE  /\ \A s \in Stores : ~(call[s].pc \in InStore /\ call[s].key = k)
           /\ \A c \in Compilers : ~(job[c].pc \in {"write", "stamp"} /\ job[c].key = k)
BY Parts DEF Locks

LEMMA StoringHas ==
    ASSUME ~Overlap, Types, Locks, AllHave, NEW s \in Stores, Storing(s)
    PROVE  AllHave'
<1> USE Parts
<1>1. ASSUME NEW k \in Keys, Lock(s, k) PROVE AllHave'
  <2>1. /\ \A x \in Stores : x # s => call'[x] = call[x]
        /\ call[s].pc = "unused" /\ call'[s] = [pc |-> "locked", key |-> k, seen |-> file[k]]
        /\ \A x \in Keys : x # k => holder'[x] = holder[x]
        /\ \A r \in Removals : rem[r].pc \in AtWork => rem[r].on # k
        /\ UNCHANGED <<file, index, job, rem, owed, gone>>
    BY <1>1 DEF Lock, history, Lockable, On, AtWork
  <2>2. \A x \in Stores : StoreHas(x)'
    BY <2>1 DEF AllHave, StoreHas
  <2>3. \A c \in Compilers : JobHas(c)'
    BY <2>1 DEF AllHave, JobHas
  <2>4. \A r \in Removals : RemOK(r, rem[r])'
    BY <2>1 DEF AllHave, RemOK, Exists
  <2>5. \A x \in Keys : KeyHas(x)'
    BY <2>1 DEF AllHave, KeyHas
  <2> QED
    BY <2>2, <2>3, <2>4, <2>5 DEF AllHave
<1>2. ASSUME Append(s) PROVE AllHave'
  <2> DEFINE k == call[s].key
             new == [entries |-> call[s].seen.entries \cup {s}, how |-> "append", who |-> s]
  <2>1. /\ call[s].pc = "locked" /\ holder[k] = s /\ k \in Keys /\ call[s].seen = file[k]
        /\ UNCHANGED <<index, holder, rem, owed, gone>>
    BY <1>2 DEF Append, Locks, InStore, AllHave, StoreHas, history
  <2>2. /\ \A x \in Stores : x # s => call'[x] = call[x]
        /\ call'[s].pc = "written" /\ call'[s].key = k
    BY <1>2 DEF Append, CallType
  <2>3. /\ \A x \in Keys : x # k => file'[x] = file[x]
        /\ file'[k] = new /\ new # NoFile
    BY <1>2, <2>1 DEF Append, NoFile
  <2>4. /\ \A c \in Compilers : c # s => job'[c] = job[c]
        /\ job'[s] = job[s] \/ job'[s] = [pc |-> "llm", key |-> k, expect |-> new]
        /\ job[s].pc = "none"
    <3>1. s \in Compilers /\ job[s].pc = "none"
      BY <2>1 DEF Locks
    <3> QED
      BY <1>2, <3>1 DEF Append
  <2>5. /\ \A r \in Removals : rem[r].pc \in AtWork => rem[r].on # k
        /\ \A x \in Stores : x # s => ~(call[x].pc \in InStore /\ call[x].key = k)
        /\ \A c \in Compilers : c # s => ~(job[c].pc \in {"write", "stamp"} /\ job[c].key = k)
    BY <2>1, UnderLock
  <2> HIDE DEF k
  <2>6. \A x \in Stores : StoreHas(x)'
    BY <2>1, <2>2, <2>3, <2>5 DEF AllHave, StoreHas, InStore
  <2>7. \A c \in Compilers : JobHas(c)'
    <3>1. ASSUME NEW c \in Compilers, c # s PROVE JobHas(c)'
      BY <2>3, <2>4, <2>5, <3>1 DEF AllHave, JobHas
    <3>2. JobHas(s)'
      BY <2>3, <2>4 DEF JobHas
    <3> QED
      BY <3>1, <3>2
  <2>8. \A r \in Removals : RemOK(r, rem[r])'
    BY <2>1, <2>3, <2>5 DEF AllHave, RemOK, Exists
  <2>9. \A x \in Keys : KeyHas(x)'
    <3>1. ASSUME NEW x \in Keys, x # k PROVE KeyHas(x)'
      BY <2>1, <2>2, <2>3, <3>1 DEF AllHave, KeyHas
    <3>2. file'[k].entries = file[k].entries \cup {s} /\ KeyHas(k) /\ s \notin gone[k]
      BY <2>1, <2>3 DEF AllHave, KeyHas
    <3>3. \A x \in Keys : x = k => KeyHas(x)'
      <4>1. SUFFICES ASSUME NEW x \in Keys, x = k PROVE KeyHas(x)'
        OBVIOUS
      <4> QED
        BY <2>1, <2>2, <3>2, <4>1 DEF KeyHas
    <3> QED
      BY <3>1, <3>3
  <2> QED
    BY <2>6, <2>7, <2>8, <2>9 DEF AllHave
<1>3. ASSUME WriteLine(s) PROVE AllHave'
  <2> DEFINE k == call[s].key
  <2>1. /\ call[s].pc = "written" /\ holder[k] = s /\ k \in Keys
        /\ UNCHANGED <<file, holder, job, rem, owed, gone>>
    BY <1>3 DEF WriteLine, Locks, InStore, history
  <2>2. /\ \A x \in Stores : x # s => call'[x] = call[x]
        /\ call'[s].pc = "indexed" /\ call'[s].key = k
    BY <1>3 DEF WriteLine, CallType
  <2>3. /\ \A x \in Keys : x # k => index'[x] = index[x]
        /\ index'[k] = "recent"
    BY <1>3, <2>1 DEF WriteLine
  <2>4. \A r \in Removals : rem[r].pc \in AtWork => rem[r].on # k
    BY <2>1, UnderLock
  <2> HIDE DEF k
  <2>5. \A x \in Stores : StoreHas(x)'
    <3>1. ASSUME NEW x \in Stores, x # s PROVE StoreHas(x)'
      <4>1. StoreHas(x) /\ call'[x] = call[x] /\ call[x].key \in Keys
        BY <2>2, <3>1 DEF AllHave
      <4> QED
        BY <2>1, <2>3, <4>1 DEF StoreHas
    <3>2. StoreHas(s) /\ s \in Stores
      BY DEF AllHave
    <3>3. StoreHas(s)'
      BY <2>1, <2>2, <2>3, <3>2 DEF StoreHas, InStore, k
    <3> QED
      BY <3>1, <3>3
  <2>6. \A c \in Compilers : JobHas(c)'
    BY <2>1 DEF AllHave, JobHas
  <2>7. \A r \in Removals : RemOK(r, rem[r])'
    BY <2>1, <2>3, <2>4 DEF AllHave, RemOK, Exists
  <2>8. \A x \in Keys : KeyHas(x)'
    BY <2>1, <2>2, <2>3 DEF AllHave, KeyHas
  <2> QED
    BY <2>5, <2>6, <2>7, <2>8 DEF AllHave
<1>4. ASSUME WriteRow(s) PROVE AllHave'
  <2> DEFINE k == call[s].key
  <2>1. /\ call[s].pc = "indexed" /\ holder[k] = s /\ k \in Keys
        /\ UNCHANGED <<file, index, job, rem, gone>>
        /\ holder' = [holder EXCEPT ![k] = NoOp]
        /\ owed' = [owed EXCEPT ![k] = @ \cup {s}]
    BY <1>4 DEF WriteRow, Locks, InStore
  <2>2. /\ \A x \in Stores : x # s => call'[x] = call[x]
        /\ call'[s].pc = "done"
    BY <1>4 DEF WriteRow, Call
  <2>3. /\ s \in file[k].entries /\ index[k] # "none"
        /\ \A r \in Removals : rem[r].pc \in AtWork => rem[r].on # k
    BY <2>1, UnderLock DEF AllHave, StoreHas, InStore
  <2> HIDE DEF k
  <2>4. \A x \in Stores : StoreHas(x)'
    BY <2>1, <2>2 DEF AllHave, StoreHas, InStore
  <2>5. \A c \in Compilers : JobHas(c)'
    BY <2>1 DEF AllHave, JobHas
  <2>6. \A r \in Removals : RemOK(r, rem[r])'
    BY <2>1, <2>3 DEF AllHave, RemOK, Exists
  <2>7. \A x \in Keys : KeyHas(x)'
    BY <2>1, <2>2, <2>3 DEF AllHave, KeyHas
  <2> QED
    BY <2>4, <2>5, <2>6, <2>7 DEF AllHave
<1> QED
  BY <1>1, <1>2, <1>3, <1>4 DEF Storing

LEMMA CompilingHas ==
    ASSUME ~Overlap, Types, Locks, AllHave, NEW c \in Compilers, Compiling(c)
    PROVE  AllHave'
<1> USE Parts
<1> DEFINE k == job[c].key
<1>0. k \in Keys
  OBVIOUS
<1>1. CASE Fallback(c)
  <2>1. /\ \A x \in Compilers : x # c => job'[x] = job[x]
        /\ job'[c].pc = "none" /\ UNCHANGED <<file, index, holder, call, rem, owed, gone>>
    BY <1>1, Values DEF Fallback, history
  <2> QED
    BY <2>1 DEF AllHave, StoreHas, JobHas, RemOK, KeyHas, Exists
<1>2. CASE Compiled(c)
  <2>1. /\ \A x \in Compilers : x # c => job'[x] = job[x]
        /\ job[c].pc = "llm" /\ UNCHANGED <<file, index, call, rem, owed, gone>>
        /\ \A x \in Keys : x # k => holder'[x] = holder[x]
        /\ \A r \in Removals : rem[r].pc \in AtWork => rem[r].on # k
    BY <1>2 DEF Compiled, Lockable, On, AtWork, history
  <2>2. job'[c].pc = "none" \/ (/\ job'[c].pc = "write" /\ job'[c].expect = job[c].expect
                                /\ job'[c].key = k /\ file[k] = job[c].expect)
    BY <1>2, Values DEF Compiled, Current, JobType
  <2> HIDE DEF k
  <2>3. \A x \in Compilers : JobHas(x)'
    BY <2>1, <2>2 DEF AllHave, JobHas
  <2>4. \A r \in Removals : RemOK(r, rem[r])'
    BY <2>1 DEF AllHave, RemOK, Exists
  <2> QED
    BY <2>1, <2>3, <2>4 DEF AllHave, StoreHas, KeyHas
<1>3. CASE WriteBack(c)
  <2>1. /\ job[c].pc = "write" /\ holder[k] = c /\ file[k] = job[c].expect
        /\ UNCHANGED <<index, call, rem, owed, gone>>
    BY <1>3 DEF WriteBack, Locks, AllHave, JobHas, history
  <2>2. holder' = holder
    BY <1>3, <2>1 DEF WriteBack, Held
  <2>3. /\ \A x \in Compilers : x # c => job'[x] = job[x]
        /\ job'[c].pc = "stamp" /\ job'[c].expect = job[c].expect /\ job'[c].key = k
    BY <1>3 DEF WriteBack, JobType
  <2>4. /\ \A x \in Keys : x # k => file'[x] = file[x]
        /\ file'[k].entries = file[k].entries /\ file'[k].how = "compile" 
    BY <1>3, <2>1 DEF WriteBack
  <2>5. /\ \A r \in Removals : rem[r].pc \in AtWork => rem[r].on # k
        /\ \A s \in Stores : ~(call[s].pc \in InStore /\ call[s].key = k)
        /\ \A x \in Compilers : x # c => ~(job[x].pc \in {"write", "stamp"} /\ job[x].key = k)
    <3>1. c \in Stores => ~(call[c].pc \in InStore)
      BY <2>1 DEF Locks, InStore
    <3> QED
      BY <2>1, <3>1, UnderLock
  <2> HIDE DEF k
  <2>6. \A s \in Stores : StoreHas(s)'
    BY <2>1, <2>4, <2>5 DEF AllHave, StoreHas
  <2>7. \A x \in Compilers : JobHas(x)'
    <3>1. ASSUME NEW x \in Compilers, x # c PROVE JobHas(x)'
      BY <2>3, <2>4, <2>5, <3>1 DEF AllHave, JobHas
    <3>2. JobHas(c)'
      BY <2>1, <2>3, <2>4 DEF AllHave, JobHas
    <3> QED
      BY <3>1, <3>2
  <2>8. \A r \in Removals : RemOK(r, rem[r])'
    BY <2>1, <2>2, <2>4, <2>5 DEF AllHave, RemOK, Exists
  <2>9. \A x \in Keys : KeyHas(x)'
    BY <2>1, <2>4 DEF AllHave, KeyHas
  <2> QED
    BY <2>6, <2>7, <2>8, <2>9 DEF AllHave
<1>4. CASE Stamp(c)
  <2>1. /\ \A x \in Compilers : x # c => job'[x] = job[x]
        /\ job'[c].pc = "none" /\ UNCHANGED <<file, index, call, rem, owed, gone>>
        /\ \A x \in Keys : holder'[x] = holder[x] \/ holder'[x] = NoOp
    BY <1>4, Values DEF Stamp
  <2> QED
    BY <2>1 DEF AllHave, StoreHas, JobHas, RemOK, KeyHas, Exists
<1> QED
  BY <1>1, <1>2, <1>3, <1>4 DEF Compiling

LEMMA SweepingHas ==
    ASSUME Types, AllHave, NEW w \in Sweeps, Sweeping(w)
    PROVE  AllHave'
<1> USE Parts
<1>1. CASE ListUncompiled(w)
  BY <1>1 DEF ListUncompiled, history, AllHave, StoreHas, JobHas, RemOK, KeyHas, Exists
<1>2. ASSUME NEW k \in Keys, ReadArticle(w, k) PROVE AllHave'
  <2>1. /\ \A x \in Compilers : x # w => job'[x] = job[x]
        /\ job[w].pc = "none" /\ UNCHANGED <<file, index, holder, call, rem, owed, gone>>
        /\ job'[w] = job[w] \/ (job'[w].pc = "llm" /\ job'[w].expect # NoFile)
    <3>1. w \in Compilers /\ job[w].pc = "none"
      BY <1>2 DEF ReadArticle
    <3>2. \/ UNCHANGED job
          \/ Exists(k) /\ job' = [job EXCEPT ![w] = [pc |-> "llm", key |-> k, expect |-> file[k]]]
      BY <1>2 DEF ReadArticle
    <3>3. UNCHANGED <<file, index, holder, call, rem, owed, gone>>
      BY <1>2 DEF ReadArticle, history
    <3> QED
      BY <3>1, <3>2, <3>3 DEF Exists
  <2> QED
    BY <2>1 DEF AllHave, StoreHas, JobHas, RemOK, KeyHas, Exists
<1> QED
  BY <1>1, <1>2 DEF Sweeping

LEMMA RemovingHas ==
    ASSUME ~Overlap, Types, Locks, AllHave, NEW r \in Removals, Removing(r)
    PROVE  AllHave'
<1> USE Parts
<1> DEFINE k == rem[r].on
<1>0. k \in Keys /\ rem[r] \in RemType /\ RemOK(r, rem[r])
  BY DEF AllHave
<1>1. ASSUME NEW n, Step(r, n), n.pc \notin AtWork,
             UNCHANGED <<file, index, holder, call, job, owed, gone>>
      PROVE  AllHave'
  BY <1>1, RemMove DEF RemOK
<1>2. Back(r).pc = "next" /\ [Back(r) EXCEPT !.pend = @ \cup {k}].pc = "next" /\ Over.pc = "done"
  BY <1>0, Values DEF Back, RemType
<1>3. CASE Request(r)
  <2>1. ASSUME NEW kind, NEW pc \in {"lint", "ready", "next"}, NEW keys, Begin(r, kind, pc, keys)
        PROVE  AllHave'
    <3> DEFINE n == [NoRemoval EXCEPT !.pc = pc, !.kind = kind, !.todo = keys]
    <3>1. n.pc = pc
      BY DEF NoRemoval
    <3>2. n.pc \notin AtWork
      BY <3>1 DEF AtWork
    <3> HIDE DEF n
    <3>3. Step(r, n) /\ UNCHANGED <<file, index, holder, call, job, owed, gone>>
      BY <2>1 DEF Begin, Reads, Alone, history, n
    <3> QED
      BY <1>1, <3>2, <3>3
  <2> QED
    BY <1>3, <2>1 DEF Request
<1>4. CASE DetectOrphans(r)
  <2>1. PICK n : Step(r, n) /\ n.pc = "ready" /\ UNCHANGED <<file, index, holder, call, job, owed, gone>>
    BY <1>0, <1>4 DEF DetectOrphans, Reads, Alone, history, RemType
  <2> QED
    BY <1>1, <2>1 DEF AtWork
<1>5. CASE AcquireHealLock(r)
  <2>1. PICK n \in {Back(r), Over} : Step(r, n) /\ UNCHANGED <<file, index, holder, call, job, owed, gone>>
    BY <1>5 DEF AcquireHealLock, Reads, Alone, history
  <2> QED
    BY <1>1, <1>2, <2>1 DEF AtWork
<1>6. CASE Take(r)
  <2>1. PICK x \in rem[r].todo :
            LET rest == [rem[r] EXCEPT !.todo = @ \ {x}] IN
            /\ rem[r].pc = "next" /\ Removable(x, rem[r].kind)
            /\ IF ~Holds(rem[r].kind, x) THEN Step(r, rest)
               ELSE IF rem[r].kind # "stale_claim" THEN Step(r, [rest EXCEPT !.pc = "check", !.on = x])
               ELSE IF Exists(x) THEN Step(r, [rest EXCEPT !.pc = "rewrite", !.on = x, !.seen = file[x]])
               ELSE Step(r, rest)
            /\ Reads
    BY <1>6 DEF Take
  <2>2. x \in Keys /\ UNCHANGED <<file, index, holder, call, job, owed, gone>> /\ holder[x] = NoOp
    BY <1>0, <2>1 DEF RemType, Reads, Alone, history, Removable
  <2> DEFINE rest == [rem[r] EXCEPT !.todo = @ \ {x}]
  <2>3. ASSUME Step(r, rest) PROVE AllHave'
    <3>1. rest.pc \notin AtWork
      BY <1>0, <2>1 DEF RemType, AtWork
    <3> HIDE DEF rest
    <3> QED
      BY <1>1, <2>2, <2>3, <3>1
  <2>4. ASSUME Holds(rem[r].kind, x), rem[r].kind # "stale_claim",
               Step(r, [rest EXCEPT !.pc = "check", !.on = x])
        PROVE  AllHave'
    <3> DEFINE n == [rest EXCEPT !.pc = "check", !.on = x]
    <3>1. n.pc = "check" /\ n.on = x /\ n.kind = rem[r].kind
      BY <1>0 DEF RemType
    <3>2. rem[r].kind = "orphan" => owed[x] = {}
      BY <2>2, <2>4 DEF Holds, Orphaned, AllHave, KeyHas
    <3>3. \A q \in Removals : rem[q].pc \in AtWork /\ rem[q].on = x => rem[q].kind # "stale_claim"
      BY <2>1, <2>4 DEF Removable, Rewriting, On, AtWork
    <3> HIDE DEF n
    <3>4. RemOK(r, n)
      BY <2>2, <2>4, <3>1, <3>2, <3>3 DEF RemOK
    <3> QED
      BY <2>2, <2>4, <3>4, RemMove DEF n
  <2>5. ASSUME rem[r].kind = "stale_claim", Exists(x),
               Step(r, [rest EXCEPT !.pc = "rewrite", !.on = x, !.seen = file[x]])
        PROVE  AllHave'
    <3> DEFINE n == [rest EXCEPT !.pc = "rewrite", !.on = x, !.seen = file[x]]
    <3>1. n.pc = "rewrite" /\ n.on = x /\ n.kind = rem[r].kind /\ n.seen = file[x]
      BY <1>0 DEF RemType
    <3>3. \A q \in Removals : rem[q].pc \in AtWork => rem[q].on # x
      BY <2>1, <2>5 DEF Removable, On, AtWork
    <3> HIDE DEF n
    <3>4. RemOK(r, n)
      BY <2>2, <2>5, <3>1, <3>3 DEF RemOK
    <3> QED
      BY <2>2, <2>5, <3>4, RemMove DEF n
  <2> QED
    BY <2>1, <2>3, <2>4, <2>5
<1>7. CASE CheckFile(r)
  <2>1. /\ rem[r].pc = "check" /\ UNCHANGED <<file, index, holder, call, job, owed, gone>>
        /\ \/ Exists(k) /\ Step(r, [rem[r] EXCEPT !.pc = "unlink"])
           \/ ~Exists(k) /\ Step(r, [rem[r] EXCEPT !.pc = "index"])
           \/ Step(r, Back(r))
    BY <1>7 DEF CheckFile, Alone, history
  <2>2. ASSUME NEW n, Step(r, n), n.on = k, n.kind = rem[r].kind,
               \/ n.pc = "unlink"
               \/ n.pc = "index" /\ ~Exists(k)
        PROVE  AllHave'
    <3>1. ~Exists(k) => owed[k] = {}
      BY <1>0 DEF AllHave, KeyHas, Exists, NoFile
    <3>2. RemOK(r, n)
      BY <1>0, <2>1, <2>2, <3>1 DEF RemOK, AtWork, Exists
    <3> QED
      BY <2>1, <2>2, <3>2, RemMove
  <2>3. ASSUME NEW to
        PROVE  LET n == [rem[r] EXCEPT !.pc = to] IN n.on = k /\ n.kind = rem[r].kind /\ n.pc = to
    BY <1>0 DEF RemType
  <2>4. CASE Exists(k) /\ Step(r, [rem[r] EXCEPT !.pc = "unlink"])
    <3> DEFINE n == [rem[r] EXCEPT !.pc = "unlink"]
    <3>1. n.on = k /\ n.kind = rem[r].kind /\ n.pc = "unlink" /\ Step(r, n)
      BY <2>3, <2>4
    <3> HIDE DEF n
    <3> QED
      BY <2>2, <3>1
  <2>5. CASE ~Exists(k) /\ Step(r, [rem[r] EXCEPT !.pc = "index"])
    <3> DEFINE n == [rem[r] EXCEPT !.pc = "index"]
    <3>1. n.on = k /\ n.kind = rem[r].kind /\ n.pc = "index" /\ Step(r, n)
      BY <2>3, <2>5
    <3> HIDE DEF n
    <3> QED
      BY <2>2, <2>5, <3>1
  <2> QED
    BY <1>1, <1>2, <2>1, <2>4, <2>5 DEF AtWork
<1>8. CASE Unlink(r)
  <2>1. /\ rem[r].pc = "unlink" /\ UNCHANGED <<index, holder, call, job>>
        /\ file' = [file EXCEPT ![k] = NoFile]
    BY <1>8 DEF Unlink, Alone
  <2>2. /\ holder[k] = NoOp
        /\ rem[r].kind # "stale_claim"
        /\ \A q \in Removals \ {r} : rem[q].pc \in AtWork /\ rem[q].on = k => rem[q].kind # "stale_claim"
        /\ rem[r].kind = "orphan" => owed[k] = {}
    BY <1>0, <2>1 DEF RemOK, AtWork
  <2>3. /\ \A q \in Removals : q # r => rem'[q] = rem[q]
        /\ rem'[r].pc = "next" \/ (/\ rem'[r].pc = "index" /\ rem'[r].on = k
                                   /\ rem'[r].kind = rem[r].kind)
    BY <1>0, <1>2, <1>8 DEF Unlink, Step, RemType
  <2>4. /\ \A x \in Keys : x # k => file'[x] = file[x] /\ owed'[x] = owed[x] /\ gone'[x] = gone[x]
        /\ file'[k] = NoFile /\ owed'[k] = {}
        /\ gone'[k] = gone[k] \/ gone'[k] = gone[k] \cup file[k].entries
    BY <1>0, <1>8, <2>1, <2>2 DEF Unlink
  <2>5. /\ \A s \in Stores : ~(call[s].pc \in InStore /\ call[s].key = k)
        /\ \A c \in Compilers : ~(job[c].pc \in {"write", "stamp"} /\ job[c].key = k)
    BY <1>0, <2>2, NoLock
  <2> HIDE DEF k
  <2>6. \A s \in Stores : StoreHas(s)'
    BY <2>1, <2>4, <2>5 DEF AllHave, StoreHas
  <2>7. \A c \in Compilers : JobHas(c)'
    BY <2>1, <2>4, <2>5 DEF AllHave, JobHas
  <2>8. \A x \in Keys : KeyHas(x)'
    <3>1. ASSUME NEW x \in Keys, x # k PROVE KeyHas(x)'
      BY <2>1, <2>4, <3>1 DEF AllHave, KeyHas
    <3>2. \A x \in Keys : x = k => KeyHas(x)'
      <4>1. SUFFICES ASSUME NEW x \in Keys, x = k PROVE KeyHas(x)'
        OBVIOUS
      <4>2. KeyHas(x) /\ file'[x].entries = {} /\ owed'[x] = {}
        BY <2>4, <4>1 DEF AllHave, NoFile
      <4> QED
        BY <2>1, <2>4, <4>1, <4>2 DEF KeyHas
    <3> QED
      BY <3>1, <3>2
  <2>9. ASSUME NEW q \in Removals, q # r PROVE RemOK(q, rem[q])'
    <3>1. RemOK(q, rem[q])
      BY DEF AllHave
    <3>2. CASE rem[q].on = k
      BY <1>0, <2>1, <2>2, <2>3, <2>4, <2>9, <3>1, <3>2 DEF RemOK, AtWork, Exists
    <3>3. CASE rem[q].on # k
      BY <1>0, <2>1, <2>2, <2>3, <2>4, <2>9, <3>1, <3>3 DEF RemOK, AtWork, Exists
    <3> QED
      BY <3>2, <3>3
  <2>10. RemOK(r, rem[r])'
    BY <1>0, <2>1, <2>2, <2>3, <2>4 DEF RemOK, AtWork
  <2> QED
    BY <2>6, <2>7, <2>8, <2>9, <2>10 DEF AllHave
<1>9. CASE RemoveLine(r)
  <2>1. /\ rem[r].pc = "index" /\ UNCHANGED <<file, holder, call, job, owed, gone>>
        /\ index' = [index EXCEPT ![k] = "none"]
    BY <1>9 DEF RemoveLine, Alone, history
  <2>2. holder[k] = NoOp /\ owed[k] = {}
    BY <1>0, <2>1 DEF RemOK, AtWork
  <2>3. /\ \A q \in Removals : q # r => rem'[q] = rem[q]
        /\ rem'[r].pc = "row" /\ rem'[r].on = k /\ rem'[r].kind = rem[r].kind
    BY <1>0, <1>9 DEF RemoveLine, Step, RemType
  <2>4. \A s \in Stores : ~(call[s].pc \in InStore /\ call[s].key = k)
    BY <1>0, <2>2, NoLock
  <2>5. \A x \in Keys : index'[x] = index[x] \/ (x = k /\ index'[x] = "none")
    BY <1>0, <2>1
  <2> HIDE DEF k
  <2>6. \A s \in Stores : StoreHas(s)'
    BY <2>1, <2>4, <2>5 DEF AllHave, StoreHas
  <2>7. \A c \in Compilers : JobHas(c)'
    BY <2>1 DEF AllHave, JobHas
  <2>8. \A x \in Keys : KeyHas(x)'
    BY <2>1, <2>2, <2>5 DEF AllHave, KeyHas
  <2>9. ASSUME NEW q \in Removals, q # r PROVE RemOK(q, rem[q])'
    <3>1. RemOK(q, rem[q])
      BY DEF AllHave
    <3> QED
      BY <2>1, <2>3, <2>5, <2>9, <3>1 DEF RemOK, AtWork, Exists, k
  <2>10. RemOK(r, rem[r])'
    BY <1>0, <2>1, <2>3 DEF RemOK, AtWork, k
  <2> QED
    BY <2>6, <2>7, <2>8, <2>9, <2>10 DEF AllHave
<1>10. CASE DeleteRow(r)
  <2>1. PICK n \in {Back(r), [Back(r) EXCEPT !.pend = @ \cup {k}]} : Step(r, n)
    BY <1>10 DEF DeleteRow
  <2>2. UNCHANGED <<file, index, holder, call, job, owed, gone>>
    BY <1>10 DEF DeleteRow, Alone, history
  <2> QED
    BY <1>1, <1>2, <2>1, <2>2 DEF AtWork
<1>11. CASE Rewrite(r)
  <2>1. /\ rem[r].pc = "rewrite" /\ UNCHANGED <<index, holder, call, job, owed, gone>>
        /\ file' = [file EXCEPT ![k] = [entries |-> rem[r].seen.entries, how |-> "strip", who |-> r]]
    BY <1>11 DEF Rewrite, Alone, history
  <2>2. /\ holder[k] = NoOp /\ rem[r].seen = file[k] /\ rem[r].kind = "stale_claim"
        /\ \A q \in Removals \ {r} : rem[q].pc \in AtWork => rem[q].on # k
    BY <1>0, <2>1 DEF RemOK, AtWork
  <2>3. /\ \A q \in Removals : q # r => rem'[q] = rem[q]
        /\ rem'[r].pc = "renew" /\ rem'[r].on = k /\ rem'[r].kind = rem[r].kind
    BY <1>0, <1>11 DEF Rewrite, Step, RemType
  <2>4. /\ \A x \in Keys : x # k => file'[x] = file[x]
        /\ file'[k].entries = file[k].entries /\ file'[k].how = "strip"
    BY <1>0, <2>1, <2>2
  <2>5. /\ \A s \in Stores : ~(call[s].pc \in InStore /\ call[s].key = k)
        /\ \A c \in Compilers : ~(job[c].pc \in {"write", "stamp"} /\ job[c].key = k)
    BY <1>0, <2>2, NoLock
  <2> HIDE DEF k
  <2>6. \A s \in Stores : StoreHas(s)'
    BY <2>1, <2>4, <2>5 DEF AllHave, StoreHas
  <2>7. \A c \in Compilers : JobHas(c)'
    BY <2>1, <2>4, <2>5 DEF AllHave, JobHas
  <2>8. \A x \in Keys : KeyHas(x)'
    BY <2>1, <2>4 DEF AllHave, KeyHas
  <2>9. ASSUME NEW q \in Removals, q # r PROVE RemOK(q, rem[q])'
    <3>1. RemOK(q, rem[q])
      BY DEF AllHave
    <3> QED
      BY <2>1, <2>2, <2>3, <2>4, <2>9, <3>1 DEF RemOK, AtWork, Exists
  <2>10. RemOK(r, rem[r])'
    BY <2>1, <2>2, <2>3, <2>4 DEF RemOK, AtWork
  <2> QED
    BY <2>6, <2>7, <2>8, <2>9, <2>10 DEF AllHave
<1>12. CASE Renew(r)
  <2>1. Step(r, Back(r)) /\ UNCHANGED <<file, index, holder, call, job, owed, gone>>
    BY <1>12 DEF Renew, Alone, history
  <2> QED
    BY <1>1, <1>2, <2>1 DEF AtWork
<1>13. CASE Finish(r)
  <2>1. Step(r, Over) /\ UNCHANGED <<file, index, holder, call, job, owed, gone>>
    BY <1>13 DEF Finish, Alone, history
  <2> QED
    BY <1>1, <1>2, <2>1 DEF AtWork
<1> QED
  BY <1>3, <1>4, <1>5, <1>6, <1>7, <1>8, <1>9, <1>10, <1>11, <1>12, <1>13 DEF Removing

LEMMA OtherHas ==
    ASSUME Types, Locks, AllHave, Die \/ \E k \in Keys : Recall(k) \/ Age(k)
    PROVE  AllHave'
<1> USE Parts
<1>1. ASSUME NEW k \in Keys, Recall(k) PROVE AllHave'
  BY <1>1 DEF Recall, Alone, history, AllHave, StoreHas, JobHas, RemOK, KeyHas, Exists
<1>2. ASSUME NEW k \in Keys, Age(k) PROVE AllHave'
  <2>1. /\ UNCHANGED <<file, rem, holder, call, job, owed, gone>>
        /\ \A x \in Keys : index'[x] = "none" <=> index[x] = "none"
    BY <1>2 DEF Age, Alone, history
  <2> QED
    BY <2>1 DEF AllHave, StoreHas, JobHas, RemOK, KeyHas, Exists
<1>3. CASE Die
  <2>0. UNCHANGED <<file, index, owed, gone>>
    BY <1>3 DEF Die
  <2>1. ASSUME NEW s \in Stores, call' = [call EXCEPT ![s] = Call("lost")],
               job' = [job EXCEPT ![s] = NoJob], holder' = [holder EXCEPT ![call[s].key] = NoOp],
               UNCHANGED rem
        PROVE  AllHave'
    <3>1. /\ \A x \in Stores : x # s => call'[x] = call[x]
          /\ \A x \in Compilers : x # s => job'[x] = job[x]
          /\ call'[s].pc = "lost" /\ job'[s].pc = "none"
          /\ \A x \in Keys : holder'[x] = holder[x] \/ holder'[x] = NoOp
      BY <2>1, Values DEF Call
    <3> QED
      BY <2>0, <2>1, <3>1 DEF AllHave, StoreHas, JobHas, RemOK, KeyHas, Exists, InStore
  <2>2. ASSUME NEW c \in Compilers, job' = [job EXCEPT ![c] = NoJob],
               holder' = [holder EXCEPT ![job[c].key] = NoOp], UNCHANGED <<call, rem>>
        PROVE  AllHave'
    <3>1. /\ \A x \in Compilers : x # c => job'[x] = job[x]
          /\ job'[c].pc = "none"
          /\ \A x \in Keys : holder'[x] = holder[x] \/ holder'[x] = NoOp
      BY <2>2, Values
    <3> QED
      BY <2>0, <2>2, <3>1 DEF AllHave, StoreHas, JobHas, RemOK, KeyHas, Exists
  <2>3. ASSUME NEW r \in Removals, Step(r, Over), UNCHANGED <<call, job, holder>>
        PROVE  AllHave'
    <3>1. RemOK(r, Over)
      BY Values DEF RemOK, AtWork
    <3> QED
      BY <2>0, <2>3, <3>1, RemMove
  <2> QED
    BY <1>3, <2>1, <2>2, <2>3 DEF Die
<1> QED
  BY <1>1, <1>2, <1>3

LEMMA InvHolds == ASSUME ~Overlap PROVE Spec => []Inv
<1>1. Inv /\ [Next]_vars => AllHave'
  <2> SUFFICES ASSUME Inv, [Next]_vars PROVE AllHave'
    OBVIOUS
  <2>1. CASE UNCHANGED vars
    BY <2>1 DEF vars, Inv, AllHave, StoreHas, JobHas, RemOK, KeyHas, Exists
  <2> QED
    BY <2>1, StoringHas, CompilingHas, SweepingHas, RemovingHas, OtherHas DEF Inv, Next
<1> QED
  BY <1>1, InitAllHave, InitTypes, TypeStep, InitLocks, LocksStep, PTL DEF Spec, Inv

\* An article has every entry whose store returned, and none that was removed, however
\* many stores, compiles, sweeps and removals overlap and whatever fails, as long as
\* what rewrites an article does not overlap a removal of it.
THEOREM SpecEntriesAreKept == ASSUME ~Overlap PROVE Spec => []EntriesAreKept
<1>1. Inv => EntriesAreKept
  BY DEF Inv, AllHave, KeyHas, EntriesAreKept
<1> QED
  BY <1>1, InvHolds, PTL

-----------------------------------------------------------------------------
(* What a memory consists of agrees.                                            *)

\* A store has the article written and not yet the row; a heal has deleted the row and
\* not committed; a removal is at one of its writes to k.
Behind(k) == \E s \in Stores : call[s].pc \in {"written", "indexed"} /\ call[s].key = k
Pending(k) == \E r \in Removals : k \in rem[r].pend
At(k, pcs) == \E r \in Removals : rem[r].pc \in pcs /\ rem[r].on = k

\* An article has its line and a row, which says that it is not compiled but for the
\* moment in which a heal has rewritten it; what has no article has no line and no row,
\* or a removal that is about to take them.
Agree(k) ==
    k \notin torn =>
        /\ Exists(k) /\ ~Behind(k) =>
              /\ index[k] # "none" /\ row[k] # "none" /\ ~Pending(k)
              /\ ~At(k, {"renew"}) /\ file[k].how # "compile" => row[k] = "stale"
        /\ ~Exists(k) => index[k] = "none" \/ At(k, {"index"})
        /\ ~Exists(k) => row[k] = "none" \/ Pending(k) \/ At(k, {"index", "row"})

\* Nothing is deleted before a heal has its lock.
DeletesLate == \A r \in Removals : rem[r].pc \in {"unused", "lint", "ready"} => rem[r].pend = {}

AllAgree == DeletesLate /\ \A k \in Keys : Agree(k)

LEMMA InitAgree == Init => AllAgree
<1> SUFFICES ASSUME Init PROVE AllAgree
  OBVIOUS
<1>1. \A k \in Keys : file[k] = NoFile /\ index[k] = "none" /\ row[k] = "none"
  BY DEF Init
<1>2. \A r \in Removals : rem[r].pend = {}
  BY Values DEF Init
<1> QED
  BY <1>1, <1>2 DEF AllAgree, DeletesLate, Agree, Exists

\* A key that a step leaves as it was.
LEMMA Kept ==
    ASSUME NEW k, Agree(k), k \in torn => k \in torn', file'[k] = file[k], row'[k] = row[k],
           index'[k] = "none" <=> index[k] = "none",
           Behind(k)' <=> Behind(k), Pending(k)' <=> Pending(k),
           At(k, {"renew"})' <=> At(k, {"renew"}), At(k, {"index"})' <=> At(k, {"index"}),
           At(k, {"index", "row"})' <=> At(k, {"index", "row"})
    PROVE  Agree(k)'
BY DEF Agree, Exists

\* A step of one removal: what it does not change of the others, and of other keys.
LEMMA RemElsewhere ==
    ASSUME Types, NEW r \in Removals, NEW n \in RemType, Step(r, n), NEW k,
           \/ rem[r].on # k \/ rem[r].pc \notin {"renew", "index", "row"},
           \/ n.on # k \/ n.pc \notin {"renew", "index", "row"}
    PROVE  /\ At(k, {"renew"})' <=> At(k, {"renew"})
           /\ At(k, {"index"})' <=> At(k, {"index"})
           /\ At(k, {"index", "row"})' <=> At(k, {"index", "row"})
<1>1. rem'[r] = n /\ \A q \in Removals : q # r => rem'[q] = rem[q]
  BY Parts DEF Step
<1> QED
  BY <1>1 DEF At

LEMMA PendElsewhere ==
    ASSUME Types, NEW r \in Removals, NEW n \in RemType, Step(r, n), NEW k,
           k \in n.pend <=> k \in rem[r].pend
    PROVE  Pending(k)' <=> Pending(k)
<1>1. rem'[r] = n /\ \A q \in Removals : q # r => rem'[q] = rem[q]
  BY Parts DEF Step
<1> QED
  BY <1>1 DEF Pending

LEMMA UpsertRow ==
    ASSUME Types, NEW k \in Keys, NEW state, Upsert(k, state)
    PROVE  row'[k] = state /\ \A x \in Keys : x # k => row'[x] = row[x]
BY DEF Types, Upsert

LEMMA DropRow ==
    ASSUME NEW ks, Drop(ks), NEW k \in Keys
    PROVE  row'[k] = IF k \in ks THEN "none" ELSE row[k]
BY DEF Drop

\* A step that moves no removal and leaves the writes of stores to other keys alone.
LEMMA RemStays ==
    ASSUME UNCHANGED rem, NEW k
    PROVE  /\ Pending(k)' <=> Pending(k)
           /\ At(k, {"renew"})' <=> At(k, {"renew"})
           /\ At(k, {"index"})' <=> At(k, {"index"})
           /\ At(k, {"index", "row"})' <=> At(k, {"index", "row"})
BY DEF Pending, At

LEMMA CallStays == ASSUME UNCHANGED call, NEW k PROVE Behind(k)' <=> Behind(k)
BY DEF Behind

LEMMA StoringAgree ==
    ASSUME Inv, AllAgree, NEW s \in Stores, Storing(s)
    PROVE  \A x \in Keys : Agree(x)'
<1> USE Parts
<1>0. Types /\ Locks /\ AllHave /\ StoreHas(s)
  BY DEF Inv, AllHave
<1>00. UNCHANGED rem
  BY DEF Storing, Lock, Append, WriteLine, WriteRow
<1>1. ASSUME NEW k \in Keys, Lock(s, k) PROVE \A x \in Keys : Agree(x)'
  <2>1. /\ \A x \in Stores : x # s => call'[x] = call[x]
        /\ call[s].pc = "unused" /\ call'[s].pc = "locked"
        /\ UNCHANGED <<file, index, row, torn>>
    BY <1>0, <1>1 DEF Lock, history, table
  <2>2. \A x \in Keys : Behind(x)' <=> Behind(x)
    BY <2>1 DEF Behind
  <2> QED
    BY <1>00, <2>1, <2>2, RemStays, Kept DEF AllAgree
<1>2. PICK k \in Keys : k = call[s].key
  BY <1>0
<1> USE <1>2
<1>3. ASSUME \A x \in Stores : x # s => call'[x] = call[x],
             call'[s].key = k \/ call'[s].pc \notin {"written", "indexed"}
      PROVE  \A x \in Keys \ {k} : Behind(x)' <=> Behind(x)
  BY <1>3 DEF Behind
<1>4. ASSUME Append(s) PROVE \A x \in Keys : Agree(x)'
  <2>1. /\ \A x \in Stores : x # s => call'[x] = call[x]
        /\ call'[s].pc = "written" /\ call'[s].key = k
        /\ UNCHANGED <<index, row, torn>>
    BY <1>0, <1>4 DEF Append, CallType, history, table
  <2>2. /\ \A x \in Keys : x # k => file'[x] = file[x]
        /\ file'[k] # NoFile
    BY <1>0, <1>2, <1>4 DEF Append, NoFile
  <2>3. Behind(k)'
    BY <2>1 DEF Behind
  <2>4. ASSUME NEW x \in Keys, x # k PROVE Agree(x)'
    BY <1>00, <1>3, <2>1, <2>2, <2>4, RemStays, Kept DEF AllAgree
  <2>5. Agree(k)'
    BY <2>2, <2>3 DEF Agree, Exists
  <2> QED
    BY <2>4, <2>5
<1>5. ASSUME WriteLine(s) PROVE \A x \in Keys : Agree(x)'
  <2>1. /\ \A x \in Stores : x # s => call'[x] = call[x]
        /\ call[s].pc = "written" /\ call'[s].pc = "indexed" /\ call'[s].key = k
        /\ UNCHANGED <<file, row, torn>>
    BY <1>0, <1>5 DEF WriteLine, CallType, history, table
  <2>2. \A x \in Keys : x # k => index'[x] = index[x]
    BY <1>0, <1>2, <1>5 DEF WriteLine
  <2>3. Behind(k)'
    BY <2>1 DEF Behind
  <2>4. file[k] # NoFile
    BY <1>0, <2>1 DEF StoreHas, InStore, NoFile
  <2>5. ASSUME NEW x \in Keys, x # k PROVE Agree(x)'
    BY <1>00, <1>3, <2>1, <2>2, <2>5, RemStays, Kept DEF AllAgree
  <2>6. Agree(k)'
    BY <2>1, <2>3, <2>4 DEF Agree, Exists
  <2> QED
    BY <2>5, <2>6
<1>6. ASSUME WriteRow(s) PROVE \A x \in Keys : Agree(x)'
  <2>1. /\ \A x \in Stores : x # s => call'[x] = call[x]
        /\ call[s].pc = "indexed" /\ call'[s].pc = "done"
        /\ UNCHANGED <<file, index>>
    BY <1>0, <1>6, Values DEF WriteRow, CallType, Call
  <2>2. file[k] # NoFile /\ index[k] # "none"
    BY <1>0, <2>1 DEF StoreHas, InStore, NoFile
  <2>3. CASE Writable /\ Upsert(k, "stale") /\ torn' = torn \ {k}
    <3>1. row'[k] = "stale" /\ \A x \in Keys : x # k => row'[x] = row[x]
      BY <1>0, <1>2, <2>3, UpsertRow
    <3>2. ~Pending(k)'
      BY <1>00, <2>3 DEF Writable, Pending
    <3>3. ASSUME NEW x \in Keys, x # k PROVE Agree(x)'
      BY <1>00, <1>3, <2>1, <2>3, <3>1, <3>3, RemStays, Kept DEF AllAgree
    <3>4. Agree(k)'
      BY <2>1, <2>2, <3>1, <3>2 DEF Agree, Exists
    <3> QED
      BY <3>3, <3>4
  <2>4. CASE torn' = torn \cup {k} /\ UNCHANGED table
    <3>1. ASSUME NEW x \in Keys, x # k PROVE Agree(x)'
      BY <1>00, <1>3, <2>1, <2>4, <3>1, RemStays, Kept DEF AllAgree, table
    <3>2. Agree(k)'
      BY <2>4 DEF Agree
    <3> QED
      BY <3>1, <3>2
  <2> QED
    BY <1>6, <2>3, <2>4 DEF WriteRow
<1> QED
  BY <1>1, <1>4, <1>5, <1>6 DEF Storing

LEMMA CompilingAgree ==
    ASSUME Inv, AllAgree, NEW c \in Compilers, Compiling(c)
    PROVE  \A x \in Keys : Agree(x)'
<1> USE Parts
<1>0. Types /\ Locks /\ AllHave /\ JobHas(c)
  BY DEF Inv, AllHave
<1>00. UNCHANGED <<rem, call, index>>
  BY DEF Compiling, Fallback, Compiled, WriteBack, Stamp
<1>01. PICK k \in Keys : k = job[c].key
  BY <1>0
<1> USE <1>01
<1>1. CASE Fallback(c) \/ Compiled(c)
  <2>1. UNCHANGED <<file, row, torn>>
    BY <1>1 DEF Fallback, Compiled, history, table
  <2> QED
    BY <1>00, <2>1, RemStays, CallStays, Kept DEF AllAgree
<1>2. CASE WriteBack(c)
  <2>1. /\ job[c].pc = "write" /\ holder[k] = c /\ file[k] # NoFile
        /\ UNCHANGED <<row, torn>>
    BY <1>0, <1>2 DEF WriteBack, Locks, JobHas, history, table
  <2>2. /\ \A x \in Keys : x # k => file'[x] = file[x]
        /\ file'[k] # NoFile /\ file'[k].how = "compile"
    BY <1>0, <1>01, <1>2 DEF WriteBack, NoFile
  <2>3. ~Behind(k)
    <3>1. c \in Stores => ~(call[c].pc \in InStore)
      BY <1>0, <2>1 DEF Locks
    <3>2. c # NoOp
      BY <1>0
    <3> QED
      BY <1>0, <1>01, <2>1, <3>1, <3>2, UnderLock DEF Behind, InStore
  <2>4. ASSUME NEW x \in Keys, x # k PROVE Agree(x)'
    BY <1>00, <2>1, <2>2, <2>4, RemStays, CallStays, Kept DEF AllAgree
  <2>5. Agree(k)'
    BY <1>00, <1>01, <2>1, <2>2, <2>3, RemStays DEF AllAgree, Agree, Exists
  <2> QED
    BY <2>4, <2>5
<1>3. CASE Stamp(c)
  <2>1. file[k].how = "compile" /\ file[k] # NoFile /\ job[c].pc = "stamp" /\ UNCHANGED file
    BY <1>0, <1>3 DEF Stamp, JobHas, NoFile
  <2>2. CASE Upsert(k, IF row[k] = "none" THEN "stale" ELSE "fresh") /\ UNCHANGED torn
    <3>1. row'[k] # "none" /\ \A x \in Keys : x # k => row'[x] = row[x]
      BY <1>0, <1>01, <2>2, UpsertRow
    <3>2. ASSUME NEW x \in Keys, x # k PROVE Agree(x)'
      BY <1>00, <2>1, <2>2, <3>1, <3>2, RemStays, CallStays, Kept DEF AllAgree
    <3>3. Agree(k)'
      BY <1>00, <1>01, <2>1, <2>2, <3>1, RemStays, CallStays DEF AllAgree, Agree, Exists
    <3> QED
      BY <3>2, <3>3
  <2>3. CASE torn' = torn \cup {k} /\ UNCHANGED table
    <3>1. ASSUME NEW x \in Keys, x # k PROVE Agree(x)'
      BY <1>00, <2>1, <2>3, <3>1, RemStays, CallStays, Kept DEF AllAgree, table
    <3>2. Agree(k)'
      BY <2>3 DEF Agree
    <3> QED
      BY <3>1, <3>2
  <2> QED
    BY <1>3, <2>2, <2>3 DEF Stamp
<1> QED
  BY <1>1, <1>2, <1>3 DEF Compiling

LEMMA RemovingAgree ==
    ASSUME Inv, AllAgree, NEW r \in Removals, Removing(r)
    PROVE  AllAgree'
<1> USE Parts
<1>0. /\ Types /\ Locks /\ AllHave /\ RemOK(r, rem[r]) /\ rem[r] \in RemType
      /\ rem[r].on \in Keys /\ rem[r].pend \subseteq Keys
  BY DEF Inv, AllHave, RemType
<1>10. PICK k \in Keys : k = rem[r].on
  BY <1>0
<1> USE <1>10
<1>00. Types'
  BY <1>0, TypeStep DEF Next
<1>01. UNCHANGED call
  BY DEF Removing, Request, Begin, DetectOrphans, AcquireHealLock, Take, CheckFile, Unlink,
         RemoveLine, DeleteRow, Rewrite, Renew, Finish, Reads, Alone
<1> DEFINE m == rem'[r]
<1>02. m \in RemType /\ \A q \in Removals : q # r => rem'[q] = rem[q]
  <2>1. PICK n : Step(r, n)
    BY DEF Removing, Request, Begin, DetectOrphans, AcquireHealLock, Take, CheckFile, Unlink,
           RemoveLine, DeleteRow, Rewrite, Renew, Finish
  <2> QED
    BY <1>0, <1>00, <2>1 DEF Step, Types
<1>03. ASSUME m.pc \in {"unused", "lint", "ready"} => m.pend = {} PROVE DeletesLate'
  BY <1>02, <1>03 DEF AllAgree, DeletesLate
<1>04. ASSUME NEW x, k # x \/ rem[r].pc \notin {"renew", "index", "row"},
              m.on # x \/ m.pc \notin {"renew", "index", "row"}
       PROVE  /\ At(x, {"renew"})' <=> At(x, {"renew"})
              /\ At(x, {"index"})' <=> At(x, {"index"})
              /\ At(x, {"index", "row"})' <=> At(x, {"index", "row"})
  BY <1>02, <1>04 DEF At
<1>05. ASSUME NEW x, x \in m.pend <=> x \in rem[r].pend PROVE Pending(x)' <=> Pending(x)
  BY <1>02, <1>05 DEF Pending
<1>06. ~Behind(k) \/ rem[r].pc \notin AtWork
  BY <1>0, NoLock DEF RemOK, Behind, InStore
<1>07. Back(r).pend = rem[r].pend /\ Back(r).pc = "next"
  BY <1>0 DEF Back, RemType
<1>08. ASSUME NEW n, Step(r, n) PROVE m = n
  BY <1>0, <1>08 DEF Step
<1>1. CASE Request(r) \/ DetectOrphans(r) \/ AcquireHealLock(r) \/ Take(r)
  <2>1. UNCHANGED <<file, index, row, torn>>
    BY <1>1 DEF Request, Begin, DetectOrphans, AcquireHealLock, Take, Reads, history, table
  <2>2. /\ rem[r].pc \in {"unused", "lint", "ready", "next"}
        /\ m.pend = rem[r].pend /\ m.pc \notin {"renew", "index", "row"}
        /\ m.pc \in {"unused", "lint", "ready"} => rem[r].pc # "next"
    <3>1. CASE Request(r)
      <4>1. ASSUME NEW kind, NEW pc \in {"lint", "ready", "next"}, NEW keys,
                   Begin(r, kind, pc, keys)
            PROVE  m.pend = {} /\ m.pc = pc /\ rem[r].pc = "unused"
        BY <1>0, <4>1 DEF Begin, Step, NoRemoval
      <4>2. rem[r].pend = {} \/ rem[r].pc # "unused"
        BY DEF AllAgree, DeletesLate
      <4> QED
        BY <3>1, <4>1, <4>2 DEF Request
    <3>2. CASE DetectOrphans(r)
      BY <1>0, <3>2 DEF DetectOrphans, Step, RemType
    <3>3. CASE AcquireHealLock(r)
      BY <1>0, <3>3, Values DEF AcquireHealLock, Step, Back, RemType, AllAgree, DeletesLate
    <3>4. CASE Take(r)
      <4>1. PICK x \in rem[r].todo :
              LET rest == [rem[r] EXCEPT !.todo = @ \ {x}] IN
              /\ rem[r].pc = "next"
              /\ \/ Step(r, rest)
                 \/ Step(r, [rest EXCEPT !.pc = "check", !.on = x])
                 \/ Step(r, [rest EXCEPT !.pc = "rewrite", !.on = x, !.seen = file[x]])
        BY <3>4 DEF Take
      <4> DEFINE rest == [rem[r] EXCEPT !.todo = @ \ {x}]
      <4>2. CASE Step(r, rest)
        BY <1>0, <1>08, <4>1, <4>2 DEF RemType
      <4>3. CASE Step(r, [rest EXCEPT !.pc = "check", !.on = x])
        BY <1>0, <1>08, <4>1, <4>3 DEF RemType
      <4>4. CASE Step(r, [rest EXCEPT !.pc = "rewrite", !.on = x, !.seen = file[x]])
        BY <1>0, <1>08, <4>1, <4>4 DEF RemType
      <4> QED
        BY <4>1, <4>2, <4>3, <4>4
    <3> QED
      BY <1>1, <3>1, <3>2, <3>3, <3>4
  <2>3. DeletesLate'
    BY <1>03, <2>2 DEF AllAgree, DeletesLate
  <2>4. ASSUME NEW x \in Keys PROVE Agree(x)'
    BY <1>01, <1>04, <1>05, <2>1, <2>2, CallStays, Kept DEF AllAgree
  <2> QED
    BY <2>3, <2>4 DEF AllAgree
<1>2. CASE CheckFile(r)
  <2>1. rem[r].pc = "check" /\ UNCHANGED <<file, index>>
    BY <1>2 DEF CheckFile
  <2>2. ASSUME m.pend = rem[r].pend, m.pc \in {"unlink", "index", "next"}, UNCHANGED <<row, torn>>,
               m.pc = "index" => m.on = k /\ ~Exists(k)
        PROVE  AllAgree'
    <3>1. ASSUME NEW x \in Keys, x # k \/ m.pc # "index" PROVE Agree(x)'
      BY <1>01, <1>04, <1>05, <2>1, <2>2, <3>1, CallStays, Kept DEF AllAgree
    <3>2. m.pc = "index" => At(k, {"index"})' /\ At(k, {"index", "row"})'
      BY <2>2 DEF At
    <3>3. m.pc = "index" => Agree(k)'
      BY <2>1, <2>2, <3>2 DEF Agree, Exists
    <3> QED
      BY <1>03, <2>2, <3>1, <3>3 DEF AllAgree
  <2>3. CASE Exists(k) \/ rem[r].kind \in HealKinds
    <3>1. /\ m.pend = rem[r].pend /\ m.on = k /\ UNCHANGED <<row, torn>>
          /\ m.pc = IF Exists(k) THEN "unlink" ELSE "index"
      BY <1>0, <1>2, <2>3 DEF CheckFile, Step, RemType, table, history
    <3> QED
      BY <2>2, <3>1
  <2>4. CASE ~Exists(k) /\ rem[r].kind \notin HealKinds
    <3>1. /\ m.pend = rem[r].pend /\ m.pc = "next"
      BY <1>07, <1>08, <1>2, <2>4 DEF CheckFile
    <3>2. \/ /\ row'[k] = "none" /\ \A x \in Keys : x # k => row'[x] = row[x]
             /\ UNCHANGED torn
          \/ torn' = torn \cup {k} /\ UNCHANGED row
      BY <1>0, <1>2, <2>4, DropRow DEF CheckFile, history, table
    <3>3. ASSUME NEW x \in Keys, x # k PROVE Agree(x)'
      BY <1>01, <1>04, <1>05, <2>1, <3>1, <3>2, <3>3, CallStays, Kept DEF AllAgree
    <3>4. Agree(k)'
      BY <1>0, <1>04, <2>1, <2>4, <3>1, <3>2 DEF AllAgree, Agree, Exists
    <3> QED
      BY <1>03, <3>1, <3>3, <3>4 DEF AllAgree
  <2> QED
    BY <2>3, <2>4
<1>3. CASE Unlink(r)
  <2>1. /\ rem[r].pc = "unlink" /\ UNCHANGED <<index, row, torn>>
        /\ file' = [file EXCEPT ![k] = NoFile]
    BY <1>3 DEF Unlink, table
  <2>2. /\ m.pend = rem[r].pend
        /\ Exists(k) => m.pc = "index" /\ m.on = k
        /\ ~Exists(k) => m.pc = "next"
    BY <1>0, <1>3 DEF Unlink, Step, RemType, Back
  <2>3. \A x \in Keys : x # k => file'[x] = file[x]
    BY <1>0, <2>1
  <2>4. file'[k] = NoFile
    BY <1>0, <2>1
  <2>5. ASSUME NEW x \in Keys, x # k \/ ~Exists(k) PROVE Agree(x)'
    <3>1. file'[x] = file[x]
      BY <2>3, <2>4, <2>5 DEF Exists
    <3> QED
      BY <1>01, <1>04, <1>05, <2>1, <2>2, <2>5, <3>1, CallStays, Kept DEF AllAgree
  <2>6. Exists(k) => Agree(k)'
    <3>1. Exists(k) => At(k, {"index"})' /\ At(k, {"index", "row"})'
      BY <2>2 DEF At
    <3> QED
      BY <2>4, <3>1 DEF Agree, Exists
  <2> QED
    BY <1>0, <1>03, <2>2, <2>5, <2>6 DEF AllAgree
<1>4. CASE RemoveLine(r)
  <2>1. /\ rem[r].pc = "index" /\ UNCHANGED <<file, row, torn>>
        /\ index' = [index EXCEPT ![k] = "none"]
    BY <1>4 DEF RemoveLine, table, history
  <2>2. m.pend = rem[r].pend /\ m.pc = "row" /\ m.on = k
    BY <1>0, <1>4 DEF RemoveLine, Step, RemType
  <2>3. file[k] = NoFile
    BY <1>0, <2>1 DEF RemOK, AtWork
  <2>4. index'[k] = "none" /\ \A x \in Keys : x # k => index'[x] = index[x]
    BY <1>0, <2>1
  <2>5. ASSUME NEW x \in Keys, x # k PROVE Agree(x)'
    BY <1>01, <1>04, <1>05, <2>1, <2>2, <2>4, <2>5, CallStays, Kept DEF AllAgree
  <2>6. Agree(k)'
    <3>1. At(k, {"index", "row"})'
      BY <2>2 DEF At
    <3> QED
      BY <2>1, <2>3, <2>4, <3>1 DEF Agree, Exists
  <2> QED
    BY <1>03, <2>2, <2>5, <2>6 DEF AllAgree
<1>5. CASE DeleteRow(r)
  <2>1. /\ rem[r].pc = "row" /\ UNCHANGED <<file, index>>
    BY <1>5 DEF DeleteRow
  <2>2. file[k] = NoFile /\ index[k] = "none"
    BY <1>0, <2>1 DEF RemOK, AtWork
  <2>3. CASE rem[r].kind \in HealKinds
    <3>1. m.pc = "next" /\ m.pend = rem[r].pend \cup {k} /\ UNCHANGED <<row, torn>>
      <4>1. m = [Back(r) EXCEPT !.pend = @ \cup {k}] /\ UNCHANGED <<row, torn>>
        BY <1>08, <1>5, <2>3 DEF DeleteRow, table, history
      <4> QED
        BY <1>0, <1>07, <4>1 DEF Back, RemType
    <3>2. ASSUME NEW x \in Keys, x # k PROVE Agree(x)'
      BY <1>01, <1>04, <1>05, <2>1, <3>1, <3>2, CallStays, Kept DEF AllAgree
    <3>3. Pending(k)'
      BY <3>1 DEF Pending
    <3>4. Agree(k)'
      BY <2>1, <2>2, <3>3 DEF Agree, Exists
    <3> QED
      BY <1>03, <3>1, <3>2, <3>4 DEF AllAgree
  <2>4. CASE rem[r].kind \notin HealKinds
    <3>1. m.pc = "next" /\ m.pend = rem[r].pend
      BY <1>07, <1>08, <1>5, <2>4 DEF DeleteRow
    <3>2. \/ /\ row'[k] = "none" /\ \A x \in Keys : x # k => row'[x] = row[x]
             /\ UNCHANGED torn
          \/ torn' = torn \cup {k} /\ UNCHANGED row
      BY <1>0, <1>5, <2>4, DropRow DEF DeleteRow, history, table
    <3>3. ASSUME NEW x \in Keys, x # k PROVE Agree(x)'
      BY <1>01, <1>04, <1>05, <2>1, <3>1, <3>2, <3>3, CallStays, Kept DEF AllAgree
    <3>4. Agree(k)'
      BY <2>1, <2>2, <3>2 DEF Agree, Exists
    <3> QED
      BY <1>03, <3>1, <3>3, <3>4 DEF AllAgree
  <2> QED
    BY <2>3, <2>4
<1>6. CASE Rewrite(r)
  <2>1. /\ rem[r].pc = "rewrite" /\ UNCHANGED <<index, row, torn>> /\ Exists(k)
        /\ file' = [file EXCEPT ![k] = [entries |-> rem[r].seen.entries, how |-> "strip", who |-> r]]
    BY <1>0, <1>6 DEF Rewrite, table, history, RemOK, AtWork
  <2>2. m.pend = rem[r].pend /\ m.pc = "renew" /\ m.on = k
    BY <1>0, <1>6 DEF Rewrite, Step, RemType
  <2>3. file'[k] # NoFile /\ \A x \in Keys : x # k => file'[x] = file[x]
    BY <1>0, <2>1 DEF NoFile
  <2>4. ASSUME NEW x \in Keys, x # k PROVE Agree(x)'
    BY <1>01, <1>04, <1>05, <2>1, <2>2, <2>3, <2>4, CallStays, Kept DEF AllAgree
  <2>5. Agree(k)'
    <3>1. At(k, {"renew"})' /\ (Pending(k)' <=> Pending(k))
      BY <1>05, <2>2 DEF At
    <3> QED
      BY <1>0, <1>06, <2>1, <2>3, <3>1 DEF AllAgree, Agree, Exists, AtWork
  <2> QED
    BY <1>03, <2>2, <2>4, <2>5 DEF AllAgree
<1>7. CASE Renew(r)
  <2>1. /\ rem[r].pc = "renew" /\ UNCHANGED <<file, index>> /\ Exists(k)
    BY <1>0, <1>7 DEF Renew, RemOK, AtWork, Exists, NoFile
  <2>2. m.pend = rem[r].pend /\ m.pc = "next"
    BY <1>0, <1>7 DEF Renew, Step, RemType, Back
  <2>3. \/ /\ row'[k] = "stale" /\ \A x \in Keys : x # k => row'[x] = row[x]
           /\ UNCHANGED torn
        \/ torn' = torn \cup {k} /\ UNCHANGED row
    BY <1>0, <1>7, UpsertRow DEF Renew, history, table
  <2>4. ASSUME NEW x \in Keys, x # k PROVE Agree(x)'
    BY <1>01, <1>04, <1>05, <2>1, <2>2, <2>3, <2>4, CallStays, Kept DEF AllAgree
  <2>5. Agree(k)'
    <3>1. Pending(k)' <=> Pending(k)
      BY <1>05, <2>2
    <3> QED
      BY <1>0, <1>06, <2>1, <2>3, <3>1 DEF AllAgree, Agree, Exists, AtWork
  <2> QED
    BY <1>03, <2>2, <2>4, <2>5 DEF AllAgree
<1>8. CASE Finish(r)
  <2>1. /\ rem[r].pc = "next" /\ UNCHANGED <<file, index>> /\ m.pc = "done" /\ m.pend = {}
    BY <1>0, <1>8, Values DEF Finish, Step
  <2>2. \/ /\ \A x \in Keys : row'[x] = IF x \in rem[r].pend THEN "none" ELSE row[x]
           /\ UNCHANGED torn
        \/ torn' = torn \cup rem[r].pend /\ UNCHANGED row
    BY <1>8, DropRow DEF Finish, history, table
  <2>3. ASSUME NEW x \in Keys, x \notin rem[r].pend PROVE Agree(x)'
    <3>1. row'[x] = row[x] /\ (x \in torn => x \in torn')
      BY <2>2, <2>3
    <3> QED
      BY <1>01, <1>04, <1>05, <2>1, <2>3, <3>1, CallStays, Kept DEF AllAgree
  <2>4. ASSUME NEW x \in Keys, x \in rem[r].pend PROVE Agree(x)'
    <3>1. Pending(x) /\ (Behind(x)' <=> Behind(x))
      BY <1>01, <2>4, CallStays DEF Pending
    <3>2. At(x, {"index"})' <=> At(x, {"index"})
      BY <1>04, <2>1
    <3> QED
      BY <2>1, <2>2, <2>4, <3>1, <3>2 DEF AllAgree, Agree, Exists
  <2> QED
    BY <1>03, <2>1, <2>3, <2>4 DEF AllAgree
<1> QED
  BY <1>1, <1>2, <1>3, <1>4, <1>5, <1>6, <1>7, <1>8 DEF Removing

LEMMA OtherAgree ==
    ASSUME Inv, AllAgree, Die \/ \E k \in Keys : Recall(k) \/ Age(k)
    PROVE  AllAgree'
<1> USE Parts
<1>0. Types /\ Locks
  BY DEF Inv
<1>1. ASSUME UNCHANGED rem PROVE DeletesLate'
  BY <1>1 DEF AllAgree, DeletesLate
<1>2. ASSUME NEW k \in Keys, Recall(k) PROVE AllAgree'
  <2>1. /\ UNCHANGED <<file, index, rem, call, torn>> /\ Exists(k)
        /\ row'[k] = "stale" /\ \A x \in Keys : x # k => row'[x] = row[x]
    BY <1>0, <1>2, UpsertRow DEF Recall, Alone, history
  <2>2. ASSUME NEW x \in Keys, x # k PROVE Agree(x)'
    BY <2>1, <2>2, RemStays, CallStays, Kept DEF AllAgree
  <2>3. Agree(k)'
    BY <2>1, RemStays, CallStays DEF AllAgree, Agree, Exists
  <2> QED
    BY <1>1, <2>1, <2>2, <2>3 DEF AllAgree
<1>3. ASSUME NEW k \in Keys, Age(k) PROVE AllAgree'
  <2>1. UNCHANGED <<file, row, rem, call, torn>>
        /\ \A x \in Keys : index'[x] = "none" <=> index[x] = "none"
    BY <1>0, <1>3 DEF Age, Alone, history, table
  <2> QED
    BY <1>1, <2>1, RemStays, CallStays, Kept DEF AllAgree
<1>4. CASE Die
  <2>0. UNCHANGED <<file, index, row>>
    BY <1>4 DEF Die, table
  <2>1. ASSUME NEW s \in Stores, call' = [call EXCEPT ![s] = Call("lost")],
               torn' = torn \cup {call[s].key}, UNCHANGED rem
        PROVE  AllAgree'
    <3>1. /\ \A x \in Stores : x # s => call'[x] = call[x]
          /\ call'[s].pc = "lost"
      BY <1>0, <2>1 DEF Call
    <3>2. ASSUME NEW x \in Keys, x # call[s].key PROVE Behind(x)' <=> Behind(x)
      BY <3>1, <3>2 DEF Behind
    <3>3. ASSUME NEW x \in Keys, x # call[s].key PROVE Agree(x)'
      BY <2>0, <2>1, <3>2, <3>3, RemStays, Kept DEF AllAgree
    <3>4. ASSUME NEW x \in Keys, x = call[s].key PROVE Agree(x)'
      BY <2>1, <3>4 DEF Agree
    <3> QED
      BY <1>1, <2>1, <3>3, <3>4 DEF AllAgree
  <2>2. ASSUME NEW c \in Compilers, torn' = torn \cup {job[c].key}, UNCHANGED <<call, rem>>
        PROVE  AllAgree'
    <3>1. ASSUME NEW x \in Keys PROVE Agree(x)'
      BY <2>0, <2>2, RemStays, CallStays, Kept DEF AllAgree
    <3> QED
      BY <1>1, <2>2, <3>1 DEF AllAgree
  <2>3. ASSUME NEW r \in Removals, Step(r, Over),
               rem[r].pc \in {"check", "unlink", "index", "row", "rewrite", "renew", "next"},
               torn' = torn \cup rem[r].pend
                             \cup IF rem[r].pc = "next" THEN {} ELSE {rem[r].on},
               UNCHANGED call
        PROVE  AllAgree'
    <3>1. Over \in RemType /\ Over.pc = "done" /\ Over.pend = {}
      BY Values
    <3>2. DeletesLate'
      BY <1>0, <2>3, <3>1 DEF AllAgree, DeletesLate, Step
    <3>3. ASSUME NEW x \in Keys, x \in torn' PROVE Agree(x)'
      BY <3>3 DEF Agree
    <3>4. ASSUME NEW x \in Keys, x \notin torn' PROVE Agree(x)'
      <4>1. /\ x \notin rem[r].pend /\ x \notin torn
            /\ rem[r].on # x \/ rem[r].pc \notin {"renew", "index", "row"}
        BY <2>3, <3>4
      <4>2. Pending(x)' <=> Pending(x)
        BY <1>0, <2>3, <3>1, <4>1, PendElsewhere
      <4>3. /\ At(x, {"renew"})' <=> At(x, {"renew"})
            /\ At(x, {"index"})' <=> At(x, {"index"})
            /\ At(x, {"index", "row"})' <=> At(x, {"index", "row"})
        BY <1>0, <2>3, <3>1, <4>1, RemElsewhere
      <4> QED
        BY <2>0, <2>3, <4>1, <4>2, <4>3, CallStays, Kept DEF AllAgree
    <3> QED
      BY <3>2, <3>3, <3>4 DEF AllAgree
  <2> QED
    BY <1>4, <2>1, <2>2, <2>3 DEF Die
<1> QED
  BY <1>2, <1>3, <1>4

LEMMA AgreeStep == Inv /\ AllAgree /\ [Next]_vars => AllAgree'
<1> SUFFICES ASSUME Inv, AllAgree, [Next]_vars PROVE AllAgree'
  OBVIOUS
<1>0. ASSUME UNCHANGED rem PROVE DeletesLate'
  BY <1>0 DEF AllAgree, DeletesLate
<1>1. CASE UNCHANGED <<file, index, row, call, rem, torn>>
  BY <1>0, <1>1, RemStays, CallStays, Kept DEF AllAgree
<1>2. ASSUME NEW s \in Stores, Storing(s) PROVE AllAgree'
  <2>1. UNCHANGED rem
    BY <1>2 DEF Storing, Lock, Append, WriteLine, WriteRow
  <2> QED
    BY <1>0, <1>2, <2>1, StoringAgree DEF AllAgree
<1>3. ASSUME NEW c \in Compilers, Compiling(c) PROVE AllAgree'
  <2>1. UNCHANGED rem
    BY <1>3 DEF Compiling, Fallback, Compiled, WriteBack, Stamp
  <2> QED
    BY <1>0, <1>3, <2>1, CompilingAgree DEF AllAgree
<1>4. ASSUME NEW w \in Sweeps, Sweeping(w) PROVE UNCHANGED <<file, index, row, call, rem, torn>>
  BY <1>4 DEF Sweeping, ListUncompiled, ReadArticle, table, history
<1> QED
  BY <1>1, <1>2, <1>3, <1>4, RemovingAgree, OtherAgree DEF Next, vars, table

\* An article has its line and its row, and no line or row is without its article, once
\* nobody works on the key, unless a fault came between; and the row of an article that
\* no compile has written says so.
THEOREM SpecTripleAgrees == ASSUME ~Overlap PROVE Spec => []TripleAgrees
<1>1. Inv /\ AllAgree => TripleAgrees
  <2> SUFFICES ASSUME Inv, AllAgree, NEW k \in Keys \ torn, Quiet(k)
               PROVE  /\ Exists(k) <=> index[k] # "none"
                      /\ Exists(k) <=> row[k] # "none"
                      /\ Exists(k) /\ file[k].how # "compile" => row[k] = "stale"
    BY DEF TripleAgrees
  <2>1. ~Behind(k)
    BY NoLock DEF Quiet, Inv, Behind, InStore
  <2>2. ~Pending(k) /\ ~At(k, {"renew"}) /\ ~At(k, {"index"}) /\ ~At(k, {"index", "row"})
    BY DEF Quiet, Pending, At, On
  <2> QED
    BY <2>1, <2>2 DEF AllAgree, Agree
<1> QED
  BY <1>1, InitAgree, AgreeStep, InvHolds, PTL DEF Spec
=============================================================================
