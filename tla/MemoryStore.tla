----------------------------- MODULE MemoryStore -----------------------------
(* The memory wiki of one project (services/memory_service.py, wiki_healer.py,    *)
(* wiki_lint.py, cleanup_expired_memories): a memory is an article in a file, a     *)
(* line of index.md and a row of memory_metadata, written one after the other by    *)
(* processes that share only these: the agents' MCP servers, the API server, the    *)
(* command line.                                                                    *)
(*                                                                                  *)
(* A store appends to the article and may schedule a compile: an LLM rewrites the    *)
(* article while others go on, and the result is written back if the article is     *)
(* still the one that was to be replaced.  Both hold the topic lock, a file lock of  *)
(* the key; nothing that deletes or heals takes it.                                 *)
EXTENDS Naturals, FiniteSets

CONSTANTS
    Keys,
    Stores,         \* calls of store, and the compiles they schedule
    Sweeps,         \* calls of compact
    Removals,       \* calls of forget, runs of cleanup_expired_memories, of heal
    Kinds,          \* what the removals are
    NoOp,
    Overlap,        \* whether what rewrites an article may overlap a removal of it
    Faults, MaxFaults

Compilers == Stores \cup Sweeps
Ops == Compilers \cup Removals
HealKinds == {"orphan", "contradiction", "stale_claim"}
AllKinds == {"forget", "expire"} \cup HealKinds
FaultKinds == {"db", "die"}

ASSUME MemoryAssumption ==
    /\ Keys # {} /\ Stores \cap Sweeps = {} /\ Compilers \cap Removals = {} /\ NoOp \notin Ops
    /\ Kinds \subseteq AllKinds /\ Overlap \in BOOLEAN
    /\ Faults \subseteq FaultKinds /\ MaxFaults \in Nat

VARIABLES
    file,       \* the article of a key: whose entries it has, and who wrote it how
    index,      \* its line: none, a recent one, one older than its retention
    row,        \* its row: none, or whether last_compiled_at has reached updated_at
    since,      \* the keys whose rows were updated after its own
    holder,     \* who holds its topic lock
    call,       \* the calls of store
    job,        \* the compile of a store or of a sweep
    todo,       \* the keys a sweep has yet to compile
    rem,        \* the removals
    \* history
    owed,       \* entries whose store returned and that nobody removed since
    gone,       \* entries that were removed
    torn,       \* keys a fault left half written or half removed
    faults

vars == <<file, index, row, since, holder, call, job, todo, rem, owed, gone, torn, faults>>

NoFile == [entries |-> {}, how |-> "none", who |-> NoOp]
Article == [entries : SUBSET Stores, how : {"none", "append", "compile", "strip"},
            who : Ops \cup {NoOp}]
SomeKey == CHOOSE k \in Keys : TRUE
Call(pc) == [pc |-> pc, key |-> SomeKey, seen |-> NoFile]
NoJob == [pc |-> "none", key |-> SomeKey, expect |-> NoFile]
NoRemoval == [pc |-> "unused", kind |-> "forget", todo |-> {}, on |-> SomeKey,
              seen |-> NoFile, pend |-> {}]

TypeOK ==
    /\ file \in [Keys -> Article]
    /\ index \in [Keys -> {"none", "recent", "old"}]
    /\ row \in [Keys -> {"none", "stale", "fresh"}]
    /\ holder \in [Keys -> Compilers \cup {NoOp}]
    /\ call \in [Stores -> [pc : {"unused", "locked", "written", "indexed", "done", "lost"},
                            key : Keys, seen : Article]]
    /\ job \in [Compilers -> [pc : {"none", "llm", "write", "stamp"}, key : Keys,
                              expect : Article]]
    /\ todo \in [Sweeps -> SUBSET Keys]
    /\ rem \in [Removals ->
                  [pc : {"unused", "lint", "ready", "next", "check", "unlink", "index", "row",
                         "rewrite", "renew", "done"},
                   kind : AllKinds, todo : SUBSET Keys, on : Keys, seen : Article,
                   pend : SUBSET Keys]]
    /\ owed \in [Keys -> SUBSET Stores] /\ gone \in [Keys -> SUBSET Stores]
    /\ since \in [Keys -> SUBSET Keys]
    /\ torn \subseteq Keys
    /\ faults \in 0..MaxFaults
    /\ \A k \in Keys : holder[k] # NoOp =>
          \/ holder[k] \in Stores /\ call[holder[k]].key = k
             /\ call[holder[k]].pc \in {"locked", "written", "indexed"}
          \/ job[holder[k]].key = k /\ job[holder[k]].pc \in {"write", "stamp"}

Init ==
    /\ file = [k \in Keys |-> NoFile] /\ index = [k \in Keys |-> "none"]
    /\ row = [k \in Keys |-> "none"] /\ since = [k \in Keys |-> {}]
    /\ holder = [k \in Keys |-> NoOp]
    /\ call = [s \in Stores |-> Call("unused")]
    /\ job = [c \in Compilers |-> NoJob] /\ todo = [w \in Sweeps |-> {}]
    /\ rem = [r \in Removals |-> NoRemoval]
    /\ owed = [k \in Keys |-> {}] /\ gone = [k \in Keys |-> {}]
    /\ torn = {} /\ faults = 0

Fault(kind) == kind \in Faults /\ faults < MaxFaults /\ faults' = faults + 1
history == <<owed, gone, torn, faults>>
table == <<row, since>>

Exists(k) == file[k] # NoFile

Rows == {k \in Keys : row[k] # "none"}

\* The row of k is written: updated_at, and what it says of the compile.
Upsert(k, state) ==
    /\ row' = [row EXCEPT ![k] = state]
    /\ since' = [x \in Keys |-> IF x = k THEN {}
                                ELSE IF x \in Rows THEN since[x] \cup {k} ELSE {}]

\* The rows of ks are deleted.
Drop(ks) ==
    /\ row' = [k \in Keys |-> IF k \in ks THEN "none" ELSE row[k]]
    /\ since' = [k \in Keys |-> IF k \in ks THEN {} ELSE since[k] \ ks]

On(k) == {r \in Removals : rem[r].on = k
                           /\ rem[r].pc \in {"check", "unlink", "index", "row", "rewrite", "renew"}}

Rewriting(k) == {r \in On(k) : rem[r].kind = "stale_claim"}

\* The topic lock of k can be taken.
Lockable(k) == holder[k] = NoOp /\ (Overlap \/ On(k) = {})

\* A removal, or the rewriting of a stale claim, can begin on k.  (With Overlap, at any time.)
Removable(k, kind) ==
    \/ Overlap
    \/ holder[k] = NoOp /\ (IF kind = "stale_claim" THEN On(k) ELSE Rewriting(k)) = {}

Healing == {r \in Removals : /\ rem[r].kind \in HealKinds
                             /\ rem[r].pc \notin {"unused", "lint", "ready", "done"}}

\* SQLite admits one writer: a heal that has deleted a row holds the others up until
\* it commits.
Writable == \A r \in Removals : rem[r].pend = {}

-----------------------------------------------------------------------------
(* store.                                                                       *)

\* flock, and the article is read.
Lock(s, k) ==
    /\ call[s].pc = "unused" /\ Lockable(k)
    /\ holder' = [holder EXCEPT ![k] = s]
    /\ call' = [call EXCEPT ![s] = [pc |-> "locked", key |-> k, seen |-> file[k]]]
    /\ UNCHANGED <<file, index, table, job, todo, rem, history>>

\* The article with the new entry replaces the file.  In llm mode a compile of an
\* update is scheduled.  (Its debounce is per MemoryService, and each call of store
\* has one of its own.)
Append(s) ==
    LET k == call[s].key
        new == [entries |-> call[s].seen.entries \cup {s}, how |-> "append", who |-> s] IN
    /\ call[s].pc = "locked"
    /\ file' = [file EXCEPT ![k] = new]
    /\ \/ UNCHANGED job
       \/ /\ call[s].seen # NoFile
          /\ job' = [job EXCEPT ![s] = [pc |-> "llm", key |-> k, expect |-> new]]
    /\ call' = [call EXCEPT ![s].pc = "written", ![s].seen = NoFile]
    /\ UNCHANGED <<index, table, holder, todo, rem, history>>

WriteLine(s) ==
    /\ call[s].pc = "written"
    /\ index' = [index EXCEPT ![call[s].key] = "recent"]
    /\ call' = [call EXCEPT ![s].pc = "indexed"]
    /\ UNCHANGED <<file, table, holder, job, todo, rem, history>>

\* _upsert_metadata renews updated_at; a failure is logged.  The lock is released
\* and store returns.
WriteRow(s) ==
    LET k == call[s].key IN
    /\ call[s].pc = "indexed"
    /\ \/ /\ Writable /\ Upsert(k, "stale")
          /\ torn' = torn \ {k} /\ UNCHANGED faults
       \/ Fault("db") /\ torn' = torn \cup {k} /\ UNCHANGED table
    /\ holder' = [holder EXCEPT ![k] = NoOp]
    /\ call' = [call EXCEPT ![s] = Call("done")]
    /\ owed' = [owed EXCEPT ![k] = @ \cup {s}]
    /\ UNCHANGED <<file, index, job, todo, rem, gone>>

-----------------------------------------------------------------------------
(* _run_background_compile, compact.                                            *)

\* The LLM's answer is refused, or there is none.
Fallback(c) ==
    /\ job[c].pc = "llm" /\ job' = [job EXCEPT ![c] = NoJob]
    /\ UNCHANGED <<file, index, table, holder, call, todo, rem, history>>

\* The file still holds what was to be replaced.
Current(k, expect) == file[k] = expect

\* Who holds the lock after the check.
HeldAfterCheck(c, current) == IF current THEN c ELSE NoOp

\* The topic lock, and the check under it.
Compiled(c) ==
    LET k == job[c].key
        current == Current(k, job[c].expect) IN
    /\ job[c].pc = "llm" /\ Lockable(k)
    /\ holder' = [holder EXCEPT ![k] = HeldAfterCheck(c, current)]
    /\ job' = [job EXCEPT ![c] = IF current THEN [@ EXCEPT !.pc = "write"] ELSE NoJob]
    /\ UNCHANGED <<file, index, table, call, todo, rem, history>>

\* Mutant: the lock covers the file only.
HeldReplacing(c) == NoOp

\* Who holds the lock once the file is replaced.
Held(c) == c

WriteBack(c) ==
    LET k == job[c].key IN
    /\ job[c].pc = "write"
    /\ file' = [file EXCEPT ![k] = [entries |-> job[c].expect.entries, how |-> "compile",
                                    who |-> c]]
    /\ holder' = [holder EXCEPT ![k] = Held(c)]
    /\ job' = [job EXCEPT ![c].pc = "stamp"]
    /\ UNCHANGED <<index, table, call, todo, rem, history>>

\* last_compiled_at = updated_at = now in a row that is there; a row that is inserted
\* gets an updated_at of its own, later.
Stamp(c) ==
    LET k == job[c].key IN
    /\ job[c].pc = "stamp"
    /\ \/ /\ Writable /\ Upsert(k, IF row[k] = "none" THEN "stale" ELSE "fresh")
          /\ UNCHANGED <<torn, faults>>
       \/ Fault("db") /\ torn' = torn \cup {k} /\ UNCHANGED table
    /\ holder' = [holder EXCEPT ![k] = NoOp] /\ job' = [job EXCEPT ![c] = NoJob]
    /\ UNCHANGED <<file, index, call, todo, rem, owed, gone>>

\* compact: the rows not compiled since they were updated, or one key whatever its row.
ListUncompiled(w) ==
    /\ job[w].pc = "none" /\ todo[w] = {}
    /\ \E listed \in {{k \in Keys : row[k] = "stale"}} \cup {{k} : k \in {x \in Keys : row[x] # "none"}} :
          /\ listed # {} /\ todo' = [todo EXCEPT ![w] = listed]
    /\ UNCHANGED <<file, index, table, holder, call, job, rem, history>>

ReadArticle(w, k) ==
    /\ job[w].pc = "none" /\ k \in todo[w]
    /\ todo' = [todo EXCEPT ![w] = @ \ {k}]
    /\ job' = IF Exists(k) THEN [job EXCEPT ![w] = [pc |-> "llm", key |-> k, expect |-> file[k]]]
              ELSE job
    /\ UNCHANGED <<file, index, table, holder, call, rem, history>>

-----------------------------------------------------------------------------
(* forget, cleanup_expired_memories, run_lint and heal.                         *)

Step(r, new) == rem' = [rem EXCEPT ![r] = new]
Back(r) == [rem[r] EXCEPT !.pc = "next", !.on = SomeKey]
Over == [NoRemoval EXCEPT !.pc = "done"]
Alone == UNCHANGED <<holder, call, job, todo>>
Reads == UNCHANGED <<file, index, table, history>> /\ Alone

\* Begin a removal of a kind, at pc, of some keys.
Begin(r, kind, pc, keys) ==
    /\ rem[r].pc = "unused" /\ kind \in Kinds /\ keys # {}
    /\ Step(r, [NoRemoval EXCEPT !.pc = pc, !.kind = kind, !.todo = keys])
    /\ Reads

\* forget is called; the expired lines are listed; run_lint reads the rows of the
\* project, if it has any.  Which articles contradict others, or name what is no
\* longer there, is left open.
Request(r) ==
    \/ \E k \in Keys : \/ Begin(r, "forget", "next", {k})
                       \/ k \in Rows /\ Exists(k) /\ Begin(r, "stale_claim", "ready", {k})
                       \/ Cardinality(Rows) > 1 /\ k \in Rows /\ Begin(r, "contradiction", "ready", {k})
    \/ Begin(r, "expire", "next", {k \in Keys : index[k] = "old"})
    \/ Rows # {} /\ Begin(r, "orphan", "lint", Keys \ Rows)

\* _detect_orphan_pages: the files, and of these the ones without a line.
DetectOrphans(r) ==
    /\ rem[r].pc = "lint"
    /\ Step(r, [rem[r] EXCEPT !.pc = "ready",
                              !.todo = {k \in @ : Exists(k) /\ index[k] = "none"}])
    /\ Reads

\* The heal lock, not waited for.
AcquireHealLock(r) ==
    /\ rem[r].pc = "ready"
    /\ Step(r, IF Healing = {} THEN Back(r) ELSE Over)
    /\ Reads

\* Mutant: the finding is taken at its word.
StillOrphan(k) == TRUE

\* The check of the finding, at the head of each healer; of two that contradict each
\* other the one with the older updated_at goes.
Orphaned(k) == row[k] = "none" /\ index[k] = "none"

\* Whether a finding of a kind still holds of k.
Holds(kind, k) ==
    CASE kind = "orphan" -> Orphaned(k)
      [] kind = "contradiction" -> since[k] # {}
      [] OTHER -> TRUE

\* The next key: its finding is checked again.
Take(r) ==
    \E k \in rem[r].todo :
        LET rest == [rem[r] EXCEPT !.todo = @ \ {k}] IN
        /\ rem[r].pc = "next" /\ Removable(k, rem[r].kind)
        /\ IF ~Holds(rem[r].kind, k) THEN Step(r, rest)
           ELSE IF rem[r].kind # "stale_claim" THEN Step(r, [rest EXCEPT !.pc = "check", !.on = k])
           ELSE IF Exists(k) THEN Step(r, [rest EXCEPT !.pc = "rewrite", !.on = k, !.seen = file[k]])
           ELSE Step(r, rest)
        /\ Reads

\* wiki_path.exists(): forget drops the row of a file that is not there and is done,
\* the healers go on.
CheckFile(r) ==
    LET k == rem[r].on IN
    /\ rem[r].pc = "check"
    /\ IF Exists(k) THEN Step(r, [rem[r] EXCEPT !.pc = "unlink"]) /\ UNCHANGED <<table, history>>
       ELSE IF rem[r].kind \in HealKinds
            THEN Step(r, [rem[r] EXCEPT !.pc = "index"]) /\ UNCHANGED <<table, history>>
       ELSE /\ Step(r, Back(r))
            /\ \/ Writable /\ Drop({k}) /\ UNCHANGED history
               \/ Fault("db") /\ torn' = torn \cup {k} /\ UNCHANGED <<table, owed, gone>>
    /\ UNCHANGED <<file, index>> /\ Alone

\* A file that went missing since raises, and the key is given up.  The healer of
\* orphans is to remove no memory that anybody has.
Unlink(r) ==
    LET k == rem[r].on IN
    /\ rem[r].pc = "unlink"
    /\ Step(r, IF Exists(k) THEN [rem[r] EXCEPT !.pc = "index"] ELSE Back(r))
    /\ file' = [file EXCEPT ![k] = NoFile]
    /\ IF rem[r].kind = "orphan" THEN UNCHANGED <<owed, gone>>
       ELSE /\ gone' = [gone EXCEPT ![k] = @ \cup file[k].entries]
            /\ owed' = [owed EXCEPT ![k] = {}]
    /\ UNCHANGED <<index, table, torn, faults>> /\ Alone

RemoveLine(r) ==
    /\ rem[r].pc = "index"
    /\ index' = [index EXCEPT ![rem[r].on] = "none"]
    /\ Step(r, [rem[r] EXCEPT !.pc = "row"])
    /\ UNCHANGED <<file, table, history>> /\ Alone

\* A heal deletes the row in the transaction of its run.
DeleteRow(r) ==
    LET k == rem[r].on IN
    /\ rem[r].pc = "row"
    /\ IF rem[r].kind \in HealKinds
       THEN /\ Step(r, [Back(r) EXCEPT !.pend = @ \cup {k}])
            /\ UNCHANGED <<table, history>>
       ELSE /\ Step(r, Back(r))
            /\ \/ Writable /\ Drop({k}) /\ UNCHANGED history
               \/ Fault("db") /\ torn' = torn \cup {k} /\ UNCHANGED <<table, owed, gone>>
    /\ UNCHANGED <<file, index>> /\ Alone

\* _heal_stale_claim: the article without a paragraph.
Rewrite(r) ==
    LET k == rem[r].on IN
    /\ rem[r].pc = "rewrite"
    /\ file' = [file EXCEPT ![k] = [entries |-> rem[r].seen.entries, how |-> "strip", who |-> r]]
    /\ Step(r, [rem[r] EXCEPT !.pc = "renew", !.seen = NoFile])
    /\ UNCHANGED <<index, table, history>> /\ Alone

Renew(r) ==
    LET k == rem[r].on IN
    /\ rem[r].pc = "renew"
    /\ Step(r, Back(r))
    /\ \/ Writable /\ Upsert(k, "stale") /\ UNCHANGED history
       \/ Fault("db") /\ torn' = torn \cup {k} /\ UNCHANGED <<table, owed, gone>>
    /\ UNCHANGED <<file, index>> /\ Alone

\* The end; a heal commits, or its deletions are rolled back.
Finish(r) ==
    /\ rem[r].pc = "next" /\ rem[r].todo = {}
    /\ Step(r, Over)
    /\ \/ Drop(rem[r].pend) /\ UNCHANGED history
       \/ /\ rem[r].pend # {} /\ Fault("db") /\ torn' = torn \cup rem[r].pend
          /\ UNCHANGED <<table, owed, gone>>
    /\ UNCHANGED <<file, index>> /\ Alone

-----------------------------------------------------------------------------
(* Readers, time, and processes that die.                                       *)

\* recall counts the access in the row, and any update of a row that does not set
\* updated_at renews it (onupdate).
Recall(k) ==
    /\ row[k] # "none" /\ Exists(k) /\ Writable
    /\ Upsert(k, "stale")
    /\ UNCHANGED <<file, index, rem, history>> /\ Alone

Age(k) ==
    /\ "expire" \in Kinds /\ index[k] = "recent" /\ index' = [index EXCEPT ![k] = "old"]
    /\ UNCHANGED <<file, table, rem, history>> /\ Alone

\* A process dies in the middle of a store, a compile or a removal; its locks go.
Die ==
    /\ Fault("die")
    /\ \/ \E s \in Stores :
             /\ call[s].pc \in {"locked", "written", "indexed"}
             /\ call' = [call EXCEPT ![s] = Call("lost")]
             /\ job' = [job EXCEPT ![s] = NoJob]
             /\ holder' = [holder EXCEPT ![call[s].key] = NoOp]
             /\ torn' = torn \cup {call[s].key} /\ UNCHANGED <<todo, rem>>
       \/ \E c \in Compilers :
             /\ job[c].pc \in {"write", "stamp"} /\ job' = [job EXCEPT ![c] = NoJob]
             /\ todo' = [w \in Sweeps |-> IF w = c THEN {} ELSE todo[w]]
             /\ holder' = [holder EXCEPT ![job[c].key] = NoOp]
             /\ torn' = torn \cup {job[c].key} /\ UNCHANGED <<call, rem>>
       \/ \E r \in Removals :
             /\ rem[r].pc \in {"check", "unlink", "index", "row", "rewrite", "renew", "next"}
             /\ Step(r, Over)
             /\ torn' = torn \cup rem[r].pend
                             \cup IF rem[r].pc = "next" THEN {} ELSE {rem[r].on}
             /\ UNCHANGED <<call, job, todo, holder>>
    /\ UNCHANGED <<file, index, table, owed, gone>>

Storing(s) == (\E k \in Keys : Lock(s, k)) \/ Append(s) \/ WriteLine(s) \/ WriteRow(s)
Compiling(c) == Fallback(c) \/ Compiled(c) \/ WriteBack(c) \/ Stamp(c)
Sweeping(w) == ListUncompiled(w) \/ \E k \in Keys : ReadArticle(w, k)
Removing(r) ==
    \/ Request(r) \/ DetectOrphans(r) \/ AcquireHealLock(r) \/ Take(r) \/ CheckFile(r)
    \/ Unlink(r) \/ RemoveLine(r) \/ DeleteRow(r) \/ Rewrite(r) \/ Renew(r) \/ Finish(r)

Next ==
    \/ \E s \in Stores : Storing(s)
    \/ \E c \in Compilers : Compiling(c)
    \/ \E w \in Sweeps : Sweeping(w)
    \/ \E r \in Removals : Removing(r)
    \/ \E k \in Keys : Recall(k) \/ Age(k)
    \/ Die

Spec == Init /\ [][Next]_vars

-----------------------------------------------------------------------------
(* Properties.                                                                  *)

\* Nobody works on k.
Quiet(k) ==
    /\ holder[k] = NoOp /\ On(k) = {}
    /\ \A c \in Compilers : job[c].pc = "none" \/ job[c].key # k
    /\ \A r \in Removals : k \notin rem[r].pend

\* An article has every entry whose store returned, whatever is compiled, swept or
\* healed meanwhile ("the background compile only ever upgrades it (or no-ops on
\* failure)"), until the memory is removed; and none that was removed.
EntriesAreKept ==
    \A k \in Keys : owed[k] \subseteq file[k].entries /\ file[k].entries \cap gone[k] = {}

\* An article has its line and its row, and no line or row is without its article
\* ("so metadata stays consistent with the wiki"), unless a fault came between; and the row of
\* an article that no compile has written says so, since compact "catches every topic the
\* fire-and-forget background path missed".
TripleAgrees ==
    \A k \in Keys \ torn :
        Quiet(k) => /\ Exists(k) <=> index[k] # "none"
                    /\ Exists(k) <=> row[k] # "none"
                    /\ Exists(k) /\ file[k].how # "compile" => row[k] = "stale"
=============================================================================
