------------------------------ MODULE ToolingOps ------------------------------
(* Installing, removing and updating the tools of the provider CLIs               *)
(* (services/tooling/, api/tooling_router.py).  POST /tooling/execute makes an     *)
(* operation: under its provider's lock and one of the slots it runs a command     *)
(* and has a thread verify what that did.  The pages of the Tooling screen are     *)
(* collected by other threads, which probe each CLI and keep what they saw in one  *)
(* cache; an operation that ends, however it ends, empties that cache.             *)
(*                                                                                 *)
(* What a CLI has is an external host that only these operations change.  The      *)
(* expiry of cache entries is left out: an entry lives until something clears it.  *)
EXTENDS ToolingAdapters, FiniteSets, Sequences, SequencesExt

VARIABLES
    host,       \* what each CLI has: whether it is on the PATH, and its items
    pages,      \* the cached pages
    lists,      \* the cached lists of the adapters that keep one
    ring,       \* the operations that are retained, oldest first, each with its task
    req,        \* the request of an operation
    status,     \* its status
    pc,         \* where its task is
    cancelling, \* operations whose task was cancelled and has yet to hear of it
    why,        \* what made the runner give up on the command
    child,      \* the process of the command
    check,      \* the thread that verifies
    reader,     \* what each reader is doing
    cut         \* history: operations cancelled while the runner was giving up

queue == <<ring, req, cancelling>>
vars == <<host, pages, lists, ring, req, status, pc, cancelling, why, child, check, reader, cut>>

Blank == [cli |-> FALSE, items |-> {}]
ListCached == Adapters \cap {"claude_code", "codex"}

Waiting == {"lock", "slot"}
Running == {"work", "hung", "drain", "reap"}
Holding == {"slot", "verify"} \cup Running
Alive == {"fresh", "acted", "mute"}

TypeOK ==
    /\ host \in [Adapters -> Look]
    /\ pages \in [Collections -> {None} \cup [looks : [Adapters -> Look], suspect : BOOLEAN]]
    /\ lists \in [ListCached -> {None} \cup [look : Look, suspect : BOOLEAN]]
    /\ ring \in Seq(Ops)
    /\ req \in [Ops -> {None} \cup Request]
    /\ status \in [Ops -> {"none", "queued", "running", "verifying", "succeeded", "failed",
                           "cancelled"}]
    /\ pc \in [Ops -> {"new", "end"} \cup Waiting \cup Holding]
    /\ cancelling \subseteq Ops
    /\ why \in [Ops -> {"none", "timeout", "cancel"}]
    /\ child \in [Ops -> Alive \cup {"none", "ok", "bad", "killed"}]
    /\ check \in [Ops -> [pc : {"none", "asked", "read", "done"}, look : Look, suspect : BOOLEAN]]
    /\ reader \in [Readers -> [pc : {"idle", "look", "keep"}, on : KnownCollections, scan : BOOLEAN,
                               todo : SUBSET Adapters, at : Adapters,
                               looks : [Adapters -> Look], suspect : BOOLEAN]]
    /\ cut \subseteq Ops

\* The adapters that a page is made of.
CatalogProviders == {"claude_code", "codex", "generic_skills"}
Scope(c) == IF c = "catalog" THEN Adapters \cap CatalogProviders ELSE Adapters

Prov(o) == req[o].provider
Some(S) == CHOOSE x \in S : TRUE

NoCheck == [pc |-> "none", look |-> Blank, suspect |-> FALSE]
Idle == [pc |-> "idle", on |-> Some(KnownCollections), scan |-> FALSE, todo |-> {},
         at |-> Some(Adapters), looks |-> [p \in Adapters |-> Blank], suspect |-> FALSE]

Init ==
    /\ host \in Hosts
    /\ pages = [c \in Collections |-> None] /\ lists = [p \in ListCached |-> None]
    /\ ring = <<>> /\ req = [o \in Ops |-> None]
    /\ status = [o \in Ops |-> "none"] /\ pc = [o \in Ops |-> "new"]
    /\ cancelling = {} /\ why = [o \in Ops |-> "none"]
    /\ child = [o \in Ops |-> "none"] /\ check = [o \in Ops |-> NoCheck]
    /\ reader = [r \in Readers |-> Idle] /\ cut = {}

-----------------------------------------------------------------------------
(* What the adapters see.                                                         *)

\* detect() and list_installed() as they would find the host now.
Seen(p, answers) == [cli |-> host[p].cli, items |-> Listed(p, host[p], answers)]
Truth(p) == Seen(p, TRUE)
Answers == IF "blind" \in Faults THEN BOOLEAN ELSE {TRUE}

\* What it was to achieve, as far as anyone can tell an update from none.
Done(r) ==
    CASE r.action \in {"install", "update"} -> r.target \in Truth(r.provider).items
      [] r.action = "remove" -> r.target \notin Truth(r.provider).items
      [] r.action = "install_cli" -> host[r.provider].cli
      [] OTHER -> TRUE

-----------------------------------------------------------------------------
(* POST /tooling/execute and cancel.                                             *)

\* The route answers 400 to what is not in the catalog, or the adapter cannot do or plan.
ResolveCatalog(r) ==
    r.catalog => r.action = "install" /\ r.target \in Catalog
Capable(r) == Can(r.provider, host[r.provider])[r.action]
ResolveAndValidate(r) == ResolveCatalog(r) /\ Capable(r) /\ Plans(r)

\* The oldest operation goes from the ring, with its task, whether it is over or not.
Retained(s) == IF Len(s) > Ring THEN SubSeq(s, Len(s) - Ring + 1, Len(s)) ELSE s

Submit(o, r) ==
    /\ pc[o] = "new" /\ ResolveAndValidate(r)
    /\ req' = [req EXCEPT ![o] = r]
    /\ ring' = Retained(Append(ring, o))
    /\ status' = [status EXCEPT ![o] = "queued"]
    /\ pc' = [pc EXCEPT ![o] = "lock"]
    /\ UNCHANGED <<host, pages, lists, cancelling, why, child, check, reader, cut>>

\* The task is told when it next runs; the status of an operation that is over says so.
Cancel(o) ==
    /\ o \in ToSet(ring) /\ pc[o] \notin {"new", "end"} /\ o \notin cancelling
    /\ cancelling' = cancelling \cup {o}
    /\ UNCHANGED <<host, pages, lists, ring, req, status, pc, why, child, check, reader, cut>>

-----------------------------------------------------------------------------
(* The task of an operation.                                                     *)

Steps(o) == o \notin cancelling
Goes(o, to) == pc' = [pc EXCEPT ![o] = to]

\* A page in the making that has seen something, or a list that is yet to be kept, may
\* be older than what the operation did.
Crossed(r) ==
    IF reader[r].pc # "idle" /\ reader[r].todo # Scope(reader[r].on)
    THEN [reader[r] EXCEPT !.suspect = TRUE] ELSE reader[r]

\* The end of _run: a final status, the lock and the slot given back, the cache emptied.
Ends(o, s) ==
    /\ status' = [status EXCEPT ![o] = s]
    /\ Goes(o, "end")
    /\ pages' = [c \in Collections |-> None] /\ lists' = [p \in ListCached |-> None]
    /\ reader' = [r \in Readers |-> Crossed(r)]
    /\ check' = [x \in Ops |-> IF check[x].pc = "read" THEN [check[x] EXCEPT !.suspect = TRUE]
                                                       ELSE check[x]]
    /\ why' = [why EXCEPT ![o] = "none"]
    /\ child' = [child EXCEPT ![o] = IF @ \in Alive THEN @ ELSE "none"]

\* The lock of a cancelled operation is not given back.
TakeLockLeaks(o) ==
    /\ pc[o] = "lock" /\ Steps(o)
    /\ \A x \in Ops \ {o} :
          pc[x] \in Holding \/ status[x] = "cancelled" => Prov(x) # Prov(o)
    /\ Goes(o, "slot")
    /\ UNCHANGED <<host, pages, lists, queue, status, why, child, check, reader, cut>>

TakeLock(o) ==
    /\ pc[o] = "lock" /\ Steps(o)
    /\ \A x \in Ops : pc[x] \in Holding => Prov(x) # Prov(o)
    /\ Goes(o, "slot")
    /\ UNCHANGED <<host, pages, lists, queue, status, why, child, check, reader, cut>>

InSlot == {o \in Ops : pc[o] \in Holding \ {"slot"}}

TakeSlot(o) ==
    /\ pc[o] = "slot" /\ Steps(o) /\ Cardinality(InSlot) < Slots
    /\ Goes(o, "work")
    /\ status' = [status EXCEPT ![o] = "running"]
    /\ child' = [child EXCEPT ![o] = "fresh"]
    /\ UNCHANGED <<host, pages, lists, queue, why, check, reader, cut>>

\* The runner refuses the argv, or the OS the spawn.
SpawnFails(o) ==
    /\ pc[o] = "slot" /\ Steps(o) /\ Cardinality(InSlot) < Slots
    /\ Ends(o, "failed")
    /\ UNCHANGED <<host, queue, cut>>

\* Both pipes are at their end and the process gave an exit code.
Collect(o) ==
    /\ pc[o] \in {"work", "hung"} /\ Steps(o)
    /\ \/ /\ child[o] = "bad" /\ Ends(o, "failed")
          /\ UNCHANGED <<host, queue, cut>>
       \/ /\ child[o] = "ok" /\ Goes(o, "verify")
          /\ status' = [status EXCEPT ![o] = "verifying"]
          /\ check' = [check EXCEPT ![o].pc = "asked"]
          /\ UNCHANGED <<host, pages, lists, queue, why, child, reader, cut>>

\* Nothing bounds the wait for the exit code once the pipes are at their end.
Drained(o) ==
    /\ pc[o] = "work" /\ Steps(o) /\ child[o] = "mute"
    /\ Goes(o, "hung")
    /\ UNCHANGED <<host, pages, lists, queue, status, why, child, check, reader, cut>>

Timeout(o) ==
    /\ pc[o] = "work" /\ Steps(o) /\ child[o] \in {"fresh", "acted"}
    /\ Goes(o, "drain")
    /\ why' = [why EXCEPT ![o] = "timeout"]
    /\ UNCHANGED <<host, pages, lists, queue, status, child, check, reader, cut>>

\* The readers of the pipes have ended: _kill_and_reap kills.
Kill(o) ==
    /\ pc[o] = "drain" /\ Steps(o)
    /\ Goes(o, "reap")
    /\ child' = [child EXCEPT ![o] = IF @ \in Alive THEN "killed" ELSE @]
    /\ UNCHANGED <<host, pages, lists, queue, status, why, check, reader, cut>>

Reap(o) ==
    /\ pc[o] = "reap" /\ Steps(o)
    /\ Ends(o, IF why[o] = "timeout" THEN "failed" ELSE "cancelled")
    /\ UNCHANGED <<host, queue, cut>>

\* The CancelledError is raised where the task awaits.  Where the runner awaits its pipes
\* it gives up on the command; where it is already giving up, the error passes it by.
Deliver(o) ==
    /\ o \in cancelling /\ cancelling' = cancelling \ {o}
    /\ \/ /\ pc[o] \in {"work", "hung"}
          /\ Goes(o, "drain") /\ why' = [why EXCEPT ![o] = "cancel"]
          /\ UNCHANGED <<host, pages, lists, ring, req, status, child, check, reader, cut>>
       \/ /\ pc[o] \in Waiting \cup {"verify", "reap"}
          /\ Ends(o, "cancelled")
          /\ UNCHANGED <<host, ring, req, cut>>
       \/ /\ pc[o] = "drain"
          /\ Ends(o, "cancelled") /\ cut' = cut \cup {o}
          /\ UNCHANGED <<host, ring, req>>

\* The verification takes the list from the cache.
VerifyCached(o) ==
    /\ check[o].pc = "asked"
    /\ LET look == IF Prov(o) \in ListCached /\ lists[Prov(o)] # None
                   THEN lists[Prov(o)].look ELSE Truth(Prov(o))
       IN check' = [check EXCEPT ![o] = [pc |-> "read", look |-> look, suspect |-> FALSE]]
    /\ UNCHANGED <<host, pages, lists, queue, status, pc, why, child, reader, cut>>

\* asyncio.to_thread: the thread goes on when the operation is cancelled meanwhile.
\* The list is read past the cache, and then kept in it.
VerifyRead(o) ==
    /\ check[o].pc = "asked"
    /\ \E answers \in Answers :
          LET look == Seen(Prov(o), answers)
          IN check' = [check EXCEPT ![o] = [pc |-> "read", look |-> look,
                                            suspect |-> look # Truth(Prov(o))]]
    /\ UNCHANGED <<host, pages, lists, queue, status, pc, why, child, reader, cut>>

VerifyKeep(o) ==
    /\ check[o].pc = "read"
    /\ check' = [check EXCEPT ![o].pc = "done"]
    /\ lists' = IF Prov(o) \in ListCached
                THEN [lists EXCEPT ![Prov(o)] = [look |-> check[o].look, suspect |-> check[o].suspect]]
                ELSE lists
    /\ UNCHANGED <<host, pages, queue, status, pc, why, child, reader, cut>>

Verified(o) ==
    /\ pc[o] = "verify" /\ Steps(o) /\ check[o].pc = "done"
    /\ Ends(o, IF Verifies(req[o], check[o].look) THEN "succeeded" ELSE "failed")
    /\ UNCHANGED <<host, queue, cut>>

-----------------------------------------------------------------------------
(* The command's process (external).                                             *)

ChildActs(o) ==
    /\ child[o] = "fresh"
    /\ child' = [child EXCEPT ![o] = "acted"]
    /\ host' = [host EXCEPT ![Prov(o)] = Effect(req[o], @)]
    /\ UNCHANGED <<pages, lists, queue, status, pc, why, check, reader, cut>>

ChildExits(o) ==
    /\ \/ child[o] = "fresh" /\ \E x \in {"bad"} \cup (IF "noop" \in Faults THEN {"ok"} ELSE {}) :
                                   child' = [child EXCEPT ![o] = x]
       \/ child[o] \in {"acted", "mute"} /\ \E x \in {"ok", "bad"} : child' = [child EXCEPT ![o] = x]
    /\ UNCHANGED <<host, pages, lists, queue, status, pc, why, check, reader, cut>>

ChildMutes(o) ==
    /\ "mute" \in Faults /\ child[o] = "acted"
    /\ child' = [child EXCEPT ![o] = "mute"]
    /\ UNCHANGED <<host, pages, lists, queue, status, pc, why, check, reader, cut>>

-----------------------------------------------------------------------------
(* The collectors of the pages, each in a thread of its own.                     *)

\* What a page shows of what its collector saw of the adapters.
ExtensionsPage(looks) == [p \in Adapters |-> looks[p].items]
CatalogPage(looks) ==
    [p \in Scope("catalog") |-> [installed |-> looks[p].cli, names |-> looks[p].items \cap Catalog,
                                 supported |-> Can(p, looks[p])["install"]]]
AdaptersPage(looks) == [p \in Adapters |-> [installed |-> looks[p].cli, can |-> Can(p, looks[p])]]
ProvidersPage(looks) == [p \in Adapters |-> looks[p].cli]

Page(c, looks) ==
    CASE c = "extensions" -> ExtensionsPage(looks)
      [] c = "catalog" -> CatalogPage(looks)
      [] c = "adapters" -> AdaptersPage(looks)
      [] OTHER -> ProvidersPage(looks)

Collecting(c, scan) == [Idle EXCEPT !.pc = "look", !.on = c, !.scan = scan, !.todo = Scope(c)]

\* A page that is cached is served as it is.
Get(r, c) ==
    /\ reader[r].pc = "idle" /\ pages[c] = None
    /\ reader' = [reader EXCEPT ![r] = Collecting(c, FALSE)]
    /\ UNCHANGED <<host, pages, lists, queue, status, pc, why, child, check, cut>>

\* POST /tooling/scan empties the cache and collects providers, then extensions, anew.
Scan(r) ==
    /\ {"providers", "extensions"} \subseteq Collections /\ reader[r].pc = "idle"
    /\ pages' = [c \in Collections |-> None] /\ lists' = [p \in ListCached |-> None]
    /\ reader' = [reader EXCEPT ![r] = Collecting("providers", TRUE)]
    /\ UNCHANGED <<host, queue, status, pc, why, child, check, cut>>

Lists(r, p) == p \in ListCached /\ reader[r].on \in {"extensions", "catalog"}

Saw(r, p, look, suspect) ==
    [reader[r] EXCEPT !.todo = @ \ {p}, !.looks = [@ EXCEPT ![p] = look],
                      !.suspect = @ \/ suspect]

\* The next adapter, from its cached list or from its CLI.
LookAt(r, p) ==
    /\ reader[r].pc = "look" /\ p \in reader[r].todo
    /\ \/ /\ Lists(r, p) /\ lists[p] # None
          /\ reader' = [reader EXCEPT ![r] = Saw(r, p, lists[p].look, lists[p].suspect)]
       \/ /\ ~(Lists(r, p) /\ lists[p] # None)
          /\ \E answers \in Answers :
                LET look == Seen(p, answers)
                    seen == Saw(r, p, look, look # Truth(p))
                IN reader' = [reader EXCEPT ![r] = IF Lists(r, p)
                                                   THEN [seen EXCEPT !.pc = "keep", !.at = p]
                                                   ELSE seen]
    /\ UNCHANGED <<host, pages, lists, queue, status, pc, why, child, check, cut>>

KeepList(r) ==
    /\ reader[r].pc = "keep"
    /\ lists' = [lists EXCEPT ![reader[r].at] = [look |-> reader[r].looks[reader[r].at],
                                                 suspect |-> reader[r].suspect]]
    /\ reader' = [reader EXCEPT ![r].pc = "look"]
    /\ UNCHANGED <<host, pages, queue, status, pc, why, child, check, cut>>

Publish(r) ==
    /\ reader[r].pc = "look" /\ reader[r].todo = {}
    /\ pages' = [pages EXCEPT ![reader[r].on] = [looks |-> reader[r].looks,
                                                 suspect |-> reader[r].suspect]]
    /\ reader' = [reader EXCEPT ![r] = IF reader[r].scan /\ reader[r].on = "providers"
                                       THEN Collecting("extensions", TRUE) ELSE Idle]
    /\ UNCHANGED <<host, lists, queue, status, pc, why, child, check, cut>>

-----------------------------------------------------------------------------

Task(o) ==
    \/ TakeLock(o) \/ TakeSlot(o) \/ SpawnFails(o) \/ Collect(o) \/ Drained(o) \/ Timeout(o)
    \/ Kill(o) \/ Reap(o) \/ Deliver(o) \/ Verified(o)

Verification(o) == VerifyRead(o) \/ VerifyKeep(o)

Child(o) == ChildActs(o) \/ ChildExits(o) \/ ChildMutes(o)

Read(r) ==
    \/ \E c \in Collections : Get(r, c)
    \/ Scan(r) \/ KeepList(r) \/ Publish(r)
    \/ \E p \in Adapters : LookAt(r, p)

Next ==
    \/ \E o \in Ops : \/ \E q \in Requests : Submit(o, q)
                      \/ Cancel(o) \/ Task(o) \/ Verification(o) \/ Child(o)
    \/ \E r \in Readers : Read(r)

Spec == Init /\ [][Next]_vars

\* The event loop runs tasks, threads run, timeouts expire.
Fairness == \A o \in Ops : WF_vars(Task(o)) /\ WF_vars(Verification(o))

FairSpec == Spec /\ Fairness

-----------------------------------------------------------------------------
(* Properties.                                                                  *)

\* One command at a time changes a CLI, and no command outlives its operation ("a
\* caller-initiated cancel cannot orphan a process"; "two operations against the same
\* provider never race each other's state"), unless a cancel reached the operation
\* while the runner was giving up on it.
OneWriter ==
    \A o \in Ops \ cut : child[o] \in Alive =>
        /\ pc[o] \in Running
        /\ \A x \in Ops \ cut : child[x] \in Alive /\ Prov(x) = Prov(o) => x = o

\* A verified operation that ends, but by a cancel, succeeded just if what it was to do
\* is done, whatever ran before it, beside it and half-way, unless its list could not be
\* read or a command got loose.
Verdict(o) ==
    /\ pc[o] = "verify" /\ pc'[o] = "end" /\ status'[o] # "cancelled"
    /\ ~check[o].suspect /\ cut = {}
    => (status'[o] = "succeeded" <=> Done(req[o]))

\* Where nobody holds a CLI, what the cache says of it is so ("on any terminal outcome
\* the tooling caches are invalidated so the next read reflects reality"), unless it
\* comes of a list that could not be read or of a probe from before an operation's end.
CacheReflects ==
    cut = {} =>
    \A p \in Adapters : (\A o \in Ops : pc[o] \in Holding => Prov(o) # p) =>
        /\ p \in ListCached /\ lists[p] # None /\ ~lists[p].suspect => lists[p].look = Truth(p)
        /\ \A c \in Collections : pages[c] # None /\ ~pages[c].suspect =>
              Page(c, pages[c].looks) = Page(c, [pages[c].looks EXCEPT ![p] = Truth(p)])

\* Every operation comes to an end, unless its command closes its output and stays.
OpSettles == \A o \in Ops : (pc[o] = "lock") ~> (pc[o] = "end")
=============================================================================
