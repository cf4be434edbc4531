-------------------------- MODULE TerminalLifecycle --------------------------
(* The life of terminals (services/terminal_service.py, session_service.py,       *)
(* flow_service.py, cleanup_service.py): a terminal is a tmux window, a database   *)
(* row, a FIFO reader and a provider instance, made and removed one by one by      *)
(* callers that share nothing but these.                                           *)
(*                                                                                 *)
(* create_terminal runs on the event loop and holds it from its session check to   *)
(* its await of initialize(), and again in its rollback; an action is one of the    *)
(* four things made, as threads see it.  Deletions run in threads.  A terminal is   *)
(* named by the call that creates it: ids and window names are never reused.        *)
EXTENDS Naturals, FiniteSets

CONSTANTS
    Calls,          \* calls of create_terminal, and so terminals
    Settled,        \* those that were over, and had made a session, before it all begins
    Names,          \* session names
    Kinds,          \* who calls
    Threads,        \* the threads of DELETE requests
    NoCall,
    Overlap,        \* whether a session is deleted or recycled while others use it
    Faults, MaxFaults,
    MaxAged         \* how many terminals retention finds at a time

\* POST /sessions, a flow, POST /sessions/{name}/terminals, the same deferred.
AllKinds == {"session", "flow", "join", "assign"}
FaultKinds == {"init", "row", "kill", "exit", "blocked", "crash", "notice"}

ASSUME LifecycleAssumption ==
    /\ NoCall \notin Calls /\ Calls \cap Threads = {} /\ Settled \subseteq Calls /\ Names # {}
    /\ Kinds \subseteq AllKinds /\ Overlap \in BOOLEAN
    /\ Faults \subseteq FaultKinds /\ MaxFaults \in Nat /\ MaxAged \in Nat

VARIABLES
    \* what a terminal is made of
    windows,    \* tmux windows; a session is the windows of its name
    rows,       \* the terminals table
    readers,    \* FIFO readers and the status entries fed by them
    provs,      \* provider instances
    home,       \* the session a terminal was created in, by name
    \* the forwarded environment of a session
    env,        \* whose variables are stored under a name
    founder,    \* the call that created the session that last had the name
    \* the calls and threads
    call,       \* of each call, its kind and where it is
    loop,       \* the call that holds the event loop
    del,        \* a run of delete_terminal or delete_session per thread
    told,       \* what became of the failure notices to the callers of workers
    \* startup
    restoring,  \* rows restore_terminal_monitors has yet to visit
    sweeping,   \* rows cleanup_old_data has listed and not yet visited
    aged,       \* rows whose last_active is before its cutoff
    \* history
    deleted,    \* workers somebody asked to delete before they had their task
    left,       \* terminals of which something may be left, and no code removes it
    faults

made == <<windows, rows, readers, provs>>
history == <<deleted, left>>
session == <<home, env, founder>>
startup == <<restoring, sweeping, aged>>
vars == <<windows, rows, readers, provs, home, env, founder, call, loop, del, told,
          restoring, sweeping, aged, deleted, left, faults>>

Deleting == Threads \cup Calls      \* a deferred call deletes its own worker
Active == {"made", "written", "init", "rollback", "deferred", "sending", "notify", "deleting"}
NoDeletion == [pc |-> "idle", on |-> NoCall, todo |-> {}, name |-> CHOOSE n \in Names : TRUE,
               whole |-> FALSE, alive |-> FALSE]

CallType == [kind : AllKinds, pc : Active \cup {"unused", "ready", "failed", "gone", "lost"}]
DelType ==
    {r \in [pc : {"idle", "list", "next", "stop", "kill", "row", "session", "env"},
            on : Calls \cup {NoCall}, todo : SUBSET Calls, name : Names,
            whole : BOOLEAN, alive : BOOLEAN] :
        r.pc \in {"stop", "kill", "row"} => r.on \in Calls}

TypeOK ==
    /\ windows \subseteq Calls /\ rows \subseteq Calls
    /\ readers \subseteq Calls /\ provs \subseteq Calls
    /\ home \in [Calls -> Names]
    /\ env \in [Names -> Calls \cup {NoCall}] /\ founder \in [Names -> Calls \cup {NoCall}]
    /\ call \in [Calls -> CallType]
    /\ loop \in Calls \cup {NoCall}
    /\ loop # NoCall => call[loop].pc \in {"made", "written", "rollback"}
    /\ del \in [Deleting -> DelType]
    /\ told \subseteq Calls \X {"sent", "failed"}
    /\ restoring \subseteq Calls /\ sweeping \subseteq Calls /\ aged \subseteq Calls
    /\ deleted \subseteq Calls /\ left \subseteq Calls
    /\ faults \in 0..MaxFaults

Init ==
    /\ windows = Settled /\ rows = Settled /\ readers = Settled /\ provs = Settled
    /\ home \in [Calls -> {CHOOSE n \in Names : TRUE}]
    /\ founder \in [Names -> IF Settled = {} THEN {NoCall} ELSE Settled]
    /\ \E forwarded \in BOOLEAN :
          env = [n \in Names |-> IF forwarded THEN founder[n] ELSE NoCall]
    /\ call = [c \in Calls |-> [kind |-> "session",
                                pc |-> IF c \in Settled THEN "ready" ELSE "unused"]]
    /\ loop = NoCall /\ del = [d \in Deleting |-> NoDeletion]
    /\ told = {} /\ restoring = {} /\ sweeping = {} /\ aged = {}
    /\ deleted = {} /\ left = {} /\ faults = 0

Fault(kind) == kind \in Faults /\ faults < MaxFaults /\ faults' = faults + 1

Of(n, S) == {t \in S : home[t] = n}
session_exists(n) == Of(n, windows) # {}
list_terminals_by_session(n) == Of(n, rows)

Free == loop = NoCall
At(c, pc) == call[c].pc = pc
GoTo(c, pc) == call' = [call EXCEPT ![c].pc = pc]

\* With Overlap = FALSE nobody makes, recycles or deletes a session while anybody
\* else works on its name, and nobody joins it meanwhile.
Owner(c) == call[c].kind \in {"session", "flow"}
Exclusive(n) ==
    \/ Overlap
    \/ /\ \A c \in Calls : home[c] = n => call[c].pc \notin Active
       /\ \A d \in Threads : del[d].name = n => del[d].pc = "idle"
Steady(n) ==
    \/ Overlap
    \/ /\ \A c \in Calls : home[c] = n /\ Owner(c) => call[c].pc \notin Active
       /\ \A d \in Threads : del[d].name = n /\ del[d].whole => del[d].pc = "idle"

-----------------------------------------------------------------------------
(* create_terminal.                                                             *)

\* Begin a call; f is where its session check leaves it.
Begin(c, kind, n, pc) ==
    /\ Free /\ restoring = {} /\ call[c].pc = "unused"
    /\ call' = [call EXCEPT ![c] = [kind |-> kind, pc |-> pc]]
    /\ home' = [home EXCEPT ![c] = n]
    /\ loop' = IF pc = "made" THEN c ELSE NoCall
    /\ UNCHANGED <<del, told, startup, history, faults>>

\* What is stored under the name: clear_session_env, set_session_env.
Stored(n, forwarded) == forwarded

MakeSession(c, n, forwarded) ==
    /\ windows' = (windows \ Of(n, windows)) \cup {c}
    /\ founder' = [founder EXCEPT ![n] = c]
    /\ env' = [env EXCEPT ![n] = Stored(n, forwarded)]

Refuse == UNCHANGED <<made, env, founder>>

CreateSession(c, n) ==
    /\ Exclusive(n)
    /\ IF session_exists(n)
       THEN Begin(c, "session", n, "failed") /\ Refuse
       ELSE /\ Begin(c, "session", n, "made")
            /\ \E forwarded \in {c, NoCall} : MakeSession(c, n, forwarded)
            /\ UNCHANGED <<rows, readers, provs>>

\* execute_flow: a session whose first terminal, the conductor, is busy is left alone,
\* any other is recycled.  Whether it is busy is left open.
ExecuteFlow(c, n) ==
    /\ Exclusive(n)
    /\ \/ list_terminals_by_session(n) # {} /\ session_exists(n)
          /\ Begin(c, "flow", n, "failed") /\ Refuse
       \/ LET old == IF session_exists(n) THEN list_terminals_by_session(n) ELSE {} IN
          /\ Begin(c, "flow", n, "made") /\ MakeSession(c, n, NoCall)
          /\ provs' = provs \ old /\ readers' = readers \ old /\ rows' = rows \ old

\* new_session = False: the window inherits the environment stored for the session.
JoinSession(c, n, kind) ==
    /\ Steady(n)
    /\ IF ~session_exists(n)
       THEN Begin(c, kind, n, "failed") /\ Refuse
       ELSE /\ Begin(c, kind, n, "made") /\ windows' = windows \cup {c}
            /\ UNCHANGED <<rows, readers, provs, env, founder>>

Start(c) ==
    \E n \in Names :
        \/ "session" \in Kinds /\ CreateSession(c, n)
        \/ "flow" \in Kinds /\ ExecuteFlow(c, n)
        \/ \E kind \in Kinds \cap {"join", "assign"} : JoinSession(c, n, kind)

InCall == UNCHANGED <<session, del, startup, history>>

\* db_create_terminal.
WriteRow(c) ==
    /\ loop = c /\ At(c, "made")
    /\ \/ rows' = rows \cup {c} /\ GoTo(c, "written") /\ UNCHANGED faults
       \/ Fault("row") /\ GoTo(c, "rollback") /\ UNCHANGED rows
    /\ UNCHANGED <<windows, readers, provs, loop, told>> /\ InCall

\* create_reader; pipe_pane raises without a window; create_provider; and the call
\* awaits initialize(), or leaves it to a task of its own.
StartReader(c) ==
    /\ loop = c /\ At(c, "written")
    /\ readers' = readers \cup {c}
    /\ IF c \notin windows
       THEN GoTo(c, "rollback") /\ UNCHANGED <<provs, loop>>
       ELSE /\ provs' = provs \cup {c} /\ loop' = NoCall
            /\ GoTo(c, IF call[c].kind = "assign" THEN "deferred" ELSE "init")
    /\ UNCHANGED <<windows, rows, told, faults>> /\ InCall

\* initialize() returns.
Initialized(c) ==
    /\ Free /\ c \in windows
    /\ \/ At(c, "init") /\ GoTo(c, "ready")
       \/ At(c, "deferred") /\ GoTo(c, "sending")
    /\ UNCHANGED <<made, loop, told, faults>> /\ InCall

\* It raises: a timeout, or the window is gone.
InitRaises(c) ==
    /\ Free
    /\ \/ c \notin windows /\ UNCHANGED faults
       \/ Fault("init")
    /\ \/ At(c, "init") /\ GoTo(c, "rollback") /\ loop' = c
       \/ At(c, "deferred") /\ GoTo(c, "notify") /\ UNCHANGED loop
    /\ UNCHANGED <<made, told>> /\ InCall

\* Mutant: only a session is torn down.
RolledBackSession(c) == IF Owner(c) THEN Of(home[c], windows) ELSE {}

\* The windows the rollback kills: a session is killed by its name.
RolledBack(c) == IF Owner(c) THEN Of(home[c], windows) ELSE {c}

\* Mutant: the row goes with the session only.
ForgottenSession(c) == IF Owner(c) THEN {c} ELSE {}

\* The rows it deletes.
Forgotten(c) == {c}

\* The except branch.
Rollback(c) ==
    /\ loop = c /\ At(c, "rollback")
    /\ readers' = readers \ {c} /\ provs' = provs \ {c} /\ rows' = rows \ Forgotten(c)
    /\ \/ /\ windows' = windows \ RolledBack(c)
          /\ UNCHANGED <<left, faults>>
       \/ Fault("kill") /\ left' = left \cup {c} /\ UNCHANGED windows
    /\ env' = IF Owner(c) THEN [env EXCEPT ![home[c]] = NoCall] ELSE env
    /\ GoTo(c, "failed") /\ loop' = NoCall
    /\ UNCHANGED <<home, founder, del, told, startup, deleted>>

-----------------------------------------------------------------------------
(* _schedule_deferred_init: the task that outlives the call.                    *)

InTask == UNCHANGED <<windows, readers, session, loop, startup, history>>

\* Mutant: the worker is deleted first.
NoticeLate(c) == {told}

\* A notice to the caller that the row names.  It is best-effort: that the row cannot be
\* read or the message not be queued is logged, and not counted as a fault here.
Notice(c) ==
    {IF c \in rows THEN told \cup {<<c, "sent">>} ELSE told}
    \cup {told \cup {<<c, "failed">>} : kind \in Faults \cap {"notice"}}

\* send_input reads the row and types into the window; a worker that shows a prompt
\* is left alive, and the caller told.
SendInput(c) ==
    /\ At(c, "sending")
    /\ \/ c \in rows \cap windows /\ GoTo(c, "ready") /\ UNCHANGED <<told, faults>>
       \/ Fault("blocked") /\ told' \in Notice(c) /\ GoTo(c, "ready")
       \/ c \notin rows \cap windows /\ GoTo(c, "notify") /\ UNCHANGED <<told, faults>>
    /\ UNCHANGED <<rows, provs, del>> /\ InTask

\* _notify_caller_of_deferred_failure: the caller is in the row, and is told before
\* the worker is deleted, which it is also when the notice fails.
NotifyCaller(c) ==
    /\ At(c, "notify")
    /\ told' \in Notice(c)
    /\ del' = [del EXCEPT ![c] = [NoDeletion EXCEPT !.pc = "next", !.todo = {c},
                                                    !.name = home[c]]]
    /\ GoTo(c, "deleting")
    /\ UNCHANGED <<rows, provs, faults>> /\ InTask

WorkerDeleted(c) ==
    /\ At(c, "deleting") /\ del[c].pc = "idle" /\ GoTo(c, "gone")
    /\ UNCHANGED <<rows, provs, del, told, faults>> /\ InTask

-----------------------------------------------------------------------------
(* delete_terminal and delete_session, in a thread.                             *)

InThread == UNCHANGED <<home, founder, call, loop, told, startup>>
Delete(d, r) == del' = [del EXCEPT ![d] = r]

Unready(S) == {t \in S : call[t].kind = "assign" /\ call[t].pc \in Active}

RequestTerminal(d, t) ==
    /\ Free /\ restoring = {} /\ del[d].pc = "idle" /\ t \in rows
    /\ Delete(d, [NoDeletion EXCEPT !.pc = "next", !.todo = {t}, !.name = home[t]])
    /\ deleted' = deleted \cup Unready({t})
    /\ UNCHANGED <<made, env, left, faults>> /\ InThread

\* session_alive is read first, the rows next.
RequestSession(d, n) ==
    /\ Free /\ restoring = {} /\ del[d].pc = "idle" /\ Exclusive(n)
    /\ session_exists(n) \/ list_terminals_by_session(n) # {}
    /\ Delete(d, [NoDeletion EXCEPT !.pc = "list", !.name = n, !.whole = TRUE,
                                    !.alive = session_exists(n)])
    /\ UNCHANGED <<made, env, history, faults>> /\ InThread

ListTerminals(d) ==
    /\ del[d].pc = "list"
    /\ LET listed == list_terminals_by_session(del[d].name) IN
       /\ Delete(d, [del[d] EXCEPT !.pc = "next", !.todo = listed])
       /\ deleted' = deleted \cup Unready(listed)
    /\ UNCHANGED <<made, env, left, faults>> /\ InThread

\* get_terminal_metadata: without a row only the provider and the row are removed.
ReadMetadata(d) ==
    /\ del[d].pc = "next"
    /\ \/ /\ del[d].todo = {}
          /\ Delete(d, IF del[d].whole THEN [del[d] EXCEPT !.pc = "session"] ELSE NoDeletion)
       \/ \E t \in del[d].todo :
             Delete(d, [del[d] EXCEPT !.pc = IF t \in rows THEN "stop" ELSE "row",
                                      !.on = t, !.todo = @ \ {t}])
    /\ UNCHANGED <<made, env, history, faults>> /\ InThread

\* stop_pipe_pane, stop_reader, clear_terminal.
StopReader(d) ==
    /\ del[d].pc = "stop"
    /\ readers' = readers \ {del[d].on}
    /\ Delete(d, [del[d] EXCEPT !.pc = "kill"])
    /\ UNCHANGED <<windows, rows, provs, env, history, faults>> /\ InThread

\* kill_window; a failure is logged.
KillWindow(d) ==
    /\ del[d].pc = "kill"
    /\ \/ windows' = windows \ {del[d].on} /\ UNCHANGED <<left, faults>>
       \/ Fault("kill") /\ left' = left \cup {del[d].on} /\ UNCHANGED windows
    /\ Delete(d, [del[d] EXCEPT !.pc = "row"])
    /\ UNCHANGED <<rows, readers, provs, env, deleted>> /\ InThread

\* cleanup_provider, db_delete_terminal.
DeleteRow(d) ==
    /\ del[d].pc = "row"
    /\ provs' = provs \ {del[d].on} /\ rows' = rows \ {del[d].on}
    /\ Delete(d, [del[d] EXCEPT !.pc = "next", !.on = NoCall])
    /\ UNCHANGED <<windows, readers, env, history, faults>> /\ InThread

KillSession(d) ==
    /\ del[d].pc = "session"
    /\ windows' = IF del[d].alive THEN windows \ Of(del[d].name, windows) ELSE windows
    /\ Delete(d, [del[d] EXCEPT !.pc = "env"])
    /\ UNCHANGED <<rows, readers, provs, env, history, faults>> /\ InThread

ClearSessionEnv(d) ==
    /\ del[d].pc = "env"
    /\ env' = [env EXCEPT ![del[d].name] = NoCall]
    /\ Delete(d, NoDeletion)
    /\ UNCHANGED <<made, history, faults>> /\ InThread

Deletion(d) ==
    \/ ListTerminals(d) \/ ReadMetadata(d) \/ StopReader(d) \/ KillWindow(d)
    \/ DeleteRow(d) \/ KillSession(d) \/ ClearSessionEnv(d)

-----------------------------------------------------------------------------
(* The agents, the server and its startup.                                      *)

Outside == UNCHANGED <<home, founder, told>>

\* Typing into a terminal renews its last_active.
Use(t) ==
    /\ t \in aged \cap windows \cap rows /\ aged' = aged \ {t}
    /\ UNCHANGED <<made, env, call, loop, del, restoring, sweeping, history, faults>> /\ Outside

\* A user closes a window.
CloseWindow(t) ==
    /\ t \in windows /\ Fault("exit")
    /\ windows' = windows \ {t} /\ left' = left \cup {t}
    /\ UNCHANGED <<rows, readers, provs, env, call, loop, del, startup, deleted>> /\ Outside

\* The server dies and starts again: windows and rows survive.  A window whose row
\* was not written yet is left, and so is a row whose window was just killed;
\* cleanup_old_data lists the aged rows.
Crash ==
    /\ Fault("crash")
    /\ readers' = {} /\ provs' = {}
    /\ env' = [n \in Names |-> NoCall]
    /\ left' = left \cup {t \in windows \ rows : call[t].pc \in Active} \cup (rows \ windows)
    /\ call' = [c \in Calls |-> IF call[c].pc \in Active THEN [call[c] EXCEPT !.pc = "lost"]
                                ELSE call[c]]
    /\ loop' = NoCall /\ del' = [d \in Deleting |-> NoDeletion]
    /\ restoring' = rows
    /\ \E old \in SUBSET rows :
          Cardinality(old) <= MaxAged /\ aged' = old /\ sweeping' = old
    /\ UNCHANGED <<windows, rows, deleted>> /\ Outside

\* restore_terminal_monitors, which leaves a terminal without a window alone.
RestoreMonitor(t) ==
    /\ t \in restoring /\ restoring' = restoring \ {t}
    /\ IF t \in windows
       THEN readers' = readers \cup {t} /\ provs' = IF t \in rows THEN provs \cup {t} ELSE provs
       ELSE UNCHANGED <<readers, provs>>
    /\ UNCHANGED <<windows, rows, env, call, loop, del, sweeping, aged, history, faults>>
    /\ Outside

\* cleanup_old_data, in a thread of its own: the readers one by one, then the rows.
SweepReader(t) ==
    /\ t \in sweeping /\ sweeping' = sweeping \ {t}
    /\ readers' = readers \ {t} /\ left' = left \cup {t}
    /\ UNCHANGED <<windows, rows, provs, env, call, loop, del, restoring, aged, deleted, faults>>
    /\ Outside

SweepRows ==
    /\ sweeping = {} /\ aged # {}
    /\ rows' = rows \ aged /\ aged' = {}
    /\ left' = left \cup aged
    /\ UNCHANGED <<windows, readers, provs, env, call, loop, del, restoring, sweeping, deleted,
                   faults>> /\ Outside

Sweep == SweepRows \/ \E t \in Calls : SweepReader(t)

\* What a call that has begun does next.
Step(c) ==
    \/ WriteRow(c) \/ StartReader(c) \/ Initialized(c) \/ InitRaises(c) \/ Rollback(c)
    \/ SendInput(c) \/ NotifyCaller(c) \/ WorkerDeleted(c)

Next ==
    \/ \E c \in Calls : \/ Start(c) \/ Step(c) \/ Use(c) \/ CloseWindow(c) \/ RestoreMonitor(c)
    \/ \E d \in Threads : \/ \E t \in Calls : RequestTerminal(d, t)
                          \/ \E n \in Names : RequestSession(d, n)
    \/ \E d \in Deleting : Deletion(d)
    \/ Sweep \/ Crash

Spec == Init /\ [][Next]_vars

-----------------------------------------------------------------------------
(* Properties.                                                                  *)

\* Nobody works on terminals.
Quiet ==
    /\ \A c \in Calls : call[c].pc \notin Active
    /\ \A d \in Deleting : del[d].pc = "idle"
    /\ restoring = {} /\ sweeping = {} /\ aged = {}

\* However a creation fails and whatever deletes what meanwhile, no window is left
\* that no row knows ("a permanently orphaned window is left behind: invisible to
\* this terminal's own list/tree (the DB row is gone), never cleaned up"), unless
\* its kill failed, a crash came before its row, or retention dropped the row.
NoOrphanWindow == Quiet => \A t \in windows \ rows : t \in left

\* No row, reader or provider is left of a terminal that is not whole ("so a failed
\* create does not leave an orphan record"), unless its window was closed by hand, a
\* crash cut its deletion short, or retention stopped its reader.
WholeOrGone ==
    Quiet => \A t \in rows \cup readers \cup provs :
                \/ t \in windows \cap rows \cap readers \cap provs
                \/ t \in left

\* A window inherits what was forwarded to its own session, never what an earlier
\* session of the name had ("so a no-env relaunch can't inherit them").
EnvIsOwn == \A n \in Names : session_exists(n) => env[n] \in {NoCall, founder[n]}

\* A notice about c was queued, or is known to have failed.
Noticed(c) == \E outcome \in {"sent", "failed"} : <<c, outcome>> \in told

\* The caller of a deferred worker that failed after the call had returned is told
\* ("otherwise the supervisor waits forever on a callback that can never arrive"), unless
\* somebody asked to delete the worker, and without a row nobody knows its caller, or the
\* notice itself failed, which is "best-effort" and tried once.
CallerIsTold == \A c \in Calls : At(c, "gone") => Noticed(c) \/ c \in deleted
=============================================================================
