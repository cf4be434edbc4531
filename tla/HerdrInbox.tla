------------------------------ MODULE HerdrInbox ------------------------------
(* HerdrInboxService (services/herdr_inbox_service.py): which pane of herdr shows   *)
(* which terminal, what the socket is subscribed to, and what is deleted when herdr  *)
(* says, or is found to say, that a tab is gone.  The handlers and _reconcile run   *)
(* on the event loop without an await and are one action each; terminals are        *)
(* created on the loop, deleted in threads, and their agents exit when they like.   *)
(*                                                                                *)
(* herdr is the environment: pane ids are small numbers, given to a new tab as soon  *)
(* as they are free and possibly moved when a tab closes; each fresh subscription    *)
(* is sent every pane_closed there ever was.                                        *)
EXTENDS Naturals, Sequences, FiniteSets, SequencesExt

CONSTANTS
    Tabs,           \* the terminals, each a tab of herdr
    Sessions,
    Of,             \* the session of each terminal
    Panes,          \* pane ids
    Renumbers,      \* whether herdr moves the panes behind one that closes
    Recycles,       \* whether a session is made anew before its closing was heard
    MaxOpen,        \* workspaces a session may have, one after the other
    MaxDrops,       \* connections that may drop by themselves
    Faults, MaxMishaps, \* what may go wrong, and how often
    NoTerm, NoSession

FaultKinds == {"query", "delete", "raise", "crash"}
NoPane == 0

ASSUME HerdrAssumption ==
    /\ IsFiniteSet(Tabs) /\ IsFiniteSet(Sessions) /\ Faults \subseteq FaultKinds
    /\ Of \in [Tabs -> Sessions]
    /\ Panes \subseteq Nat \ {NoPane}
    /\ Renumbers \in BOOLEAN /\ Recycles \in BOOLEAN
    /\ MaxOpen \in Nat /\ MaxDrops \in Nat /\ MaxMishaps \in Nat
    /\ NoTerm \notin Tabs /\ NoSession \notin Sessions

VARIABLES
    live,       \* terminals whose tab is open in herdr
    tabPane,    \* per terminal: the pane its tab has
    opened,     \* per session: workspaces made for it so far
    closed,     \* the pane ids that closed, in order
    rows,       \* the terminals table
    creation,   \* per terminal: its creation
    del,        \* per terminal: the thread that deletes it
    p2t, t2p,   \* _pane_to_terminal, _terminal_to_pane
    known,      \* _workspace_to_session, as the workspaces it has
    conn,       \* the socket loop: "down", "subscribing" (reconciled), "drain" (the
                \* subscription is sent), "up", and "dead" when an exception has ended it
    connected,  \* _connected
    listened,   \* the panes subscribed to
    stream,     \* the stream from herdr
    shut,       \* the stream ends after these
    forced,     \* a _force_reconnect is queued on the loop
    drops, mishaps

herdr == <<live, tabPane, opened, closed>>
service == <<p2t, t2p, known>>
socket == <<conn, connected, listened, shut, drops>>
bridge == <<herdr, rows, creation, del, service, socket, stream, forced, mishaps>>

Event == [kind : {"pane", "workspace"}, pane : Panes \cup {NoPane},
          session : Sessions \cup {NoSession}, n : Nat]

HerdrTypeOK ==
    /\ live \subseteq Tabs /\ rows \subseteq Tabs
    /\ tabPane \in [Tabs -> Panes \cup {NoPane}]
    /\ opened \in [Sessions -> Nat] /\ closed \in Seq(Panes)
    /\ creation \in [Tabs -> {"none", "joining", "founding", "up", "failed"}]
    /\ del \in [Tabs -> {"none", "kill", "row", "done"}]
    /\ p2t \in [Panes -> Tabs \cup {NoTerm}]
    /\ t2p \in [Tabs -> Panes \cup {NoPane}]
    /\ known \subseteq Sessions \X Nat
    /\ conn \in {"down", "subscribing", "drain", "up", "dead"} /\ connected \in BOOLEAN
    /\ listened \subseteq Panes /\ stream \in Seq(Event)
    /\ shut \in BOOLEAN /\ forced \in BOOLEAN
    /\ drops \in Nat /\ mishaps \in Nat

Nowhere == [p \in Panes |-> NoTerm]
Unmapped == [t \in Tabs |-> NoPane]

HerdrInit ==
    /\ live = {} /\ rows = {} /\ tabPane = Unmapped /\ closed = <<>>
    /\ opened = [s \in Sessions |-> 0]
    /\ creation = [t \in Tabs |-> "none"] /\ del = [t \in Tabs |-> "none"]
    /\ p2t = Nowhere /\ t2p = Unmapped /\ known = {}
    /\ conn = "down" /\ connected = FALSE /\ listened = {} /\ stream = <<>>
    /\ shut = FALSE /\ forced = FALSE /\ drops = 0 /\ mishaps = 0

Mishap(kind) == kind \in Faults /\ mishaps < MaxMishaps /\ mishaps' = mishaps + 1

-----------------------------------------------------------------------------
(* herdr.                                                                       *)

In(s) == {t \in live : Of[t] = s}
Workspaces == {<<s, opened[s]>> : s \in {u \in Sessions : In(u) # {}}}
PaneClosed(p) == [kind |-> "pane", pane |-> p, session |-> NoSession, n |-> 0]
WorkspaceClosed(s) == [kind |-> "workspace", pane |-> NoPane, session |-> s, n |-> opened[s]]
Open == conn \in {"drain", "up"}
Hears == Open /\ ~shut

\* The panes of the tabs that stay, when those of T close.
Moved(T) == [t \in Tabs |->
    IF t \in T \/ tabPane[t] = NoPane THEN NoPane
    ELSE tabPane[t] - Cardinality({u \in T : tabPane[u] # NoPane /\ tabPane[u] < tabPane[t]})]
Kept(T) == [t \in Tabs |-> IF t \in T THEN NoPane ELSE tabPane[t]]

\* What is said of it, after what has been said already.
Gone(T) == SetToSeq({tabPane[t] : t \in T})
Emptied(T) == {s \in Sessions : In(s) # {} /\ In(s) \subseteq T}
Said(T) == [i \in 1..Len(Gone(T)) |-> PaneClosed(Gone(T)[i])]
               \o SetToSeq({WorkspaceClosed(s) : s \in Emptied(T)})

\* The tabs of T close.
CloseTabs(T) ==
    /\ live' = live \ T
    /\ tabPane' = IF Renumbers THEN Moved(T) ELSE Kept(T)
    /\ closed' = closed \o Gone(T)
    /\ UNCHANGED opened

\* The service hears of it, when it has read the events in rest.
Hear(T, rest) == stream' = IF Hears THEN rest \o Said(T) ELSE rest

\* An agent exits, or its user closes the tab.
Exit(t) ==
    /\ t \in live /\ CloseTabs({t}) /\ Hear({t}, stream)
    /\ UNCHANGED <<rows, creation, del, service, socket, forced, mishaps>>

Drop ==
    /\ Hears /\ drops < MaxDrops /\ drops' = drops + 1 /\ shut' = TRUE
    /\ UNCHANGED <<herdr, rows, creation, del, service, conn, connected, listened, stream,
                   forced, mishaps>>

-----------------------------------------------------------------------------
(* The terminal service.                                                        *)

\* What runs on the loop does not run between _reconcile and what is sent after it.
LoopIsFree == conn # "subscribing"

Free == Panes \ {tabPane[t] : t \in live}
Heard(s) == \A i \in 1..Len(stream) : stream[i].session # s

\* create_terminal up to the await of initialize(): the tab, in a workspace that is
\* made for it if the session has none, and the row.
Create(t) ==
    /\ LoopIsFree /\ creation[t] = "none" /\ Free # {}
    /\ IF In(Of[t]) # {} THEN creation' = [creation EXCEPT ![t] = "joining"] /\ UNCHANGED opened
       ELSE /\ opened[Of[t]] < MaxOpen /\ (Recycles \/ Heard(Of[t]))
            /\ opened' = [opened EXCEPT ![Of[t]] = @ + 1]
            /\ creation' = [creation EXCEPT ![t] = "founding"]
    /\ live' = live \cup {t} /\ rows' = rows \cup {t}
    /\ tabPane' = [tabPane EXCEPT ![t] = CHOOSE p \in Free : \A q \in Free : p <= q]
    /\ UNCHANGED <<closed, del, service, socket, stream, forced, mishaps>>

Creating(t) == creation[t] \in {"joining", "founding"}

\* Mutant: the pane is mapped, and subscribed to at the next reconnect.
ReconnectNever == FALSE

\* What registering does to the socket.
Reconnect == connected

\* register_terminal, at the end of create_terminal.  Without a pane it is skipped.
Register(t) ==
    /\ LoopIsFree /\ Creating(t) /\ creation' = [creation EXCEPT ![t] = "up"]
    /\ IF tabPane[t] = NoPane THEN UNCHANGED <<service, forced>>
       ELSE /\ p2t' = [p2t EXCEPT ![tabPane[t]] = t] /\ t2p' = [t2p EXCEPT ![t] = tabPane[t]]
            /\ forced' = (forced \/ Reconnect) /\ UNCHANGED known
    /\ UNCHANGED <<herdr, rows, del, socket, stream, mishaps>>

\* The rollback of create_terminal: the session it made, or its own window.
CreateFails(t) ==
    /\ LoopIsFree /\ Creating(t)
    /\ creation' = [creation EXCEPT ![t] = "failed"] /\ rows' = rows \ {t}
    /\ LET T == IF creation[t] = "founding" THEN In(Of[t]) ELSE {t} \cap live
       IN  CloseTabs(T) /\ Hear(T, stream)
    /\ UNCHANGED <<del, service, socket, forced, mishaps>>

\* unregister_terminal.
Unregister(t) ==
    /\ t2p' = [t2p EXCEPT ![t] = NoPane]
    /\ p2t' = [p \in Panes |-> IF p = t2p[t] THEN NoTerm ELSE p2t[p]]
    /\ UNCHANGED known

\* The loop ends with an exception: nothing is read or subscribed to any more.
LoopEnds == conn' = "dead" /\ listened' = {} /\ stream' = <<>> /\ shut' = FALSE

\* delete_terminal, in a thread.  The map may shrink while the loop iterates over it for
\* the subscription ("dictionary changed size during iteration").
Delete(t) ==
    /\ Creating(t) \/ creation[t] = "up"
    /\ del[t] = "none" /\ Unregister(t)
    /\ del' = [del EXCEPT ![t] = IF t \in rows THEN "kill" ELSE "done"]
    /\ \/ UNCHANGED <<conn, listened, stream, shut>>
       \/ conn = "subscribing" /\ p2t' # p2t /\ LoopEnds
    /\ UNCHANGED <<herdr, rows, creation, connected, drops, forced, mishaps>>

KillTab(t) ==
    /\ del[t] = "kill" /\ del' = [del EXCEPT ![t] = "row"]
    /\ CloseTabs({t} \cap live) /\ Hear({t} \cap live, stream)
    /\ UNCHANGED <<rows, creation, service, socket, forced, mishaps>>

DeleteRow(t) ==
    /\ del[t] = "row" /\ del' = [del EXCEPT ![t] = "done"] /\ rows' = rows \ {t}
    /\ UNCHANGED <<herdr, creation, service, socket, stream, forced, mishaps>>

-----------------------------------------------------------------------------
(* The socket loop.                                                             *)

\* The answers of herdr to the questions of one handler; a refused one is a fault.
Answers == [panes : BOOLEAN, workspaces : BOOLEAN, tabs : BOOLEAN, label : BOOLEAN]
AllWell == [panes |-> TRUE, workspaces |-> TRUE, tabs |-> TRUE, label |-> TRUE]
Answered(a) == IF a = AllWell THEN UNCHANGED mishaps ELSE Mishap("query")

\* Mutant: the pane says who is there.
LabelFromPane(t, a) == FALSE

\* _label_still_live.
_label_still_live(t, a) == a.label /\ t \in live

\* What _reconcile learns of the workspaces, and the rows it finds without a tab there.
KnownAfter(a) == IF a.workspaces THEN Workspaces ELSE known
Ghosts(a) ==
    IF ~a.tabs THEN {}
    ELSE {t \in rows : \E w \in KnownAfter(a) :
             w[1] = Of[t] /\ (t \in live => w[2] # opened[Of[t]])}

\* Panes with a terminal that herdr does not list, and the terminals found elsewhere.
Stale == {p \in Panes : p2t[p] # NoTerm /\ \A t \in live : tabPane[t] # p}
Renumbered(a) ==
    {p2t[p] : p \in {q \in Stale : p2t[q] \in rows \ Ghosts(a) /\ _label_still_live(p2t[q], a)}}
Pruned(a) == {p2t[p] : p \in Stale} \ Renumbered(a)

\* The map afterwards.
Remapped(a) == [p \in Panes |->
    IF \E t \in Renumbered(a) : tabPane[t] = p
    THEN CHOOSE t \in Renumbered(a) : tabPane[t] = p
    ELSE IF p \in Stale THEN NoTerm ELSE p2t[p]]

\* Sessions that lost a terminal, have none that is mapped, and are not listed.
Empty(a) ==
    {s \in Sessions :
        /\ \E t \in Pruned(a) \cap (rows \ Ghosts(a)) : Of[t] = s
        /\ ~\E t \in rows \ (Ghosts(a) \cup Pruned(a)) :
                Of[t] = s /\ (t2p[t] # NoPane \/ t \in Renumbered(a))
        /\ \A w \in KnownAfter(a) : w[1] # s}

\* _reconcile.  Without the pane list it does nothing.
Reconcile(a) ==
    IF ~a.panes THEN UNCHANGED <<service, rows, herdr>>
    ELSE /\ known' = KnownAfter(a)
         /\ p2t' = Remapped(a)
         /\ t2p' = [t \in Tabs |-> IF t \in Renumbered(a) THEN tabPane[t]
                                        ELSE IF t \in Pruned(a) THEN NoPane ELSE t2p[t]]
         /\ rows' = rows \ (Ghosts(a) \cup Pruned(a))
         /\ CloseTabs(UNION {In(s) : s \in Empty(a)})

\* The socket opens: reconcile.
Connect ==
    /\ conn = "down" /\ p2t # Nowhere
    /\ \E a \in Answers : Answered(a) /\ Reconcile(a)
    /\ conn' = "subscribing" /\ connected' = TRUE
    /\ UNCHANGED <<creation, del, listened, shut, stream, forced, drops>>

\* Subscribe to what is mapped by then.  What is read first are the closings of the past.
Subscribe ==
    /\ conn = "subscribing" /\ conn' = "drain"
    /\ stream' = [i \in 1..Len(closed) |-> PaneClosed(closed[i])]
    /\ listened' = {p \in Panes : p2t[p] # NoTerm}
    /\ UNCHANGED <<herdr, rows, creation, del, service, connected, shut, forced, drops, mishaps>>

Listen ==
    /\ conn = "drain" /\ conn' = "up"
    /\ UNCHANGED <<herdr, rows, creation, del, service, connected, listened, shut, drops,
                   stream, forced, mishaps>>

\* pane.closed.  A live label means that another tab had the pane then.
HandlePaneClosed(p, a) ==
    LET t == p2t[p]
        stays == {u \in rows \ {t} : \E q \in Panes \ {p} : p2t[q] = u}
        orphaned == t \in rows /\ ~\E u \in stays : Of[u] = Of[t]
    IN  IF t = NoTerm \/ (t \in rows /\ _label_still_live(t, a))
        THEN UNCHANGED <<rows, service, herdr>> /\ stream' = Tail(stream)
        ELSE /\ p2t' = [p2t EXCEPT ![p] = NoTerm] /\ t2p' = [t2p EXCEPT ![t] = NoPane]
             /\ rows' = rows \ {t} /\ UNCHANGED known
             /\ LET T == IF orphaned THEN In(Of[t]) ELSE {}
                IN  CloseTabs(T) /\ Hear(T, Tail(stream))

\* workspace.closed.  The rows go before the map is searched by what they say, so
\* that nothing is found in it.  An unknown workspace is looked up, and is not there.
HandleWorkspaceClosed(s, n, a) ==
    /\ stream' = Tail(stream) /\ UNCHANGED <<herdr, p2t, t2p>>
    /\ IF <<s, n>> \in known
       THEN known' = known \ {<<s, n>>} /\ rows' = {t \in rows : Of[t] # s}
       ELSE known' = KnownAfter(a) /\ UNCHANGED rows

\* delete_terminals_by_session raises: the map is searched by rows that are still there.
WorkspaceDeleteFails(s, n) ==
    /\ <<s, n>> \in known /\ known' = known \ {<<s, n>>}
    /\ p2t' = [p \in Panes |-> IF p2t[p] \in rows /\ Of[p2t[p]] = s THEN NoTerm ELSE p2t[p]]
    /\ t2p' = [t \in Tabs |->
                  IF t \in rows /\ Of[t] = s /\ (\E p \in Panes : p2t[p] = t) THEN NoPane
                  ELSE t2p[t]]
    /\ stream' = Tail(stream) /\ UNCHANGED <<herdr, rows>>

\* One event of _event_loop.
HandleEvent ==
    /\ conn = "up" /\ stream # <<>>
    /\ LET e == Head(stream)
       IN  \/ e.kind = "pane" /\ \E a \in Answers : Answered(a) /\ HandlePaneClosed(e.pane, a)
           \/ /\ e.kind = "workspace"
              /\ \/ \E a \in Answers : Answered(a) /\ HandleWorkspaceClosed(e.session, e.n, a)
                 \/ Mishap("delete") /\ WorkspaceDeleteFails(e.session, e.n)
    /\ UNCHANGED <<creation, del, socket, forced>>

\* Only the errors of a connection are caught: a question of _reconcile that times out, or
\* a row it cannot read, ends the loop with what it had done by then ...
ReconcileRaises ==
    /\ conn = "down" /\ p2t # Nowhere /\ connected' = TRUE
    /\ \/ UNCHANGED <<known, rows>>
       \/ known' = Workspaces /\ rows' \in {rows, rows \ Ghosts(AllWell)}
    /\ UNCHANGED <<herdr, p2t, t2p>>

\* ... and so does a row that the handler of an event cannot read, or a map that shrinks
\* while it counts who is left: the closed one is gone and its workspace stays.
HandlerRaises ==
    /\ conn = "up" /\ stream # <<>>
    /\ LET e == Head(stream)
           t == p2t[e.pane]
       IN  \/ UNCHANGED <<rows, service>>
           \/ /\ e.kind = "pane" /\ t # NoTerm
              /\ ~(t \in rows /\ _label_still_live(t, AllWell))
              /\ p2t' = [p2t EXCEPT ![e.pane] = NoTerm] /\ t2p' = [t2p EXCEPT ![t] = NoPane]
              /\ rows' = rows \ {t} /\ UNCHANGED known
           \/ /\ e.kind = "workspace" /\ <<e.session, e.n>> \in known
              /\ rows' = {u \in rows : Of[u] # e.session} /\ UNCHANGED service
    /\ UNCHANGED <<herdr, connected>>

LoopRaises ==
    /\ Mishap("raise") /\ (ReconcileRaises \/ HandlerRaises) /\ LoopEnds
    /\ UNCHANGED <<creation, del, forced, drops>>

\* The stream ends; the loop backs off.
Disconnected ==
    /\ conn = "drain" \/ stream = <<>>
    /\ Open /\ shut /\ conn' = "down" /\ connected' = FALSE /\ listened' = {}
    /\ stream' = <<>> /\ shut' = FALSE
    /\ UNCHANGED <<herdr, rows, creation, del, service, drops, forced, mishaps>>

\* _force_reconnect closes whatever connection there is by now.
ForceReconnect ==
    /\ LoopIsFree /\ forced /\ forced' = FALSE /\ shut' = Open
    /\ UNCHANGED <<herdr, rows, creation, del, service, conn, connected, listened, drops,
                   stream, mishaps>>

\* The server dies and starts again: nothing is registered, creations and deletions
\* stay as they are, and rows without a tab in an open workspace are deleted.
Crash ==
    /\ Mishap("crash")
    /\ p2t' = Nowhere /\ t2p' = Unmapped /\ known' = {}
    /\ conn' = "down" /\ connected' = FALSE /\ listened' = {} /\ stream' = <<>>
    /\ shut' = FALSE /\ forced' = FALSE
    /\ creation' = [t \in Tabs |-> IF Creating(t) THEN "up" ELSE creation[t]]
    /\ del' = [t \in Tabs |-> IF del[t] \in {"kill", "row"} THEN "none" ELSE del[t]]
    /\ rows' = {t \in rows : t \in live \/ In(Of[t]) = {}}
    /\ UNCHANGED <<herdr, drops>>

Loop == Connect \/ Subscribe \/ Listen \/ HandleEvent \/ LoopRaises \/ Disconnected
            \/ ForceReconnect

HerdrNext ==
    \/ \E t \in Tabs : \/ Create(t) \/ Register(t) \/ CreateFails(t)
                       \/ Delete(t) \/ KillTab(t) \/ DeleteRow(t) \/ Exit(t)
    \/ Drop \/ Loop \/ Crash

HerdrSpec == HerdrInit /\ [][HerdrNext]_bridge

\* The loop runs its tasks and its reads; a connection is retried until the loop ends.
HerdrFairSpec ==
    /\ HerdrSpec
    /\ WF_bridge(Connect) /\ WF_bridge(Subscribe) /\ WF_bridge(Listen)
    /\ WF_bridge(HandleEvent) /\ WF_bridge(Disconnected) /\ WF_bridge(ForceReconnect)

-----------------------------------------------------------------------------
(* Properties.                                                                  *)

\* While herdr answers, no terminal whose tab is open loses its row to an event or a
\* reconcile, whatever was replayed, reused or renumbered; only its own rollback takes it.
LiveKept ==
    [][\A t \in live \cap rows :
          t \in rows' \/ (Creating(t) /\ creation'[t] = "failed")
                     \/ mishaps' # mishaps]_bridge

\* A pane that is mapped is subscribed to in the end, however registrations race
\* connects, drains and disconnects ("so _socket_loop reconnects and rebuilds"), unless an
\* exception that the loop does not catch has ended it.
PaneIsHeard ==
    \A p \in Panes :
        p2t[p] # NoTerm ~>
            \/ p2t[p] = NoTerm \/ conn = "dead"
            \/ conn = "up" /\ ~shut /\ p \in listened
=============================================================================
