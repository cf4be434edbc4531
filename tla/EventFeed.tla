------------------------------ MODULE EventFeed ------------------------------
(* How events reach a browser.  Hooks (UiEventPublisher, EventLogPublisher) and the   *)
(* bus consumer (ui_event_consumer) append to a bounded log and hand the event to the *)
(* queue of every open stream; a page follows one stream and asks for history.        *)
(*                                                                                    *)
(* feed = "ui":   UiEventLog, /ui/events, and eventsClient.ts, which asks for history  *)
(*                each time its stream opens.                                          *)
(* feed = "apps": EventLog with SseBus, /events, and EventStreamView.tsx, which asks   *)
(*                once, before its first stream, over a tool of the MCP server.        *)
(*                                                                                    *)
(* An event is the call that it tells of, with its number in the life of the server.   *)
(* The client is outside src/ of the server and modelled from its own source.          *)
EXTENDS Naturals, Sequences, FiniteSets, SequencesExt

CONSTANTS
    Calls,          \* what there is to tell
    Sources,        \* what the calls may be
    RingCapacity, QueueSize, BusSize,
    MaxLinks,       \* streams that the page opens
    MaxFaults       \* restarts of the server, and history requests that fail

\* A hook that is dispatched on the loop, one dispatched in a thread; a status, an output.
EventKinds == {"loop", "thread", "status", "output"}

FeedAssumption ==
    /\ Sources \subseteq [Calls -> EventKinds]
    /\ RingCapacity \in Nat \ {0} /\ QueueSize \in Nat \ {0} /\ BusSize \in Nat \ {0}
    /\ MaxLinks \in Nat /\ MaxFaults \in Nat

Links == 1..MaxLinks

VARIABLES
    feed, source,
    \* the server
    life,       \* how often it was started
    ring,       \* what the log retains, oldest first
    next,       \* the next number
    at,         \* where each call is
    number,     \* and the number of its event
    heard,      \* and the streams it saw when it appended
    bus,        \* the queue of ui_event_consumer
    warm,       \* an activity was told in this life: another may be throttled
    subs,       \* streams that are subscribed
    flight,     \* per stream: events scheduled on the loop
    queue,      \* per stream: its bounded queue
    \* the page
    wire,       \* per stream: frames under way
    page,       \* its connection
    cur,        \* its stream
    lastId, lastLife,
    shown, seen,    \* events shown since the server was started, and every number seen
    ask,        \* per stream: the history request made when it opened
    first,      \* per stream: the number that was next when it subscribed
    lost,       \* events that the page was never to see, from then on
    faults

server == <<life, ring, next, at, number, heard, bus, warm>>
streams == <<subs, flight, queue, wire>>
client == <<page, cur, lastId, lastLife, shown, seen, ask, first>>
vars == <<feed, source, server, streams, client, lost, faults>>

Event == [call : Calls, id : Nat, life : Nat]
Unasked == [pc |-> "none", since |-> 0, life |-> 0, events |-> {}]
Ids(events) == {e.id : e \in events}

TypeOK ==
    /\ feed \in {"ui", "apps"} /\ source \in Sources
    /\ ring \in Seq(Event) /\ Len(ring) <= RingCapacity
    /\ \A i, j \in DOMAIN ring : i < j => ring[i].id < ring[j].id
    /\ subs \subseteq Links /\ bus \in Seq(Calls) /\ Len(bus) <= BusSize
    /\ \A k \in Links : Len(queue[k]) <= QueueSize
    /\ page \in {"idle", "off", "opening", "on"} /\ cur \in 0..MaxLinks
    /\ shown \subseteq Event /\ lost \subseteq Event

Init ==
    /\ feed \in {"ui", "apps"} /\ source \in Sources
    /\ feed = "apps" => \A c \in Calls : source[c] \in {"loop", "thread"}
    /\ life = 1 /\ ring = <<>> /\ next = 1 /\ bus = <<>> /\ warm = FALSE
    /\ at = [c \in Calls |-> "new"] /\ number = [c \in Calls |-> 0]
    /\ heard = [c \in Calls |-> {}]
    /\ subs = {} /\ cur = 0 /\ lastId = 0 /\ lastLife = 1 /\ shown = {} /\ seen = {}
    /\ flight = [k \in Links |-> <<>>] /\ queue = [k \in Links |-> <<>>]
    /\ wire = [k \in Links |-> <<>>]
    /\ page = IF feed = "ui" THEN "off" ELSE "idle"
    /\ ask = [k \in Links |-> Unasked] /\ first = [k \in Links |-> 0]
    /\ lost = {} /\ faults = 0

EventOf(c) == [call |-> c, id |-> number[c], life |-> life]
GoTo(c, pc) == at' = [at EXCEPT ![c] = pc]
OnLoop(c) == source[c] # "thread"

\* A call on the loop appends and schedules without giving way; a thread does not stop it.
LoopFree == \A c \in Calls : OnLoop(c) => at[c] # "fan"

-----------------------------------------------------------------------------
(* The server.                                                                  *)

Hooked(c) == source[c] \in {"loop", "thread"}

\* bus.publish of a status or an output; a full queue of the consumer loses it.
Published(c) ==
    /\ at[c] = "new" /\ ~Hooked(c)
    /\ IF Len(bus) < BusSize THEN bus' = Append(bus, c) /\ GoTo(c, "bus")
                             ELSE GoTo(c, "done") /\ UNCHANGED bus
    /\ UNCHANGED <<feed, source, life, ring, next, number, heard, warm, streams, client, lost, faults>>

\* handle_output tells of one activity in five seconds; handle_status of every status.
Throttled(c) == source[c] = "output" /\ warm

\* ui_event_consumer takes one event.
Consume ==
    /\ LoopFree /\ bus # <<>> /\ bus' = Tail(bus)
    /\ \A c \in Calls : at[c] # "run"
    /\ LET c == Head(bus) IN
       \/ /\ GoTo(c, "run") /\ warm' = (warm \/ source[c] = "output")
       \/ Throttled(c) /\ GoTo(c, "done") /\ UNCHANGED warm
    /\ UNCHANGED <<feed, source, life, ring, next, number, heard, streams, client, lost, faults>>

\* deque(maxlen = RING_CAPACITY): the oldest goes.
Retained(events) == IF Len(events) > RingCapacity THEN Tail(events) ELSE events

\* dispatch_plugin_event runs the hook, as a task or in its thread; the consumer calls the
\* forwarder.  append, under its lock: the event gets its number, and (ui) the streams that
\* are subscribed are noted.
AppendEvent(c) ==
    /\ at[c] = IF Hooked(c) THEN "new" ELSE "run"
    /\ OnLoop(c) => LoopFree
    /\ ring' = Retained(Append(ring, [call |-> c, id |-> next, life |-> life]))
    /\ next' = next + 1 /\ number' = [number EXCEPT ![c] = next]
    /\ heard' = [heard EXCEPT ![c] = subs]
    /\ GoTo(c, "fan")
    /\ UNCHANGED <<feed, source, life, bus, warm, streams, client, lost, faults>>

\* What is queued for a stream that the page has left is read by nobody, and not kept here.
Followed(k) == k = cur /\ page # "off"

\* The event is scheduled on the loop for each of those streams; SseBus notes them only now.
FanOut(c) ==
    /\ at[c] = "fan" /\ GoTo(c, "done")
    /\ number' = [number EXCEPT ![c] = 0] /\ heard' = [heard EXCEPT ![c] = {}]
    /\ LET to == IF feed = "ui" THEN heard[c] ELSE subs IN
       flight' = [k \in Links |-> IF k \in to /\ Followed(k) THEN Append(flight[k], EventOf(c)) ELSE flight[k]]
    /\ UNCHANGED <<feed, source, life, ring, next, bus, warm, subs, queue, wire, client, lost, faults>>

\* _deliver: a full queue drops the event, for this stream only.
Deliver(k) ==
    /\ LoopFree /\ flight[k] # <<>>
    /\ flight' = [flight EXCEPT ![k] = Tail(@)]
    /\ IF Len(queue[k]) < QueueSize
       THEN queue' = [queue EXCEPT ![k] = Append(@, Head(flight[k]))] /\ UNCHANGED lost
       ELSE lost' = lost \cup {Head(flight[k])} /\ UNCHANGED queue
    /\ UNCHANGED <<feed, source, server, subs, wire, client, faults>>

\* subscribe yields, and the generator of the route sends a frame.
Stream(k) ==
    /\ LoopFree /\ k \in subs /\ queue[k] # <<>>
    /\ queue' = [queue EXCEPT ![k] = Tail(@)]
    /\ wire' = [wire EXCEPT ![k] = Append(@, Head(queue[k]))]
    /\ UNCHANGED <<feed, source, server, subs, flight, client, lost, faults>>

\* The generator of a stream that the page has left is closed.
Unsubscribe(k) ==
    /\ LoopFree /\ k \in subs /\ ~Followed(k)
    /\ subs' = subs \ {k}
    /\ UNCHANGED <<feed, source, server, flight, queue, wire, client, lost, faults>>

\* Mutant: one too few.
HistoryBeyond(since) == {e \in ToSet(ring) : e.id > since + 1}

\* history: what is retained after since.
History(since) == {e \in ToSet(ring) : e.id > since}

\* The history route.  Numbers of an earlier life hide those that the new one has given, and
\* that the stream of this request does not bring.
Answer(k) ==
    /\ LoopFree /\ ask[k].pc = "asked"
    /\ ask' = [ask EXCEPT ![k].pc = "answered", ![k].events = History(ask[k].since)]
    /\ lost' = IF ask[k].life = life THEN lost
               ELSE lost \cup {e \in ToSet(ring) : e.id <= ask[k].since /\ (e.id < first[k] \/ ~Followed(k))}
    /\ UNCHANGED <<feed, source, server, streams, page, cur, lastId, lastLife, shown, seen, first,
                   faults>>

\* The server starts again: log, numbers and streams are those of a new process.
Restart ==
    /\ faults < MaxFaults /\ faults' = faults + 1
    /\ life' = life + 1 /\ ring' = <<>> /\ next' = 1 /\ bus' = <<>> /\ warm' = FALSE
    /\ at' = [c \in Calls |-> IF at[c] = "new" THEN "new" ELSE "done"]
    /\ number' = [c \in Calls |-> 0] /\ heard' = [c \in Calls |-> {}]
    /\ subs' = {} /\ flight' = [k \in Links |-> <<>>] /\ queue' = flight' /\ wire' = flight'
    /\ page' = IF page = "idle" THEN "idle" ELSE "off"
    /\ ask' = [k \in Links |-> IF ask[k].pc = "asked" THEN Unasked ELSE ask[k]]
    /\ first' = [k \in Links |-> 0] /\ lost' = {} /\ shown' = {}
    /\ UNCHANGED <<feed, source, cur, lastId, lastLife, seen>>

-----------------------------------------------------------------------------
(* The page.                                                                    *)

\* onEvent with the events given: one whose number was seen is not shown (ui); the apps page
\* knows events by uuid.
Show(events) ==
    LET fresh == IF feed = "ui" THEN {e \in events : e.id \notin seen} ELSE events IN
    /\ shown' = shown \cup fresh
    /\ seen' = seen \cup Ids(events)
    /\ lost' = lost \cup (events \ (fresh \cup shown))
    /\ LET newest == {e \in events : e.id > lastId /\ \A d \in events : d.id <= e.id} IN
       IF newest = {} THEN UNCHANGED <<lastId, lastLife>>
       ELSE \E e \in newest : lastId' = e.id /\ lastLife' = e.life

\* The log of the MCP server's own process, which no hook fills (_cao_fetch_history_impl).
ToolHistory == {}

\* EventStreamView: history first.
Load ==
    /\ page = "idle" /\ page' = "off"
    /\ Show(ToolHistory)
    /\ UNCHANGED <<feed, source, server, streams, cur, ask, first, faults>>

\* new EventSource: the route subscribes as soon as it has sent its headers.
Connect ==
    /\ LoopFree /\ page = "off" /\ cur < MaxLinks
    /\ cur' = cur + 1 /\ page' = IF feed = "ui" THEN "opening" ELSE "on"
    /\ first' = [first EXCEPT ![cur'] = next] /\ subs' = subs \cup {cur'}
    /\ lost' = IF feed = "ui" THEN lost ELSE lost \cup (ToSet(ring) \ shown)
    /\ UNCHANGED <<feed, source, server, flight, queue, wire, lastId, lastLife, shown, seen, ask, faults>>

\* onopen: the backfill asks for what is after the last number seen.
Opened ==
    /\ page = "opening" /\ page' = "on"
    /\ ask' = [ask EXCEPT ![cur] = [pc |-> "asked", since |-> lastId, life |-> lastLife, events |-> {}]]
    /\ UNCHANGED <<feed, source, server, streams, cur, lastId, lastLife, shown, seen, first, lost, faults>>

\* The answer of a backfill, also of one whose stream has broken since.
Backfilled(k) ==
    /\ ask[k].pc = "answered"
    /\ ask' = [ask EXCEPT ![k] = Unasked]
    /\ Show(ask[k].events)
    /\ UNCHANGED <<feed, source, server, streams, page, cur, first, faults>>

\* A backfill that fails is not made again: what was told before its stream subscribed is lost
\* when a later number is seen first.
BackfillFails(k) ==
    /\ ask[k].pc \in {"asked", "answered"} /\ faults < MaxFaults /\ faults' = faults + 1
    /\ ask' = [ask EXCEPT ![k] = Unasked]
    /\ lost' = lost \cup {e \in ToSet(ring) \ shown : e.id < first[k]}
    /\ UNCHANGED <<feed, source, server, streams, page, cur, lastId, lastLife, shown, seen, first>>

\* onmessage.
Receive ==
    /\ page = "on" /\ wire[cur] # <<>>
    /\ wire' = [wire EXCEPT ![cur] = Tail(@)]
    /\ Show({Head(wire[cur])})
    /\ UNCHANGED <<feed, source, server, subs, flight, queue, page, cur, ask, first, faults>>

UnderWay(k) ==
    ToSet(wire[k]) \cup ToSet(queue[k]) \cup ToSet(flight[k])
        \cup {EventOf(c) : c \in {c \in Calls : at[c] = "fan"}}

\* onerror: the stream is closed, and with it what it had not delivered; what is numbered
\* below the last number seen is not asked for again.
Broken ==
    /\ page \in {"opening", "on"} /\ page' = "off"
    /\ wire' = [wire EXCEPT ![cur] = <<>>] /\ queue' = [queue EXCEPT ![cur] = <<>>]
    /\ flight' = [flight EXCEPT ![cur] = <<>>]
    /\ lost' = lost \cup {e \in UnderWay(cur) \ shown : e.id <= lastId}
    /\ UNCHANGED <<feed, source, server, subs, cur, lastId, lastLife, shown, seen, ask, first, faults>>

-----------------------------------------------------------------------------
Next ==
    \/ \E c \in Calls : Published(c) \/ AppendEvent(c) \/ FanOut(c)
    \/ \E k \in Links : \/ Deliver(k) \/ Stream(k) \/ Unsubscribe(k)
                        \/ Answer(k) \/ Backfilled(k) \/ BackfillFails(k)
    \/ Consume \/ Restart \/ Load \/ Connect \/ Opened \/ Receive \/ Broken

Spec == Init /\ [][Next]_vars

\* Nothing is on its way to the page.
Quiet ==
    /\ page = "on" /\ UnderWay(cur) = {}
    /\ \A k \in Links : ask[k].pc \notin {"asked", "answered"}

\* A page that is connected shows every event that the log retains, but those that a full
\* queue dropped, that a failed backfill was to bring, that were overtaken when the stream broke
\* or that a server numbered again after a restart; the apps page, those told while it followed
\* no stream (UiEventLog, SseBus, eventsClient.ts, EventStreamView.tsx).
CaughtUp == Quiet => ToSet(ring) \subseteq shown \cup lost
=============================================================================
