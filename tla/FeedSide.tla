------------------------------- MODULE FeedSide -------------------------------
(* EventFeed, for a module that composes it with another component of the server: *)
(* what clashes there has another name, and the specification is Feed!Spec.        *)
EXTENDS Naturals, Sequences, FiniteSets

CONSTANTS
    Told,           \* what there is to tell
    Sources, RingCapacity, QueueSize, MaxLinks,
    InboundSize,    \* of the queue of ui_event_consumer
    MaxCuts         \* restarts of the server, and history requests that fail

VARIABLES
    feed, source, life, ring, next, at, number, heard, inbound, warm, subs, flight, queue,
    wire, page, cur, lastId, lastLife, shown, noticed, ask, first, lost, cuts

feeds == <<feed, source, life, ring, next, at, number, heard, inbound, warm, subs, flight,
           queue, wire, page, cur, lastId, lastLife, shown, noticed, ask, first, lost, cuts>>

Feed == INSTANCE EventFeed WITH
            Calls <- Told, BusSize <- InboundSize, MaxFaults <- MaxCuts,
            bus <- inbound, seen <- noticed, faults <- cuts

ASSUME FeedSideAssumption == Feed!FeedAssumption

\* A page that is connected and idle shows what the log retains, but what the drops, failures
\* and restarts that EventFeed names took from it (UiEventLog, SseBus, eventsClient.ts).
CaughtUp == Feed!CaughtUp
=============================================================================
