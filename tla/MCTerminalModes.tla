---------------------------- MODULE MCTerminalModes ----------------------------
(* TerminalLifecycle for TLC and, beside it, two calls that type into, read or close *)
(* the panes of one session (PaneInput), in either backend, what CAO reads of each    *)
(* CLI in them (TurnReading), and what a page is told of it all (EventFeed).         *)
EXTENDS TerminalSide, FeedSide, TLC

CONSTANTS c0, c1, c2, wa, wb, wc, p1, p2, e1, e2

VARIABLES mode, cli, turn, phase, past, stream

screens == <<cli, turn, phase, past, stream>>
modes == <<mode, vars, panes, feeds, screens>>

Asked(k, w) == [kind |-> k, to |-> w]
Each == {"input", "inbox", "key", "clear", "read", "kill"}
Asks == {Asked(k, w) : k \in Each, w \in {wa, wb}} \cup {Asked("make", wc), Asked("killall", wa)}

\* Two calls, of which one at most makes window wc.
AsksOfTwo == {a \in [{p1, p2} -> Asks] : a[p1].kind = "make" => a[p2].kind # "make"}
TwoInOrder == {<<wa, wb>>}
TwoEntersInB == [w \in {wa, wb, wc} |-> IF w = wb THEN 2 ELSE 1]

Tellers == {(e1 :> "thread") @@ (e2 :> k) : k \in {"loop", "output"}}
               \cup {(e1 :> "output") @@ (e2 :> k) : k \in {"status", "output"}}

Reading == INSTANCE TurnReading WITH
               MaxTurns <- 2, MaxLines <- 4, StreamLines <- 17, Rows <- 12, Windows <- <<10, 14>>,
               FixedWindow <- 12

PanesAside == Panes!Init /\ backend = "tmux" /\ want = [c \in {p1, p2} |-> Asked("read", wa)]
FeedAside == Feed!Init /\ feed = "ui" /\ source[e2] = "loop"
ScreenAside == Reading!Init /\ cli = "claude"
Aside == Init /\ env = [s \in Names |-> NoCall]

\* A server that dies, and retention at its startup.
Aging == INSTANCE TerminalLifecycle WITH
             Kinds <- {"session", "flow", "join"}, Faults <- {"crash"}, MaxAged <- 1

Interchangeable == Permutations({c1, c2}) \cup Permutations({p1, p2})

ModesInit ==
    \/ mode \in {"lifecycle", "aging"} /\ Init /\ PanesAside /\ FeedAside /\ ScreenAside
    \/ mode = "panes" /\ Aside /\ Panes!Init /\ FeedAside /\ ScreenAside
    \/ mode = "feed" /\ Aside /\ PanesAside /\ Feed!Init /\ ScreenAside
    \/ mode = "reading" /\ Aside /\ PanesAside /\ FeedAside /\ Reading!Init

ModesNext ==
    /\ UNCHANGED mode
    /\ \/ mode = "lifecycle" /\ Next /\ UNCHANGED <<panes, feeds, screens>>
       \/ mode = "aging" /\ Aging!Next /\ UNCHANGED <<panes, feeds, screens>>
       \/ mode = "panes" /\ Panes!Next /\ UNCHANGED <<vars, feeds, screens>>
       \/ mode = "feed" /\ Feed!Next /\ UNCHANGED <<vars, panes, screens>>
       \/ mode = "reading" /\ Reading!Next /\ UNCHANGED <<vars, panes, feeds>>

ModesSpec == ModesInit /\ [][ModesNext]_modes

\* A CLI at work never reads as ready, from its pane or its stream, and its pane tells the end
\* of a turn and a question.
StatusIsTrue == mode = "reading" => Reading!PaneIsReadTruly /\ Reading!StreamNeverEarly

\* The output of a turn that ended is its answer.
OutputIsTheAnswer == mode = "reading" => Reading!OutputIsTheAnswer
=============================================================================
