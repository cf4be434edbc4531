------------------------------ MODULE TurnReading ------------------------------
(* A CLI at work in its pane, and what CAO reads of it: the status, of the stream of *)
(* its output and of the pane as it is composed, and the last answer, of as much     *)
(* history as get_output of terminal_service.py asks for. The CLIs are not a part of *)
(* the repository: each style draws what the comments of its provider and the        *)
(* fixtures of the tests show.                                                       *)
EXTENDS Naturals, Sequences, SequencesExt

CONSTANTS
    MaxTurns,
    MaxLines,       \* lines of a turn, below the echo of its message, at which it says no more
    StreamLines,    \* lines of the rolling buffer of the stream
    Rows,           \* rows of the pane
    Windows,        \* the windows of get_output, in lines, widening
    FixedWindow     \* the window of a provider that fixes it

Bullets == INSTANCE BulletScreens
Sections == INSTANCE SectionScreens

Styles == {"claude", "codex", "kimi", "oldkimi", "copilot", "kiro", "oldkiro", "cursor", "oldcursor",
           "agy", "hermes", "opencode"}

VARIABLES
    cli,        \* the style of the CLI in the pane
    turn,       \* messages sent to it
    phase,      \* what it does
    past,       \* the lines of its turns, above what it draws below them
    stream      \* the rolling buffer of its output

vars == <<cli, turn, phase, past, stream>>

Busy == {"think", "say", "call"}
Line(kind, t) == [k |-> kind, t |-> t]
Lines(kinds, t) == [i \in DOMAIN kinds |-> Line(kinds[i], t)]

-----------------------------------------------------------------------------
\* What the CLIs draw.

Echoes == [s \in Styles |->
    CASE s = "kiro" -> <<"rule", "query", "blank">>
      [] s = "cursor" -> <<"query">>
      [] s = "oldcursor" -> <<"rule", "echo", "rule">>
      [] s = "agy" -> <<"rule", "echo", "blank">>
      [] s = "opencode" -> <<"echo", "echo">>
      [] OTHER -> <<"echo">>]

Opening == [s \in Styles |->
    CASE s \in {"claude", "codex", "kimi", "oldkimi", "copilot", "oldkiro"} -> <<"bullet">>
      [] s = "hermes" -> <<"head", "text">>
      [] OTHER -> <<"text">>]

CallLines == [s \in Styles |->
    CASE s = "claude" -> <<"call", "tip">>
      [] s \in {"codex", "copilot"} -> <<"call">>
      [] s = "agy" -> <<"think", "title", "call">>
      [] s \in {"kimi", "oldkimi", "opencode"} -> <<"think">>
      [] OTHER -> <<>>]

Closing == [s \in Styles |->
    CASE s \in {"claude", "opencode"} -> <<"sum">>
      [] s = "kiro" -> <<"blank", "sum">>
      [] s = "hermes" -> <<"rule">>
      [] OTHER -> <<>>]

Rest == [s \in Styles |->
    CASE s = "claude" -> <<"rule", "prompt", "rule", "effort">>
      [] s = "codex" -> <<"hint", "bar">>
      [] s = "kimi" -> <<"rule", "bar">>
      [] s \in {"oldkimi", "oldkiro"} -> <<"prompt">>
      [] s = "copilot" -> <<"rule", "prompt", "rule", "bar">>
      [] s = "kiro" -> <<"rule", "head", "hint">>
      [] s = "cursor" -> <<"hint", "bar">>
      [] s = "oldcursor" -> <<"rule", "prompt">>
      [] s = "agy" -> <<"rule", "prompt", "rule", "idlefoot">>
      [] s = "hermes" -> <<"idlefoot", "rule", "prompt">>
      [] s = "opencode" -> <<"echo", "idlefoot">>]

Work == [s \in Styles |->
    CASE s = "claude" -> <<"spin", "tip", "rule", "prompt", "rule", "effort">>
      [] s = "codex" -> <<"spin", "hint", "bar">>
      [] s = "kimi" -> <<"rule", "spin", "bar">>
      [] s = "oldkimi" -> <<"spin">>
      [] s = "copilot" -> <<"spin", "rule", "hint", "rule", "bar">>
      [] s = "kiro" -> <<"head", "busyfoot">>
      [] s = "oldkiro" -> <<"busyfoot">>
      [] s = "cursor" -> <<"tip", "busyfoot", "bar">>
      [] s = "oldcursor" -> <<"spin", "rule">>
      [] s = "agy" -> <<"spin", "rule", "prompt", "rule", "busyfoot">>
      [] s = "hermes" -> <<"busyfoot">>
      [] s = "opencode" -> <<"part", "echo", "busyfoot">>]

\* The styles whose CLI may stop in the midst of a turn for an approval, and how it asks.
Asking == [s \in {"claude", "codex", "oldkiro", "cursor", "oldcursor", "agy", "hermes", "opencode"} |->
    CASE s \in {"claude", "agy"} -> <<"ask", "nav">>
      [] s = "oldkiro" -> <<"ask", "prompt">>
      [] s = "cursor" -> <<"ask", "bar">>
      [] s = "oldcursor" -> <<"ask", "rule", "prompt">>
      [] OTHER -> <<"ask">>]

Drawn(s, p) ==
    Lines(CASE p \in {"fresh", "done"} -> Rest[s]
            [] p \in Busy -> Work[s]
            [] p = "ask" -> Asking[s]
            [] p = "wait" -> <<"wait">> \o Rest[s], 0)

\* What the composed pane shows, and what a capture of so many lines of history holds.
History(n) == Bullets!Bottom(past \o Drawn(cli, phase), n)
Pane == History(Rows)

-----------------------------------------------------------------------------
\* What CAO reads.

\* get_status of each provider on a text: the stream, or the pane itself where the backend
\* feeds no stream (_resolve_buffer of base.py). mark_input_received latches, with the first
\* message, that Kimi was sent one.
Status(text) ==
    CASE cli = "claude" -> Bullets!ClaudeStatus(text)
      [] cli = "codex" -> Bullets!CodexStatus(text)
      [] cli \in {"kimi", "oldkimi"} -> Bullets!KimiStatus(text, Pane, turn > 0, turn > 0, FALSE)
      [] cli = "copilot" -> Bullets!CopilotStatus(text)
      [] cli \in {"kiro", "oldkiro"} -> Sections!KiroStatus(text, FALSE)
      [] cli \in {"cursor", "oldcursor"} -> Sections!CursorStatus(text, turn)
      [] cli = "agy" -> Sections!AgyStatus(text, Sections!FooterWindow, turn)
      [] cli = "hermes" -> Sections!HermesStatus(text, FALSE)
      [] cli = "opencode" -> Sections!OpenCodeStatus(text, FALSE)

\* get_status_from_screen, of the providers that have one of their own.
ScreenStatus ==
    CASE cli = "claude" -> Bullets!ClaudeScreenStatus(Pane)
      [] cli \in {"kimi", "oldkimi"} -> Bullets!KimiScreenStatus(Pane)
      [] cli = "agy" -> Sections!AgyStatus(Pane, 12, turn)
      [] cli = "opencode" -> Sections!OpenCodeStatus(Pane, TRUE)
      [] OTHER -> Status(Pane)

Answer(text) ==
    CASE cli = "claude" -> Bullets!ClaudeAnswer(text)
      [] cli = "codex" -> Bullets!CodexAnswer(text)
      [] cli \in {"kimi", "oldkimi"} -> Bullets!KimiAnswer(text)
      [] cli = "copilot" -> Bullets!CopilotAnswer(text)
      [] cli \in {"kiro", "oldkiro"} -> Sections!KiroAnswer(text, turn > 0)
      [] cli \in {"cursor", "oldcursor"} -> Sections!CursorAnswer(text)
      [] cli = "agy" -> Sections!AgyAnswer(text)
      [] cli = "hermes" -> Sections!HermesAnswer(text)
      [] cli = "opencode" -> Sections!OpenCodeAnswer(text)

\* get_output in the mode LAST: the first window whose text has an answer, at last the whole
\* history; a provider that fixes its window gets no other. <<>> is NO RESPONSE or an error.
FixesWindow == {"kiro", "oldkiro", "opencode"}
GetOutput ==
    IF cli \in FixesWindow THEN Answer(History(FixedWindow))
    ELSE LET found == {i \in DOMAIN Windows : Answer(History(Windows[i])) # <<>>}
         IN IF found # {} THEN Answer(History(Windows[Min(found)])) ELSE Answer(past \o Drawn(cli, phase))

-----------------------------------------------------------------------------
\* What the CLI does. It appends what is new to the stream, with what it draws below it.

Does(next, kinds) ==
    /\ phase' = next
    /\ past' = past \o Lines(kinds, turn')
    /\ stream' = Bullets!Bottom(stream \o Lines(kinds, turn') \o Drawn(cli, next), StreamLines)
    /\ UNCHANGED cli

\* What it has written in the turn, below the echo of the message.
Written == Cardinality({i \in DOMAIN past : past[i].t = turn}) - Len(Echoes[cli])
Room == Written < MaxLines

\* A message reaches the CLI: send_input, which counts it (mark_input_received).
Submit ==
    /\ phase \in {"fresh", "done"}
    /\ turn < MaxTurns
    /\ turn' = turn + 1
    /\ Does("think", Echoes[cli])

\* An answer, of one line or of two paragraphs.
Say ==
    /\ phase \in {"think", "call"} /\ Room
    /\ UNCHANGED turn
    /\ \E more \in {<<>>, <<"blank", "text">>} : Does("say", Opening[cli] \o more)

Call ==
    /\ phase \in {"think", "say"} /\ Room
    /\ UNCHANGED turn
    /\ Does("call", CallLines[cli])

Ask ==
    /\ phase = "call" /\ cli \in DOMAIN Asking /\ Room
    /\ UNCHANGED turn
    /\ Does("ask", <<>>)

\* In the line mode of Kiro, the question and its answer stay above what follows.
Approved ==
    /\ phase = "ask"
    /\ UNCHANGED turn
    /\ Does("call", IF cli = "oldkiro" THEN <<"ask", "echo">> ELSE <<>>)

\* Claude waits for a task in the background, its answer printed; then it goes on.
Wait ==
    /\ cli = "claude" /\ phase = "say"
    /\ UNCHANGED turn
    /\ Does("wait", <<>>)

Resume ==
    /\ phase = "wait"
    /\ UNCHANGED turn
    /\ Does("call", <<>>)

Finish ==
    /\ phase = "say"
    /\ UNCHANGED turn
    /\ Does("done", Closing[cli])

\* At work, or when a turn has ended, it draws the same again: a spinner that turns, a footer.
Redraw ==
    /\ phase \in Busy \cup {"done"}
    /\ LET drawn == Drawn(cli, phase) IN ~IsSuffix(drawn \o drawn, stream)
    /\ UNCHANGED turn
    /\ Does(phase, <<>>)

Init ==
    /\ cli \in Styles
    /\ turn = 0 /\ phase = "fresh" /\ past = <<>>
    /\ stream = Drawn(cli, "fresh")

Next == Submit \/ Say \/ Call \/ Ask \/ Approved \/ Wait \/ Resume \/ Finish \/ Redraw

Spec == Init /\ [][Next]_vars

-----------------------------------------------------------------------------
\* The legacy line mode of Kiro asks in a way that its own echo answers for; Codex looks for
\* its question only where no bullet is above it in the turn.
Unseen ==
    /\ phase = "ask"
    /\ cli = "oldkiro" \/ (cli = "codex" /\ Line("bullet", turn) \in Range(past))

Truth(status) ==
    /\ phase \in Busy \cup {"wait"} => status \notin Bullets!Ready
    /\ phase = "ask" /\ ~Unseen => status = "waiting"
    /\ phase = "fresh" => status = "idle"
    /\ phase = "done" => status = "completed"

\* Read from the pane as it stands, a CLI at work is not ready, a question is one, and a turn
\* that ended is completed, whatever earlier turns left above it (get_status and
\* get_status_from_screen of every provider; the line mode of old Kimi has no screen of its own).
PaneIsReadTruly == Truth(Status(Pane)) /\ (cli # "oldkimi" => Truth(ScreenStatus))

\* Copilot reads idle when the message that began the turn has left the stream.
Evicted == cli = "copilot" /\ Line("echo", turn) \notin Range(stream)

\* Whatever frames the rolling buffer still holds, none makes a CLI at work read as ready
\* (get_status of every provider, as StatusMonitor calls it).
StreamNeverEarly ==
    phase \in Busy \cup {"ask", "wait"} /\ ~Unseen /\ ~Evicted => Status(stream) \notin Bullets!Ready

Chrome == {"rule", "bar", "idlefoot", "busyfoot", "effort", "hint", "prompt", "sum", "spin", "echo",
           "query", "head"}

\* What it said last in its turns: below its last call or thought, from the last bullet on.
LastSaid ==
    LET from == Max({Bullets!LastOf(past, {"call", "tip", "think", "title", "head", "echo", "query"}),
                     Bullets!LastOf(past, {"bullet"}) - 1})
    IN Bullets!Without(Bullets!Below(past, from), Chrome \cup {"blank"})

\* The window that get_output tries first holds the whole turn.
TurnFits ==
    Len(SelectSeq(past, LAMBDA l : l.t = turn)) + Len(Rest[cli])
        <= IF cli \in FixesWindow THEN FixedWindow ELSE Windows[1]

\* The output of a turn that ended is its answer to the last line, with nothing of an earlier
\* turn and nothing that the CLI draws around it; where the markers of an answer cannot be
\* taken for others, in any window (terminal_service.get_output, extract_last_message_from_script).
OutputIsTheAnswer ==
    phase = "done" /\ cli # "cursor" /\ (TurnFits \/ cli \in {"claude", "agy", "hermes"}) =>
        LET out == Bullets!Without(GetOutput, {"blank"})
        IN /\ out # <<>>
           /\ \A i \in DOMAIN out : out[i].t = turn /\ out[i].k \notin Chrome
           /\ IsSuffix(LastSaid, out)
=============================================================================
