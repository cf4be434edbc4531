----------------------------- MODULE BulletScreens -----------------------------
(* How the providers of the CLIs that mark an answer with a bullet read a terminal:  *)
(* claude_code.py, codex.py, kimi_cli.py, copilot_cli.py. Each has a detector of the *)
(* stream or pane (get_status), some one of the composited screen                    *)
(* (get_status_from_screen), and an extractor of the last answer, whose ValueError   *)
(* is the empty answer <<>>.                                                         *)
EXTENDS ScreenText

\* "lone" is a response glyph with nothing after it, "clip" a summary cut off by a redraw,
\* "effort" the footer that a frame can draw at the start of a line, "hint" an input line
\* with a placeholder in it.
ClaudeReplies == {"bullet", "call"}
Summaries == {"sum", "clip"}
InputLines == {"prompt", "hint", "echo"}

Boxed(o, p) == p > 1 /\ p < Len(o) /\ o[p].k = "prompt" /\ o[p - 1].k = "rule" /\ o[p + 1].k = "rule"
SpinnerOnBox(o, p) ==
    LET near == Without(Bottom(Above(o, p - 1), 4), {"tip", "blank"})
    IN near # <<>> /\ Last(near).k = "spin"

\* The wait for a background task, unless something newer is below it.
ClaudeWaits(o) ==
    LET low == Bottom(o, 20)
    IN LastOf(low, {"wait"}) > LastOf(low, Summaries \cup ClaudeReplies)

ClaudeRested(o) ==
    IF ~Has(o, InputLines) THEN "unknown"
    ELSE IF Has(o, Summaries \cup ClaudeReplies) THEN "completed" ELSE "idle"

ClaudeStatus(o) ==
    LET rule == LastOf(o, {"rule"})
        input == LastOf(o, InputLines)
        \* a summary below the last rule, and no spinner below it: a finished turn without a box
        boxless == LastOf(Below(o, rule), Summaries) > LastOf(Below(o, rule), {"spin"})
    IN CASE o = <<>> -> "unknown"
         [] rule > 0 /\ ~boxless /\ SpinnerAboveRule(o, rule) -> "processing"
         [] rule = 0 /\ LastOf(o, {"spin"}) > input -> "processing"
         [] Has(o, {"nav"}) /\ ~Has(o, {"trust"}) -> "waiting"
         [] Boxed(o, input) /\ SpinnerOnBox(o, input) -> "processing"
         [] ClaudeWaits(o) -> "processing"
         [] OTHER -> ClaudeRested(o)

ClaudeScreenStatus(o) ==
    LET low == Bottom(o, 25)
        railed == \E p \in At(o, InputLines), a, b \in At(o, {"rule"}) :
                      p - a \in 1..2 /\ b - p \in 1..2
    IN CASE o = <<>> -> "unknown"
         [] Has(low, {"spin"}) -> "processing"
         [] Has(low, {"nav"}) /\ ~Has(o, {"trust"}) -> "waiting"
         [] Has(low, {"wait"}) -> "processing"
         [] railed /\ (Has(o, Summaries \cup {"wait"}) \/ Has(o, ClaudeReplies)) -> "completed"
         [] railed -> "idle"
         [] OTHER -> "unknown"

\* The last response marker and what is below it, to the input line, a rule or the summary.
\* The text of the marker's own line is a part of the answer.
ClaudeAnswer(o) ==
    LET start == LastOf(o, ClaudeReplies)
    IN IF start = 0 THEN <<>> ELSE Strip(Until(SubSeq(o, start, Len(o)), InputLines \cup {"rule", "sum"}))

\* Codex: "echo" is a line "› text", and so is the suggestion in the input line, "hint".
CodexUser == {"echo", "hint"}
CodexMarkers == {"bullet", "spin"}      \* an MCP tool call ("call") is a bullet that is skipped

\* Mutant: the suggestion in the input line is not a part of the footer.
SuggestionStays(o) ==
    LET bar == LastOf(o, {"bar"})
    IN IF bar > 0 /\ bar > Len(o) - 5 THEN bar ELSE Len(o) + 1

\* Where the footer begins: the status bar within the last lines, and the suggestion above it.
CodexCut(o) ==
    LET bar == LastOf(o, {"bar"})
        found == bar > 0 /\ bar > Len(o) - 5
    IN CASE ~found -> Len(o) + 1
         [] found /\ bar > 1 /\ o[bar - 1].k \in InputLines -> bar - 1
         [] OTHER -> bar

CodexStatus(o) ==
    LET cut == CodexCut(o)
        user == LastOf(Above(o, cut), CodexUser)
        turn == Below(o, Max({0, user - 1}))
        replied == user > 0 /\ Has(turn, CodexMarkers)
        asked == IF user > 0 THEN turn ELSE Bottom(o, 25)
    IN CASE o = <<>> -> "unknown"
         [] Has(o, {"trust"}) -> "waiting"
         [] ~replied /\ Has(asked, {"ask"}) -> "waiting"
         [] ~replied /\ Has(asked, {"error"}) -> "error"
         [] ~Has(Bottom(o, 5), InputLines) -> "processing"
         [] Has(Bottom(o, 25), {"spin"}) -> "processing"
         [] Has(IF user > 0 THEN turn ELSE Above(o, cut), CodexMarkers) -> "completed"
         [] OTHER -> "idle"

\* From the first marker below the user's last line to the empty prompt, else to the footer;
\* when the user's line is not in the text, from the last marker on.
CodexAnswer(o) ==
    LET cut == CodexCut(o)
        user == LastOf(Above(o, cut), CodexUser)
        first == Min({i \in At(o, CodexMarkers) : i > user} \cup {Len(o) + 1})
        start == IF first <= Len(o) THEN first ELSE user + 1
        rest == SubSeq(o, start, Len(o))
        kept == IF Has(rest, {"prompt"}) THEN Until(rest, {"prompt"}) ELSE SubSeq(o, start, cut - 1)
        last == LastOf(o, CodexMarkers)
    IN CASE user > 0 /\ Strip(kept) # <<>> -> Strip(kept)
         [] last = 0 -> <<>>
         [] OTHER -> Strip(Until(SubSeq(o, last, Len(o)), {"prompt"}))

\* Kimi: "bar" is the footer of the new TUI ("context: N%"); "boot" a spinner of the MCP
\* servers. latched: an answer was ever seen; sent: a message was dispatched; grace: less
\* than five seconds ago; pane: what a capture of the pane shows.
KimiBullets == {"bullet", "think"}

KimiLatched(o, latched) ==
    \/ latched
    \/ IF Has(o, {"bar"}) THEN Has(o, KimiBullets) ELSE Has(o, {"echo"})

\* The emoji prompt of the older TUI.
KimiPrompted(o, ready) ==
    LET low == Bottom(o, 50)
    IN CASE Has(low, {"prompt"}) -> IF ready = "completed" /\ Has(low, {"spin"}) THEN "processing" ELSE ready
         [] ~Has(low, {"prompt"}) /\ Has(o, {"error"}) -> "error"
         [] OTHER -> "processing"

KimiStatus(o, pane, latched, sent, grace) ==
    LET spin == LastOf(o, {"spin"})
        ready == IF KimiLatched(o, latched) THEN "completed" ELSE "idle"
    IN CASE o = <<>> -> "unknown"
         [] Has(o, {"bar"}) /\ spin > 0 /\ (spin > Len(o) - 15 \/ spin > LastOf(o, KimiBullets)) -> "processing"
         [] Has(o, {"bar"}) /\ sent /\ (grace \/ Has(Bottom(pane, 25), {"spin"})) -> "processing"
         [] Has(o, {"bar"}) /\ Has(o, {"error"}) -> "error"
         [] Has(o, {"bar"}) -> ready
         [] OTHER -> KimiPrompted(o, ready)

KimiScreenStatus(o) ==
    LET low == Bottom(o, 18)
        ready == IF Has(o, KimiBullets) THEN "completed" ELSE "idle"
    IN CASE o = <<>> -> "unknown"
         [] Has(o, {"boot"}) -> "processing"
         [] Has(o, {"bar"}) /\ Has(low, {"spin"}) -> "processing"
         [] Has(o, {"bar"}) /\ Has(o, {"error"}) -> "error"
         [] Has(o, {"bar"}) -> ready
         [] Has(low, {"prompt", "echo"}) -> ready
         [] Has(o, {"error"}) -> "error"
         [] OTHER -> "unknown"

\* Below the user's last line to the input box, the footer or the bare prompt, without the
\* thinking, unless there is nothing else; when that line is not in the text, all there is.
KimiAnswer(o) ==
    LET user == LastOf(o, {"echo"})
        all == Without(IF user > 0 THEN Until(Below(o, user), {"prompt", "rule", "bar"})
                       ELSE Above(o, IF Has(o, {"prompt"}) THEN LastOf(o, {"prompt"}) ELSE Len(o) + 1),
                       {"blank"})
        said == Without(all, IF user > 0 THEN {"think"} ELSE {"think", "head"})
    IN IF said = <<>> /\ user > 0 THEN all ELSE said

\* Copilot: "bar", rules and hints are footer lines; "spin" is a line with "esc to cancel".
CopilotFooter == {"rule", "bar", "blank"}

CopilotPrompted(o) ==
    LET low == Bottom(Strip(o), 25)
        p == LastOf(low, InputLines)
    IN p > 0 /\ Without(Below(low, p), CopilotFooter) = <<>>

CopilotSaid(o) == Without(Below(o, LastOf(o, {"echo"})), CopilotFooter \cup InputLines)

CopilotStatus(o) ==
    LET low == Bottom(o, 40)
        asking == LastOf(low, {"ask"}) > LastOf(low, InputLines)
        user == LastOf(o, {"echo"})
        said == CopilotSaid(o)
    IN CASE o = <<>> -> "unknown"
         [] asking /\ ~CopilotPrompted(o) -> "waiting"
         [] ~CopilotPrompted(o) /\ user > 0 /\ Has(Below(o, user), {"error"}) -> "error"
         [] ~CopilotPrompted(o) -> "processing"
         [] user = 0 \/ said = <<>> -> "idle"
         [] Last(said).k = "spin" -> "processing"
         [] Has(said, {"error"}) /\ ~Has(said, {"bullet", "call"}) -> "error"
         [] OTHER -> "completed"

CopilotAnswer(o) ==
    LET said == CopilotSaid(o)
        kept == SubSeq(said, 1, Max({0} \cup {i \in DOMAIN said : said[i].k # "spin"}))
        marker == LastOf(o, {"bullet", "call", "spin"})
    IN IF LastOf(o, {"echo"}) > 0 /\ kept # <<>> THEN kept
       ELSE IF marker > 0 THEN Strip(Below(o, marker)) ELSE <<>>
=============================================================================
