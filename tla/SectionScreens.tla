---------------------------- MODULE SectionScreens ----------------------------
(* How the providers of the CLIs that set an answer off in a section of the screen    *)
(* read a terminal: kiro_cli.py, cursor_cli.py, antigravity_cli.py, hermes.py,       *)
(* opencode_cli.py. As in BulletScreens, an extractor's ValueError is <<>>.           *)
EXTENDS ScreenText

\* Kiro: "prompt", "echo" and "slash" are the legacy "[agent] N% >" alone, with a text and
\* with a command, "hint" the placeholder of the new TUI (which shows the user's text as a
\* "query"), "bullet" the arrow of a legacy answer, "sum" the Credits line, "boot" the
\* start-up line and "busyfoot" the working text. gone: the pane is back at the shell.
KiroPrompts == {"prompt", "echo", "slash"}
KiroIdle == KiroPrompts \cup {"hint"}

KiroBoxed(o) ==
    LET idle == LastOf(o, {"hint"})
        end == LastOf(Above(o, idle), {"rule"})
        start == LastOf(Above(o, end), {"rule"})
    IN idle > 0 /\ end > 0 /\ start > 0 /\ Len(Without(Between(o, start, end), {"blank"})) >= 2

\* A question that at most one input line is below.
KiroAsks(o) ==
    LET asked == LastOf(o, {"ask"})
    IN asked > 0 /\ Cardinality(At(Below(o, asked), KiroIdle)) <= 1

KiroStatus(o, gone) ==
    LET idle == LastOf(o, KiroIdle)
        arrow == LastOf(o, {"bullet"})
        credits == LastOf(o, {"sum"})
    IN CASE o = <<>> -> "unknown"
         [] LastOf(o, {"boot"}) > idle -> "processing"
         [] LastOf(o, {"busyfoot"}) > idle -> "processing"
         [] idle = 0 -> IF gone THEN "idle" ELSE "processing"
         [] Has(o, {"error"}) -> "error"
         [] KiroAsks(o) -> "waiting"
         [] arrow > 0 -> IF idle > arrow THEN "completed" ELSE "processing"
         [] credits > 0 -> IF idle > credits THEN "completed" ELSE "processing"
         [] KiroBoxed(o) -> "completed"
         [] OTHER -> "idle"

\* The user's text is the first paragraph of a section, when there is a blank line below it.
PastQuery(section) ==
    LET rest == Strip(Below(section, FirstOf(section, {"blank"})))
    IN IF rest = <<>> THEN Strip(section) ELSE rest

\* From the rule of the turn to its Credits line; without one, between the last two rules.
KiroSection(o, sent) ==
    LET credits == LastOf(o, {"sum"})
        before == LastOf(Above(o, credits), {"sum"})
        rules == {i \in At(o, {"rule"}) : i > before}
        idle == LastOf(o, {"hint"})
        end == LastOf(Above(o, idle), {"rule"})
        start == LastOf(Above(o, end), {"rule"})
    IN CASE credits = 0 /\ ~(sent /\ idle > 0 /\ end > 0 /\ start > 0) -> <<>>
         [] credits = 0 -> PastQuery(Without(Between(o, start, end), {"head"}))
         [] rules = {} -> <<>>
         [] OTHER -> LET rule == Min(rules)
                     IN PastQuery(Between(o, IF rule < credits THEN rule ELSE before, credits))

KiroAnswer(o, sent) ==
    LET last == LastOf(o, KiroPrompts)
        prior == LastOf(Above(o, last), KiroPrompts)
        arrow == LastOf(o, {"bullet"})
        after == {i \in At(o, KiroPrompts) : i > arrow}
        hints == {i \in At(o, {"hint"}) : i > arrow}
        ends == IF after # {} THEN after ELSE hints
        typed == Strip(Between(o, prior, last))
    IN CASE prior > 0 /\ o[prior].k = "slash" /\ ~Has(Between(o, prior, last), {"bullet"}) /\ typed # <<>> -> typed
         [] arrow = 0 -> KiroSection(o, sent)
         [] ends = {} -> <<>>
         [] OTHER -> Strip(Between(o, arrow - 1, Min(ends)))

\* Cursor: "busyfoot" is the input line with "ctrl+c to stop", "bar" the status bar of the
\* TUI, "spin" a spinner of the older text mode, whose input lines are "prompt" and "echo".
\* Whether its turn is over shows only in the count of the messages sent.
CursorRested(o, busy, turns) ==
    IF Has(o, {"prompt", "echo"}) \/ (~busy /\ Has(o, {"bar"}))
    THEN IF turns > 0 THEN "completed" ELSE "idle"
    ELSE "unknown"

CursorStatus(o, turns) ==
    LET rule == LastOf(o, {"rule"})
        input == LastOf(o, {"prompt", "echo"})
        busy == Has(Bottom(o, 12), {"busyfoot"})
    IN CASE o = <<>> -> "unknown"
         [] rule > 0 /\ SpinnerAboveRule(o, rule) -> "processing"
         [] rule = 0 /\ LastOf(o, {"spin"}) > input -> "processing"
         [] Has(o, {"nav", "trust", "ask"}) -> "waiting"
         [] busy /\ Has(o, {"bar"}) -> "processing"
         [] OTHER -> CursorRested(o, busy, turns)

\* What is between the last two rules above the last input line.
CursorAnswer(o) ==
    LET input == LastOf(o, {"prompt", "echo"})
        end == LastOf(Above(o, input), {"rule"})
        start == LastOf(Above(o, end), {"rule"})
    IN IF input = 0 \/ end = 0 THEN <<>> ELSE Strip(Between(o, start, end))

\* Antigravity: the footers "idlefoot" and "busyfoot" replace each other. The stream is read
\* as far up as the window of the footer, the screen in its last twelve rows.
FooterWindow == 25

\* Mutant: the idle footer is looked for first.
IdleFooterFirst(o, window, turns) ==
    LET low == Bottom(o, window)
    IN CASE o = <<>> -> "unknown"
         [] Has(low, {"ask", "nav"}) -> "waiting"
         [] Has(low, {"idlefoot"}) -> IF turns > 0 THEN "completed" ELSE "idle"
         [] Has(low, {"busyfoot", "spin"}) -> "processing"
         [] Has(o, {"error"}) -> "error"
         [] OTHER -> "unknown"

AgyStatus(o, window, turns) ==
    LET low == Bottom(o, window)
    IN CASE o = <<>> -> "unknown"
         [] Has(low, {"ask", "nav"}) -> "waiting"
         [] Has(low, {"busyfoot", "spin"}) -> "processing"
         [] Has(low, {"idlefoot"}) -> IF turns > 0 THEN "completed" ELSE "idle"
         [] Has(o, {"error"}) -> "error"
         [] OTHER -> "unknown"

AgyChrome == {"rule", "idlefoot", "busyfoot", "tip", "spin", "think", "call", "head"}
\* Below the user's last line to the first rule, without the chrome and without the line
\* below a thought, which is its title.
AgyAnswer(o) ==
    LET user == LastOf(o, {"echo"})
        body == Without(Until(Below(o, user), {"rule"}), {"blank"})
        kept == {i \in DOMAIN body : /\ body[i].k \notin AgyChrome
                                     /\ ~(i > 1 /\ body[i - 1].k = "think")}
        rows == SetToSortSeq(kept, <)
    IN IF user = 0 THEN <<>> ELSE [i \in DOMAIN rows |-> body[rows[i]]]

\* Hermes: "head" is the header of an answer, "idlefoot" the status line with the idle timer,
\* which counts when it has stood still for some polls.
HermesChrome == {"prompt", "rule", "idlefoot", "busyfoot", "head", "echo"}

\* The last lines without chrome between them, below the last header or the user's last line.
HermesAnswer(o) ==
    LET start == IF Has(o, {"head"}) THEN LastOf(o, {"head"}) ELSE LastOf(o, {"echo"})
        region == Without(Until(Below(o, start), {"prompt"}), {"blank"})
        said == {i \in DOMAIN region : region[i].k \notin HermesChrome}
    IN IF start = 0 \/ said = {} THEN <<>>
       ELSE Below(Above(region, Max(said) + 1), LastOf(Above(region, Max(said)), HermesChrome))

HermesStatus(o, stable) ==
    LET tail == Bottom(o, 30)
        low == Bottom(Without(tail, {"blank"}), 8)
    IN CASE o = <<>> -> "error"
         [] Has(low, {"ask"}) -> "waiting"
         [] Has(tail, {"error"}) -> "error"
         [] Has(low, {"busyfoot"}) -> "processing"
         [] (stable /\ Has(tail, {"idlefoot"})) \/ Has(low, {"prompt"}) ->
                IF Has(o, {"echo"}) /\ (Has(o, {"head"}) \/ HermesAnswer(o) # <<>>)
                THEN "completed" ELSE "idle"
         [] OTHER -> "processing"

\* OpenCode: the footer of a turn at work, "busyfoot", ends in the keys of the idle one; "sum"
\* is a completion marker with its duration, "part" one without, "echo" a line with a bar.
OpenFeet == {"idlefoot", "busyfoot"}
OpenCodeStatus(o, composited) ==
    LET asked == LastOf(o, {"ask"})
        esc == LastOf(o, {"busyfoot"})
        done == LastOf(o, {"sum"})
        stale == esc > 0 /\ Has(Below(o, esc), {"idlefoot", "sum"})
    IN CASE o = <<>> -> "unknown"
         [] asked > 0 /\ ~Has(IF composited THEN o ELSE Below(o, asked), OpenFeet) -> "waiting"
         [] esc > 0 /\ ~stale -> "processing"
         [] done > 0 /\ Has(Below(o, done), OpenFeet) /\ ~Has(Below(o, done), {"sum", "part"}) -> "completed"
         [] Has(o, OpenFeet) -> "idle"
         [] OTHER -> "unknown"

OpenCodeAnswer(o) ==
    LET done == LastOf(o, {"sum"})
        turn == Above(o, done)
        start == IF Has(turn, {"echo"}) THEN LastOf(turn, {"echo"}) ELSE FirstOf(turn, {"text", "bullet"}) - 1
    IN IF done = 0 THEN <<>> ELSE Strip(Without(Below(turn, start), {"echo", "think"}))
=============================================================================
