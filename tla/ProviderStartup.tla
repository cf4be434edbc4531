-------------------------- MODULE ProviderStartup --------------------------
(* initialize() of the providers: wait for a shell, type the command of the CLI,  *)
(* answer the dialogs it may put up, and wait until it is ready. Time is counted   *)
(* in polls; a poll looks at the pane once and sleeps.                             *)
EXTENDS Naturals, Sequences

CONSTANTS
    Providers,     \* the providers that are started
    Scripts,       \* by provider: the sequences of dialogs its CLI may show
    Inline,        \* providers whose CLI leaves an answered dialog in the scrollback
    Gap,           \* startup_prompt_handler_timeout
    Cap,           \* provider_init_timeout
    Long,          \* the floor that some providers put under it
    Window,        \* a fixed time: codex and copilot look for dialogs, antigravity for a shell
    SettleCap,     \* the timeout of wait_until_input_ready
    Watch,         \* LAUNCH_TURN_WAIT_S
    QuitSleep,     \* the sleep of _quit_cli
    First, Pause   \* the longest silence of a prompt CLI, before its first step and later

NoDialog == "none"

-----------------------------------------------------------------------------
(* The startup handlers. order: the dialogs a handler knows, the first match wins; *)
(* once: a flag says it was answered; last: it is answered and the handler is done; *)
(* refused: it raises; exit: what else ends it; gap: also Gap polls after the last   *)
(* answer; cap: the bound of the loop.                                              *)

ClaudeDialogs ==
    [order |-> <<"bypass", "import", "onboarding", "trust">>, once |-> {"bypass", "import"},
     last |-> {"trust"}, refused |-> {"onboarding"}, exit |-> "chrome", gap |-> TRUE, cap |-> Cap]
CodexDialogs ==
    [order |-> <<"trust">>, once |-> {}, last |-> {"trust"}, refused |-> {},
     exit |-> "chrome", gap |-> FALSE, cap |-> Window]
KimiDialogs ==
    [order |-> <<"upgrade">>, once |-> {"upgrade"}, last |-> {}, refused |-> {},
     exit |-> "prompt", gap |-> TRUE, cap |-> Long]
AntigravityDialogs ==
    [order |-> <<"trust", "survey">>, once |-> {"trust", "survey"}, last |-> {}, refused |-> {},
     exit |-> "chrome", gap |-> TRUE, cap |-> Long]
\* Both wordings of the folder's trust are "trust", "confirm" is the [y/n] one, and "enter"
\* what only wants an Enter.
CopilotDialogs ==
    [order |-> <<"trust", "actions", "confirm", "enter">>, once |-> {}, last |-> {}, refused |-> {},
     exit |-> "prompt", gap |-> FALSE, cap |-> Window]
NoDialogs ==
    [order |-> <<>>, once |-> {}, last |-> {}, refused |-> {},
     exit |-> "at once", gap |-> FALSE, cap |-> 1]

(* initialize. ready: the bound of the wait for a ready status; next: what follows  *)
(* it; whole: the bound covers the handler, to which a late dialog goes back.       *)
ClaudeCode  == [dialogs |-> ClaudeDialogs, ready |-> Cap, next |-> "settle", whole |-> FALSE]
Codex       == [dialogs |-> CodexDialogs, ready |-> Cap, next |-> "ready", whole |-> FALSE]
KimiCli     == [dialogs |-> KimiDialogs, ready |-> Long, next |-> "ready", whole |-> FALSE]
Antigravity == [dialogs |-> AntigravityDialogs, ready |-> Long, next |-> "gate", whole |-> FALSE]
CopilotCli  == [dialogs |-> CopilotDialogs, ready |-> Cap, next |-> "ready", whole |-> TRUE]
KiroCli     == [dialogs |-> NoDialogs, ready |-> Cap, next |-> "ready", whole |-> FALSE]
CursorCli   == [dialogs |-> NoDialogs, ready |-> Cap, next |-> "ready", whole |-> FALSE]
OpenCodeCli == [dialogs |-> NoDialogs, ready |-> Long, next |-> "ready", whole |-> FALSE]
Hermes      == [dialogs |-> NoDialogs, ready |-> Long, next |-> "ready", whole |-> FALSE]

Startup ==
    [claude_code |-> ClaudeCode, codex |-> Codex, kimi_cli |-> KimiCli,
     antigravity_cli |-> Antigravity, copilot_cli |-> CopilotCli, kiro_cli |-> KiroCli,
     cursor_cli |-> CursorCli, opencode_cli |-> OpenCodeCli, hermes |-> Hermes]

-----------------------------------------------------------------------------
VARIABLES
    provider,         \* the provider
    pc,        \* where initialize is
    polls,     \* polls of the present loop
    waited,    \* polls of the wait for a ready status
    quiet,     \* polls since the last answer
    answered,  \* the dialogs answered since the launch
    target,    \* the dialog that was seen and is answered now
    still,     \* the last capture shows what is shown now
    launches,  \* commands typed
    cli,       \* "blank" (no shell yet), "shell", "loading", "dialog", "booting", "prompt", "exiting"
    up,        \* the dialog on the screen
    ahead,     \* dialogs that will come
    text,      \* dialogs whose text a capture shows
    gated,     \* the account gate is up (antigravity)
    silence,   \* polls since the CLI's last step
    slow,      \* ghost: the CLI was slower than First and Pause
    why,       \* what initialize raised
    strays     \* ghost: what was typed where it was not meant to go

init == <<pc, polls, waited, quiet, answered, target, still, launches, why>>
pane == <<cli, up, ahead, text, gated>>
vars == <<provider, init, pane, silence, slow, strays>>

S == Startup[provider]
H == S.dialogs

Init ==
    /\ provider \in Providers
    /\ pc = "shell" /\ polls = 0 /\ waited = 0 /\ quiet = 0 /\ answered = {}
    /\ target = NoDialog /\ still = FALSE /\ launches = 0 /\ why = "nothing"
    /\ cli = "blank" /\ up = NoDialog /\ ahead \in Scripts[provider] /\ text = {} /\ gated = FALSE
    /\ silence = 0 /\ slow = FALSE /\ strays = {}

-----------------------------------------------------------------------------
(* The pane: the shell, the CLI, and whoever else sits before it.                 *)

\* The ready chrome: drawn before input is accepted, and below the dialogs that cover it.
Chrome == cli \in {"booting", "prompt"} \/ up = "survey"

Acts == silence' = 0 /\ still' = FALSE /\ UNCHANGED <<provider, pc, polls, waited, quiet, answered,
                                                     target, launches, slow, why, strays>>

ShellComes == cli = "blank" /\ cli' = "shell" /\ Acts /\ UNCHANGED <<up, ahead, text, gated>>

Shows ==
    /\ cli = "loading" /\ ahead # <<>>
    /\ cli' = "dialog" /\ up' = Head(ahead) /\ ahead' = Tail(ahead) /\ text' = text \cup {Head(ahead)}
    /\ Acts /\ UNCHANGED gated

Leaves == cli = "exiting" /\ cli' = "shell" /\ Acts /\ UNCHANGED <<up, ahead, text, gated>>
Boots == cli = "loading" /\ ahead = <<>> /\ cli' = "booting" /\ Acts /\ UNCHANGED <<up, ahead, text, gated>>
Prompts == cli = "booting" /\ cli' = "prompt" /\ Acts /\ UNCHANGED <<up, ahead, text, gated>>

\* What the CLI prints pushes an answered dialog out of what is captured.
Evicts ==
    /\ \E d \in text \ {up} : text' = text \ {d}
    /\ still' = FALSE
    /\ UNCHANGED <<provider, pc, polls, waited, quiet, answered, target, launches, slow, why, strays,
                   silence, cli, up, ahead, gated>>

GateComes ==
    /\ provider = "antigravity_cli" /\ cli = "prompt" /\ pc \in {"wait", "gate"} /\ ~gated
    /\ gated' = TRUE /\ Acts /\ UNCHANGED <<cli, up, ahead, text>>

\* The effect of the right key.
Answer ==
    /\ cli' = "loading" /\ up' = NoDialog
    /\ text' = IF provider \in Inline THEN text ELSE text \ {up}
    /\ UNCHANGED <<ahead, gated>>

\* From here on the CLI may take its time.
Slows == ~slow /\ slow' = TRUE /\ UNCHANGED <<provider, init, pane, silence, strays>>

Pane ==
    \/ ShellComes \/ Leaves \/ Shows \/ Boots \/ Prompts \/ Evicts \/ GateComes \/ Slows

\* A CLI that is not slow leaves no more than this between two of its steps.
Bound == IF answered = {} /\ cli # "exiting" THEN First ELSE Pause
Owes == cli \in {"blank", "loading", "booting", "exiting"}
        \/ (provider = "codex" /\ cli = "prompt" /\ text # {})
Poll ==
    /\ slow \/ ~Owes \/ silence < Bound
    /\ silence' = IF silence < First + Pause THEN silence + 1 ELSE silence

-----------------------------------------------------------------------------
(* What initialize sees.                                                         *)

\* Mutant: a dialog whose text stays is answered again.
FlaglessMatches == {i \in 1..Len(H.order) : H.order[i] \in text}

Matches == {i \in 1..Len(H.order) : H.order[i] \in text \ (answered \cap H.once)}

\* The dialog that is answered next, if there is one.
Found == {H.order[i] : i \in {k \in Matches : \A j \in Matches : k <= j}}

HandlerDone ==
    \/ H.exit = "at once"
    \/ H.exit = "chrome" /\ Chrome
    \/ H.exit = "prompt" /\ cli = "prompt"

\* Claude's input box is drawn before it accepts input; the others show that they boot.
BoxDrawn == provider = "claude_code" /\ cli = "booting"
\* Codex reads as waiting as long as its trust question is in the buffer.
TrustPins == provider = "codex" /\ "trust" \in text
\* agy's footer stays below its survey.
FooterBelow == provider = "antigravity_cli" /\ up = "survey"
LooksReady == (cli = "prompt" /\ ~TrustPins) \/ BoxDrawn \/ FooterBelow

-----------------------------------------------------------------------------
(* initialize.                                                                   *)

Goes(there) == pc' = there /\ polls' = 0
Fails(reason) == pc' = "failed" /\ why' = reason /\ UNCHANGED polls
Same(s) == UNCHANGED s /\ UNCHANGED <<provider, slow>>

\* wait_for_shell: there is something on the screen, and it has not changed.
ShellCap == IF provider = "antigravity_cli" THEN Window ELSE Cap
ShellSeen == cli # "blank" /\ still
ShellReady ==
    /\ pc = "shell" /\ polls < ShellCap /\ ShellSeen /\ Goes("launch")
    /\ Same(<<waited, quiet, answered, target, still, launches, why, pane, silence, strays>>)
ShellSleeps ==
    /\ pc = "shell" /\ polls < ShellCap /\ ~ShellSeen
    /\ Poll /\ polls' = polls + 1 /\ still' = TRUE
    /\ Same(<<pc, waited, quiet, answered, target, launches, why, pane, strays>>)
ShellTimesOut ==
    /\ pc = "shell" /\ polls >= ShellCap /\ Fails("timeout")
    /\ Same(<<waited, quiet, answered, target, still, launches, pane, silence, strays>>)

\* The command is typed, codex' after an echo that warms the shell up; each launch has a handler
\* of its own.
Launch ==
    /\ pc = "launch" /\ Goes("dialogs")
    /\ launches' = launches + 1 /\ waited' = 0 /\ quiet' = 0 /\ answered' = {}
    /\ IF cli = "shell" THEN cli' = "loading" /\ silence' = 0 /\ UNCHANGED strays
       ELSE strays' = strays \cup {<<"command", cli>>} /\ UNCHANGED <<cli, silence>>
    /\ Same(<<target, still, why, up, ahead, text, gated>>)

\* The loop of the startup handler.
Over == polls >= H.cap \/ (H.gap /\ answered # {} /\ quiet >= Gap)
\* Mutant: the chrome is looked for before the dialogs that cover it.
HandlerEndsBelow ==
    /\ pc = "dialogs" /\ (Over \/ HandlerDone) /\ Goes("wait")
    /\ Same(<<waited, quiet, answered, target, still, launches, why, pane, silence, strays>>)

HandlerEnds ==
    /\ pc = "dialogs" /\ (Over \/ (Found = {} /\ HandlerDone)) /\ Goes("wait")
    /\ Same(<<waited, quiet, answered, target, still, launches, why, pane, silence, strays>>)

HandlerSees ==
    /\ pc = "dialogs" /\ ~Over
    /\ \E d \in Found \ H.refused : target' = d
    /\ pc' = "key"
    /\ Same(<<polls, waited, quiet, answered, still, launches, why, pane, silence, strays>>)
HandlerRaises ==
    /\ pc = "dialogs" /\ ~Over /\ Found \cap H.refused # {} /\ Fails("refused")
    /\ Same(<<waited, quiet, answered, target, still, launches, pane, silence, strays>>)
HandlerSleeps ==
    /\ pc = "dialogs" /\ ~Over /\ Found = {} /\ ~HandlerDone
    /\ Poll /\ polls' = polls + 1 /\ quiet' = quiet + 1
    /\ waited' = IF S.whole THEN waited + 1 ELSE waited
    /\ Same(<<pc, answered, target, still, launches, why, pane, strays>>)

\* The keys go to whatever is on the screen now.
Key ==
    /\ pc = "key"
    /\ IF up = target THEN Answer /\ silence' = 0 /\ UNCHANGED strays
       ELSE /\ strays' = strays \cup {<<target, up>>} /\ UNCHANGED <<pane, silence>>
    /\ answered' = answered \cup {target} /\ target' = NoDialog /\ quiet' = 1
    /\ IF target \in H.last THEN Goes("wait") ELSE pc' = "dialogs" /\ polls' = polls + 1
    /\ waited' = IF S.whole THEN waited + 1 ELSE waited
    /\ Same(<<still, launches, why>>)

\* wait_until_status, or copilot's loop.
WaitReady ==
    /\ pc = "wait" /\ waited < S.ready /\ LooksReady /\ Goes(S.next) /\ still' = FALSE
    /\ Same(<<waited, quiet, answered, target, launches, why, pane, silence, strays>>)
WaitAnswers ==
    /\ pc = "wait" /\ waited < S.ready /\ S.whole /\ up # NoDialog /\ Goes("dialogs")
    /\ waited' = waited + 1
    /\ Same(<<quiet, answered, target, still, launches, why, pane, silence, strays>>)
WaitSleeps ==
    /\ pc = "wait" /\ waited < S.ready /\ ~LooksReady /\ ~(S.whole /\ up # NoDialog)
    /\ Poll /\ waited' = waited + 1
    /\ Same(<<pc, polls, quiet, answered, target, still, launches, why, pane, strays>>)
WaitTimesOut ==
    /\ pc = "wait" /\ waited >= S.ready /\ ~(provider = "kiro_cli" /\ launches = 1)
    /\ Fails("timeout")
    /\ Same(<<waited, quiet, answered, target, still, launches, pane, silence, strays>>)

\* wait_until_input_ready: two equal captures with the box; at its timeout it goes on.
Settled == cli \in {"booting", "prompt"} /\ still
SettleSees ==
    /\ pc = "settle" /\ polls < SettleCap /\ Settled /\ Goes("ready")
    /\ Same(<<waited, quiet, answered, target, still, launches, why, pane, silence, strays>>)
\* A CLI that keeps time paints something in every poll until it accepts input.
SettleSleeps ==
    /\ pc = "settle" /\ polls < SettleCap /\ ~Settled
    /\ Poll /\ polls' = polls + 1
    /\ still' \in (IF cli = "booting" THEN {FALSE, slow} ELSE {TRUE})
    /\ Same(<<pc, waited, quiet, answered, target, launches, why, pane, strays>>)
SettleTimesOut ==
    /\ pc = "settle" /\ polls >= SettleCap /\ Goes("ready")
    /\ Same(<<waited, quiet, answered, target, still, launches, why, pane, silence, strays>>)

\* The CLI is told to exit, and its next launch may show dialogs again.
Exits ==
    /\ cli' = "exiting" /\ up' = NoDialog /\ gated' = FALSE /\ ahead' \in Scripts[provider]
    /\ text' = IF provider \in Inline THEN text ELSE {}
    /\ silence' = 0 /\ still' = FALSE

\* _gate_appears_during_launch: a gated CLI is quit and launched again, once.
GateSeen ==
    /\ pc = "gate" /\ gated
    /\ IF launches = 1 THEN Exits /\ Goes("quit") /\ UNCHANGED why
                       ELSE Fails("gated") /\ UNCHANGED <<pane, silence, still>>
    /\ Same(<<waited, quiet, answered, target, launches, strays>>)
GateClean ==
    /\ pc = "gate" /\ ~gated
    /\ IF polls >= Watch THEN Goes("ready") /\ UNCHANGED silence
       ELSE pc' = pc /\ polls' = polls + 1 /\ Poll
    /\ Same(<<waited, quiet, answered, target, still, launches, why, pane, strays>>)

\* _quit_cli sleeps, and looks at nothing.
Quit ==
    /\ pc = "quit"
    /\ IF polls >= QuitSleep THEN Goes("launch") /\ UNCHANGED silence
       ELSE pc' = pc /\ polls' = polls + 1 /\ Poll
    /\ Same(<<waited, quiet, answered, target, still, launches, why, pane, strays>>)

\* Kiro's TUI did not come up: --legacy-ui in the shell it falls back to.
FallBack ==
    /\ pc = "wait" /\ waited >= S.ready /\ provider = "kiro_cli" /\ launches = 1
    /\ Exits /\ Goes("shell")
    /\ Same(<<waited, quiet, answered, target, launches, why, strays>>)

Initialize ==
    \/ ShellReady \/ ShellSleeps \/ ShellTimesOut \/ Launch
    \/ HandlerEnds \/ HandlerSees \/ HandlerRaises \/ HandlerSleeps \/ Key
    \/ WaitReady \/ WaitAnswers \/ WaitSleeps \/ WaitTimesOut
    \/ SettleSees \/ SettleSleeps \/ SettleTimesOut \/ GateSeen \/ GateClean \/ Quit \/ FallBack

Next == Pane \/ Initialize
Spec == Init /\ [][Next]_vars

-----------------------------------------------------------------------------
(* Properties.                                                                   *)

\* What is typed meets what it is meant for: an answer its dialog, though the text of an answered
\* one may still be captured, and a command the shell, or a CLI that was told to leave it.
TypedWhereMeant == strays \subseteq {<<"command", "exiting">>}

\* What initialize says of a CLI that keeps time is so: one that it calls ready takes input (no
\* dialog is over it, it has booted, and the account gate is not up), none is given up, and no
\* launch is typed into the last one.
StartIsTrue ==
    slow \/ /\ pc = "ready" => cli = "prompt" /\ up = NoDialog /\ ~gated
            /\ why # "timeout" /\ strays = {}
=============================================================================
