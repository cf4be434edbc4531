------------------------------ MODULE PaneInput ------------------------------
(* What the two terminal backends do to the panes of one session: TmuxClient        *)
(* (clients/tmux.py) names its window in every command; HerdrBackend                *)
(* (backends/herdr_backend.py) looks up the number of a pane first and uses it       *)
(* afterwards.  Calls of terminal_service run beside each other in threads, and      *)
(* every command of a call is a step.  No lock is held around a call.               *)
(*                                                                                *)
(* The multiplexer is the environment: windows in the order they were opened, in     *)
(* herdr a pane's number is its place in that order, so that it moves when one before *)
(* it closes; a window has an input line, which Enter submits.                      *)
EXTENDS Naturals, Sequences, FiniteSets, SequencesExt

CONSTANTS
    Windows,        \* the names of windows: a name is never given twice
    Calls,
    Wanted,         \* the requests that the calls may be
    Atlas,          \* the windows that may be open at first, in order
    Enters,         \* per window: paste_enter_count of its provider
    MaxExits,       \* agents that exit by themselves
    MaxTries,       \* times that the inbox tries a message
    MaxFaults,
    None

CallKinds == {"input", "inbox", "key", "clear", "read", "make", "kill", "killall"}
Request == [kind : CallKinds, to : Windows]
Texts == {"input", "inbox"}

\* No two windows are given one name (generate_window_name).
NamesAreFresh ==
    /\ \A t \in Atlas : IsInjective(t)
    /\ \A a \in Wanted : \A c \in Calls :
           a[c].kind = "make" =>
               /\ \A t \in Atlas : a[c].to \notin ToSet(t)
               /\ \A d \in Calls \ {c} : a[d].kind = "make" => a[d].to # a[c].to

PaneInputAssumption ==
    /\ Wanted \subseteq [Calls -> Request]
    /\ Atlas \subseteq Seq(Windows)
    /\ NamesAreFresh
    /\ Enters \in [Windows -> Nat \ {0}]
    /\ MaxExits \in Nat /\ MaxTries \in Nat /\ MaxFaults \in Nat
    /\ None \notin Calls

VARIABLES
    backend,    \* "tmux" or "herdr"
    tabs,       \* the windows that are open, in order
    line,       \* per window: whose texts are on its input line
    prompts,    \* per window: the lines that were submitted to its CLI
    rows,       \* the windows that have a terminal row
    want,       \* per call: what it asks
    pc, left,   \* per call: where it is, and the Enters it has still to press
    pane,       \* per call (herdr): the pane number it found, 0 before
    buffer,     \* tmux's paste buffers: whose text each holds
    tries,      \* per call: attempts of the inbox
    answer,     \* per call: how it ended
    landed,     \* per call: the windows that its text, key, read or kill reached
    unsure,     \* calls whose pane number means another pane by now, or was a guess
    wiped,      \* calls whose text a C-c took from the line
    failed,     \* commands that failed: <<call, command>>
    exits

mux == <<tabs, line, prompts>>
vars == <<backend, mux, rows, want, pc, left, pane, buffer, tries, answer, landed, unsure,
          wiped, failed, exits>>

Answers == {"none", "ok", "unknown", "blocked", "retry", "gone", "error"}

TypeOK ==
    /\ backend \in {"tmux", "herdr"}
    /\ tabs \in Seq(Windows) /\ rows \subseteq Windows
    /\ line \in [Windows -> Seq(Calls)]
    /\ prompts \in [Windows -> SUBSET Seq(Calls)]
    /\ want \in [Calls -> Request] /\ answer \in [Calls -> Answers]
    /\ pane \in [Calls -> Nat] /\ left \in [Calls -> Nat] /\ tries \in [Calls -> Nat]
    /\ buffer \in [Calls -> Calls \cup {None}]
    /\ landed \in [Calls -> Seq(Windows)]
    /\ unsure \subseteq Calls /\ wiped \subseteq Calls

Init ==
    /\ backend \in {"tmux", "herdr"}
    /\ tabs \in Atlas /\ rows = ToSet(tabs)
    /\ line = [w \in Windows |-> <<>>] /\ prompts = [w \in Windows |-> {}]
    /\ want \in Wanted
    /\ pc = [c \in Calls |-> "start"] /\ left = [c \in Calls |-> 0]
    /\ pane = [c \in Calls |-> 0] /\ buffer = [c \in Calls |-> None]
    /\ tries = [c \in Calls |-> 0] /\ answer = [c \in Calls |-> "none"]
    /\ landed = [c \in Calls |-> <<>>]
    /\ unsure = {} /\ wiped = {} /\ failed = {} /\ exits = 0

Kind(c) == want[c].kind
To(c) == want[c].to
Open(w) == w \in ToSet(tabs)
Place(w) == CHOOSE i \in 1..Len(tabs) : tabs[i] = w
Go(c, label) == pc' = [pc EXCEPT ![c] = label]
Fails(c, command) == Cardinality(failed) < MaxFaults /\ failed' = failed \cup {<<c, command>>}

\* The call returns or raises.
Ends(c, how) == /\ answer' = [answer EXCEPT ![c] = how]
                /\ Go(c, "done")

-----------------------------------------------------------------------------
(* The multiplexer.                                                             *)

\* Whoever holds the number of a window that closes, or of one behind it, now holds another's.
Shifted(w) == {c \in Calls : pane[c] >= Place(w)}

\* Window w closes.
Close(w) ==
    /\ tabs' = RemoveAt(tabs, Place(w))
    /\ line' = [line EXCEPT ![w] = <<>>]
    /\ unsure' = unsure \cup Shifted(w)
    /\ UNCHANGED prompts

\* All of them close.
CloseAll ==
    /\ tabs' = <<>>
    /\ line' = [w \in Windows |-> <<>>]
    /\ unsure' = unsure \cup {c \in Calls : tabs # <<>> /\ pane[c] > 0}
    /\ UNCHANGED prompts

\* A command of call c reaches window w.
Reached(c, w) == landed' = [landed EXCEPT ![c] = Append(@, w)]

\* The text of call t reaches window w.
Typed(t, w) ==
    /\ line' = [line EXCEPT ![w] = Append(@, t)]
    /\ Reached(t, w)
    /\ UNCHANGED <<tabs, prompts>>

\* Enter in window w: what is on its line is a prompt.
Submitted(w) ==
    /\ prompts' = [prompts EXCEPT ![w] = @ \cup ({line[w]} \ {<<>>})]
    /\ line' = [line EXCEPT ![w] = <<>>]
    /\ UNCHANGED tabs

\* A special key in window w: Enter, or C-c, which empties the line.
Pressed(c, w) ==
    /\ Reached(c, w)
    /\ IF Kind(c) = "key"
       THEN Submitted(w) /\ UNCHANGED wiped
       ELSE /\ wiped' = wiped \cup ToSet(line[w])
            /\ line' = [line EXCEPT ![w] = <<>>]
            /\ UNCHANGED <<tabs, prompts>>

\* An agent exits and takes its window along.
AgentExits(w) ==
    /\ Open(w) /\ exits < MaxExits
    /\ exits' = exits + 1
    /\ Close(w)
    /\ UNCHANGED <<backend, rows, want, pc, left, pane, buffer, tries, answer, landed, wiped, failed>>

-----------------------------------------------------------------------------
(* terminal_service.                                                            *)

\* send_input, send_special_key, get_output, get_working_directory and delete_terminal read
\* the row; a creation and the end of a session need none.
HasRow(c) == Kind(c) \in {"make", "killall"} \/ To(c) \in rows

\* A provider may refuse the text (TerminalInputBlockedError) before it is typed.
Begin(c) ==
    /\ pc[c] = "start"
    /\ \/ /\ ~HasRow(c)
          /\ Ends(c, "unknown") /\ UNCHANGED <<left, tries>>
       \/ /\ Kind(c) \in Texts /\ HasRow(c)
          /\ Ends(c, "blocked") /\ UNCHANGED <<left, tries>>
       \/ /\ HasRow(c)
          /\ Go(c, IF backend = "tmux" THEN "run" ELSE IF Kind(c) = "make" THEN "make" ELSE "tab")
          /\ left' = [left EXCEPT ![c] = IF Kind(c) \in Texts THEN Enters[To(c)] ELSE 1]
          /\ tries' = [tries EXCEPT ![c] = @ + 1]
          /\ UNCHANGED answer
    /\ UNCHANGED <<backend, mux, rows, want, pane, buffer, landed, unsure, wiped, failed, exits>>

\* The command failed: send_input asks the backend whether the window is gone, the others raise.
Raised(c) == IF Kind(c) \in Texts THEN Go(c, "probe") /\ UNCHANGED answer ELSE Ends(c, "error")

\* The inbox tries again a message whose pane could not be found (TerminalNotFoundError).
NotGone(c) ==
    CASE pc[c] = "lost" /\ Kind(c) = "inbox" /\ tries[c] < MaxTries ->
             Go(c, "start") /\ UNCHANGED answer
      [] pc[c] = "lost" /\ Kind(c) = "inbox" /\ tries[c] >= MaxTries -> Ends(c, "retry")
      [] OTHER -> Ends(c, "error")

\* _is_window_gone: get_pane_current_command.  tmux's answers None of a window that is not
\* there and of a query that fails; herdr's raises of a pane that it does not find, and
\* answers None of one that has closed since and of one without a process.
Probe(c) ==
    /\ pc[c] \in {"probe", "lost"}
    /\ \/ ~Open(To(c)) /\ Ends(c, "gone") /\ UNCHANGED failed
       \/ Fails(c, "probe") /\ Ends(c, "gone")
       \/ (backend = "herdr" \/ Open(To(c))) /\ NotGone(c) /\ UNCHANGED failed
    /\ UNCHANGED <<backend, mux, rows, want, left, pane, buffer, tries, landed, unsure, wiped, exits>>

\* delete_terminal forgets the row whether or not the window could be killed.
Killed(c) == rows' = IF Kind(c) = "kill" THEN rows \ {To(c)} ELSE rows

-----------------------------------------------------------------------------
(* TmuxClient: the window is named in every command.                            *)

\* Mutant: the fixed name that send_keys_via_paste uses.
SharedBuffer(c) == CHOOSE d \in Calls : TRUE

\* The buffer that send_keys names after a fresh uuid.
BufferOf(c) == c

\* send_keys, load-buffer.
LoadBuffer(c) ==
    /\ backend = "tmux" /\ pc[c] = "run" /\ Kind(c) \in Texts
    /\ \/ /\ buffer' = [buffer EXCEPT ![BufferOf(c)] = c]
          /\ Go(c, "paste") /\ UNCHANGED failed
       \/ Fails(c, "load") /\ Go(c, "undo") /\ UNCHANGED buffer
    /\ UNCHANGED <<backend, mux, rows, want, left, pane, tries, answer, landed, unsure, wiped, exits>>

\* send_keys, paste-buffer: what the buffer holds, into the window named.
PasteBuffer(c) ==
    /\ pc[c] = "paste"
    /\ \/ /\ Open(To(c)) /\ buffer[BufferOf(c)] # None
          /\ Typed(buffer[BufferOf(c)], To(c))
          /\ Go(c, "enter") /\ UNCHANGED failed
       \/ /\ ~Open(To(c)) \/ buffer[BufferOf(c)] = None
          /\ Go(c, "undo") /\ UNCHANGED <<mux, landed, failed>>
       \/ Fails(c, "paste") /\ Go(c, "undo") /\ UNCHANGED <<mux, landed>>
    /\ UNCHANGED <<backend, rows, want, left, pane, buffer, tries, answer, unsure, wiped, exits>>

\* send_keys, after the submit delay: send-keys Enter, enter_count times.
PressEnter(c) ==
    /\ backend = "tmux" /\ pc[c] = "enter"
    /\ \/ /\ Open(To(c)) /\ Submitted(To(c))
          /\ left' = [left EXCEPT ![c] = @ - 1]
          /\ Go(c, IF left[c] = 1 THEN "free" ELSE "enter") /\ UNCHANGED failed
       \/ ~Open(To(c)) /\ Go(c, "undo") /\ UNCHANGED <<mux, left, failed>>
       \/ Fails(c, "enter") /\ Go(c, "undo") /\ UNCHANGED <<mux, left>>
    /\ UNCHANGED <<backend, rows, want, pane, buffer, tries, answer, landed, unsure, wiped, exits>>

\* send_keys, finally: delete-buffer.
DeleteBuffer(c) ==
    /\ pc[c] \in {"free", "undo"}
    /\ buffer' = [buffer EXCEPT ![BufferOf(c)] = None]
    /\ IF pc[c] = "free" THEN Ends(c, "ok") ELSE Raised(c)
    /\ UNCHANGED <<backend, mux, rows, want, left, pane, tries, landed, unsure, wiped, failed, exits>>

\* The other operations look the name up and send one command.
Tmux(c, kinds) ==
    /\ backend = "tmux" /\ pc[c] = "run" /\ Kind(c) \in kinds
    /\ UNCHANGED <<backend, want, left, pane, buffer, tries, exits>>

\* send_special_key.
TmuxKey(c) ==
    /\ Tmux(c, {"key", "clear"})
    /\ \/ Open(To(c)) /\ Pressed(c, To(c)) /\ Ends(c, "ok") /\ UNCHANGED failed
       \/ ~Open(To(c)) /\ Ends(c, "error") /\ UNCHANGED <<mux, landed, wiped, failed>>
       \/ Fails(c, "key") /\ Ends(c, "error") /\ UNCHANGED <<mux, landed, wiped>>
    /\ UNCHANGED <<rows, unsure>>

\* get_history, get_pane_working_directory, get_pane_current_command.
TmuxRead(c) ==
    /\ Tmux(c, {"read"})
    /\ \/ Open(To(c)) /\ Reached(c, To(c)) /\ Ends(c, "ok")
       \/ ~Open(To(c)) /\ Ends(c, "error") /\ UNCHANGED landed
    /\ UNCHANGED <<mux, rows, unsure, wiped, failed>>

\* create_session of a session without windows, create_window of one with some.
TmuxMake(c) ==
    /\ Tmux(c, {"make"})
    /\ \/ /\ tabs' = Append(tabs, To(c)) /\ rows' = rows \cup {To(c)}
          /\ Ends(c, "ok") /\ UNCHANGED <<line, prompts, failed>>
       \/ Fails(c, "make") /\ Ends(c, "error") /\ UNCHANGED <<mux, rows>>
    /\ UNCHANGED <<landed, unsure, wiped>>

\* kill_window answers False of a window that is not there and of a command that fails.
TmuxKill(c) ==
    /\ Tmux(c, {"kill"}) /\ Killed(c) /\ Ends(c, "ok")
    /\ \/ Open(To(c)) /\ Close(To(c)) /\ Reached(c, To(c)) /\ UNCHANGED failed
       \/ ~Open(To(c)) /\ UNCHANGED <<mux, unsure, landed, failed>>
       \/ Fails(c, "kill") /\ UNCHANGED <<mux, unsure, landed>>
    /\ UNCHANGED wiped

\* kill_session.
TmuxKillSession(c) ==
    /\ Tmux(c, {"killall"}) /\ Ends(c, "ok")
    /\ \/ CloseAll /\ UNCHANGED failed
       \/ Fails(c, "kill") /\ UNCHANGED <<mux, unsure>>
    /\ UNCHANGED <<rows, landed, wiped>>

-----------------------------------------------------------------------------
(* HerdrBackend: a pane is looked up, then used.                                *)

\* A pane that cannot be found (TerminalNotFoundError): send_input asks whether the window is
\* gone, a delete goes on to the row, the others raise.
NotFound(c) ==
    CASE Kind(c) \in Texts -> Go(c, "lost") /\ UNCHANGED answer
      [] Kind(c) \in {"kill", "killall"} -> Ends(c, "ok")
      [] OTHER -> Ends(c, "error")

\* _resolve_workspace_id and _resolve_tab_id: the tab that has the window's label.  A query
\* that fails is a terminal that is not found (_resolve_pane_id_from_window).
ResolveTab(c) ==
    /\ pc[c] = "tab"
    /\ \/ /\ IF Kind(c) = "killall" THEN tabs # <<>> ELSE Open(To(c))
          /\ Go(c, IF Kind(c) = "killall" THEN "use" ELSE "pane")
          /\ UNCHANGED <<rows, answer, failed>>
       \/ /\ IF Kind(c) = "killall" THEN tabs = <<>> ELSE ~Open(To(c))
          /\ NotFound(c) /\ Killed(c) /\ UNCHANGED failed
       \/ Fails(c, "tab") /\ NotFound(c) /\ Killed(c)
    /\ UNCHANGED <<backend, mux, want, left, pane, buffer, tries, landed, unsure, wiped, exits>>

\* The pane of that tab.
ResolvePane(c) ==
    /\ pc[c] = "pane"
    /\ \/ /\ Open(To(c))
          /\ pane' = [pane EXCEPT ![c] = Place(To(c))]
          /\ Go(c, IF Kind(c) \in Texts THEN "text" ELSE "use")
          /\ UNCHANGED <<rows, answer, failed>>
       \/ /\ ~Open(To(c))
          /\ NotFound(c) /\ Killed(c) /\ UNCHANGED <<pane, failed>>
       \/ Fails(c, "pane") /\ NotFound(c) /\ Killed(c) /\ UNCHANGED pane
    /\ UNCHANGED <<backend, mux, want, left, buffer, tries, landed, unsure, wiped, exits>>

Numbered(c) == pane[c] \in 1..Len(tabs)
There(c) == tabs[pane[c]]

\* A command that fails or is not answered within 30 s ends a text or a key with an error
\* and is only logged by _inject_env_vars.
HerdrRaised(c) == IF Kind(c) = "make" THEN Ends(c, "ok") ELSE Raised(c)

\* send_keys and _inject_env_vars, pane send-text.
SendText(c) ==
    /\ pc[c] = "text"
    /\ \/ Numbered(c) /\ Typed(c, There(c)) /\ Go(c, "enter") /\ UNCHANGED <<answer, failed>>
       \/ ~Numbered(c) /\ HerdrRaised(c) /\ UNCHANGED <<mux, landed, failed>>
       \/ Fails(c, "text") /\ HerdrRaised(c) /\ UNCHANGED <<mux, landed>>
       \/ Numbered(c) /\ Fails(c, "text") /\ Typed(c, There(c)) /\ HerdrRaised(c)
    /\ UNCHANGED <<backend, rows, want, left, pane, buffer, tries, unsure, wiped, exits>>

\* Mutant: the pane is looked up again before each Enter.
FreshEnter(c) ==
    /\ backend = "herdr" /\ pc[c] = "enter"
    /\ \/ /\ Open(To(c)) /\ Submitted(To(c)) /\ UNCHANGED failed
          /\ left' = [left EXCEPT ![c] = @ - 1]
          /\ IF left[c] = 1 THEN Ends(c, "ok") ELSE Go(c, "enter") /\ UNCHANGED answer
       \/ ~Open(To(c)) /\ NotFound(c) /\ UNCHANGED <<mux, left, failed>>
    /\ UNCHANGED <<backend, rows, want, pane, buffer, tries, landed, unsure, wiped, exits>>

\* send_keys and _inject_env_vars, pane send-keys Enter.
SendEnter(c) ==
    /\ backend = "herdr" /\ pc[c] = "enter"
    /\ \/ /\ Numbered(c) /\ Submitted(There(c))
          /\ left' = [left EXCEPT ![c] = @ - 1]
          /\ IF left[c] = 1 THEN Ends(c, "ok") ELSE Go(c, "enter") /\ UNCHANGED answer
          /\ UNCHANGED failed
       \/ ~Numbered(c) /\ HerdrRaised(c) /\ UNCHANGED <<mux, left, failed>>
       \/ Fails(c, "enter") /\ HerdrRaised(c) /\ UNCHANGED <<mux, left>>
    /\ UNCHANGED <<backend, rows, want, pane, buffer, tries, landed, unsure, wiped, exits>>

Herdr(c, kinds) ==
    /\ pc[c] = "use" /\ Kind(c) \in kinds
    /\ UNCHANGED <<backend, want, left, pane, buffer, tries, exits>>

\* send_special_key.
HerdrKey(c) ==
    /\ Herdr(c, {"key", "clear"})
    /\ \/ Numbered(c) /\ Pressed(c, There(c)) /\ Ends(c, "ok") /\ UNCHANGED failed
       \/ ~Numbered(c) /\ Ends(c, "error") /\ UNCHANGED <<mux, landed, wiped, failed>>
       \/ Fails(c, "key") /\ Ends(c, "error") /\ UNCHANGED <<mux, landed, wiped>>
    /\ UNCHANGED <<rows, unsure>>

\* get_history, get_pane_working_directory, get_pane_current_command and get_native_status:
\* a pane that is not there reads as nothing.
HerdrRead(c) ==
    /\ Herdr(c, {"read"}) /\ Ends(c, "ok")
    /\ IF Numbered(c) THEN Reached(c, There(c)) ELSE UNCHANGED landed
    /\ UNCHANGED <<mux, rows, unsure, wiped, failed>>

\* kill_window: pane close.
HerdrKill(c) ==
    /\ Herdr(c, {"kill"}) /\ Killed(c) /\ Ends(c, "ok")
    /\ \/ Numbered(c) /\ Close(There(c)) /\ Reached(c, There(c)) /\ UNCHANGED failed
       \/ ~Numbered(c) /\ UNCHANGED <<mux, landed, unsure, failed>>
       \/ Fails(c, "kill") /\ UNCHANGED <<mux, landed, unsure>>
    /\ UNCHANGED wiped

\* kill_session: workspace close.
HerdrKillSession(c) ==
    /\ Herdr(c, {"killall"}) /\ Ends(c, "ok")
    /\ \/ CloseAll /\ UNCHANGED failed
       \/ Fails(c, "kill") /\ UNCHANGED <<mux, unsure>>
    /\ UNCHANGED <<rows, landed, wiped>>

\* create_session and create_window: the tab is made, and its pane number is in the answer;
\* without it _inject_env_vars takes the last pane of a list it asks for.
MakeTab(c) ==
    /\ pc[c] = "make"
    /\ \/ /\ tabs' = Append(tabs, To(c)) /\ rows' = rows \cup {To(c)}
          /\ \/ /\ pane' = [pane EXCEPT ![c] = Len(tabs) + 1]
                /\ Go(c, "text") /\ UNCHANGED <<answer, failed>>
             \/ Fails(c, "answer") /\ Go(c, "scan") /\ UNCHANGED <<pane, answer>>
       \/ Fails(c, "make") /\ Ends(c, "error") /\ UNCHANGED <<tabs, rows, pane>>
    /\ UNCHANGED <<backend, line, prompts, want, left, buffer, tries, landed, unsure, wiped, exits>>

ScanPanes(c) ==
    /\ pc[c] = "scan"
    /\ IF tabs = <<>>
       THEN Ends(c, "ok") /\ UNCHANGED <<pane, unsure>>
       ELSE /\ pane' = [pane EXCEPT ![c] = Len(tabs)]
            /\ unsure' = unsure \cup {c} /\ Go(c, "text") /\ UNCHANGED answer
    /\ UNCHANGED <<backend, mux, rows, want, left, buffer, tries, landed, wiped, failed, exits>>

-----------------------------------------------------------------------------
Step(c) ==
    \/ Begin(c) \/ Probe(c)
    \/ LoadBuffer(c) \/ PasteBuffer(c) \/ PressEnter(c) \/ DeleteBuffer(c)
    \/ TmuxKey(c) \/ TmuxRead(c) \/ TmuxMake(c) \/ TmuxKill(c) \/ TmuxKillSession(c)
    \/ ResolveTab(c) \/ ResolvePane(c) \/ SendText(c) \/ SendEnter(c)
    \/ HerdrKey(c) \/ HerdrRead(c) \/ HerdrKill(c) \/ HerdrKillSession(c)
    \/ MakeTab(c) \/ ScanPanes(c)

Next == (\E c \in Calls : Step(c)) \/ (\E w \in Windows : AgentExits(w))
Spec == Init /\ [][Next]_vars

\* A text, a key, a read or a kill reaches the window it names and no other: in tmux whatever
\* else is sent, opened or closed meanwhile, in herdr as long as no pane at or before the one
\* it found closes before the last of its commands (send_keys, send_special_key, get_history,
\* kill_window of clients/tmux.py and backends/herdr_backend.py).
Addressed ==
    \A c \in Calls : c \in unsure \/ ToSet(landed[c]) \subseteq {To(c)}

\* What a caller is told is so: an accepted text was typed once and submitted, unless a C-c took
\* it away; one that is to be tried again was typed nowhere; a window that is said to be gone is
\* gone, unless the question failed (terminal_service.send_input, inbox_service.deliver_pending).
AnswerIsTrue ==
    \A c \in Calls :
        /\ Kind(c) \in Texts => Len(landed[c]) <= 1
        /\ (Kind(c) \in Texts /\ answer[c] = "ok" /\ c \notin unsure \cup wiped) =>
               \E p \in prompts[To(c)] : c \in ToSet(p)
        /\ answer[c] = "retry" => landed[c] = <<>>
        /\ answer[c] = "gone" => ~Open(To(c)) \/ <<c, "probe">> \in failed
=============================================================================
