----------------------------- MODULE TerminalSide -----------------------------
(* The terminals of one API server (TerminalLifecycle) and, beside them, the calls   *)
(* that type into, read or close the panes of a session (PaneInput): they share the  *)
(* process and nothing else.                                                         *)
EXTENDS TerminalLifecycle, Sequences

CONSTANTS
    \* PaneInput; a fault is one of TerminalLifecycle's number
    Windows, Senders, Wanted, Atlas, Enters, MaxExits, MaxTries

VARIABLES
    backend, tabs, line, prompts, known, want, pc, enters, pane, buffer, tries, answer,
    landed, unsure, wiped, failed, exits

panes == <<backend, tabs, line, prompts, known, want, pc, enters, pane, buffer, tries,
           answer, landed, unsure, wiped, failed, exits>>

Panes == INSTANCE PaneInput WITH Calls <- Senders, None <- NoCall, rows <- known, left <- enters

ASSUME SideAssumption == Panes!PaneInputAssumption

\* A text, a key, a read or a kill reaches the window it names, and no other, unless a pane
\* before it closes under it (send_keys of clients/tmux.py and backends/herdr_backend.py).
Addressed == Panes!Addressed

\* A text that was accepted was submitted once, one that is tried again was typed nowhere, and
\* a window said to be gone is gone (terminal_service.send_input, inbox_service).
AnswerIsTrue == Panes!AnswerIsTrue
=============================================================================
