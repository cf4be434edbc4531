-------------------------- MODULE AgentStepStartup --------------------------
(* The agent step beside what the creation of its terminal waits for: initialize() *)
(* of the provider that the terminal runs.                                          *)
EXTENDS AgentStep

CONSTANTS
    Providers, Scripts, Inline,
    Gap, InitCap, Long, Window, SettleCap, Watch, QuitSleep, First, Pause

VARIABLES provider, pc, polls, waited, quiet, answered, target, still, launches, cli, up,
          ahead, text, gated, silence, slow, why, strays
startup == <<provider, pc, polls, waited, quiet, answered, target, still, launches, cli, up,
             ahead, text, gated, silence, slow, why, strays>>

Start == INSTANCE ProviderStartup WITH Cap <- InitCap

\* What the handler of p knows.
HandlerOf(p) == Start!Startup[p].dialogs
Names(p) == {HandlerOf(p).order[i] : i \in 1..Len(HandlerOf(p).order)}

\* What the CLI of p may show: dialogs that the handler knows, the one it ends with last, and
\* none again that it answers once.
Played(p, s) ==
    /\ s \in Seq(Names(p))
    /\ \A i \in 1..Len(s) : s[i] \in HandlerOf(p).last => i = Len(s)
    /\ \A i, j \in 1..Len(s) : s[i] = s[j] /\ s[i] \in HandlerOf(p).once => i = j

\* The polls of n answered dialogs: a silence, the answer, and the way back to the handler.
Cost(n) == n * (Pause + 2)

\* The timeouts of initialize() leave room for a CLI that keeps time.
ASSUME StartsInTime ==
    /\ {Gap, InitCap, Long, Window, SettleCap, Watch, QuitSleep, First, Pause} \subseteq Nat
    /\ Pause <= First
    /\ First + 1 < InitCap /\ First + 1 < Window
    /\ Pause < QuitSleep /\ Pause + 1 < Gap /\ First < SettleCap
    /\ \A p \in Providers :
          /\ 3 * First < Start!Startup[p].ready
          /\ Start!Startup[p].whole => First < HandlerOf(p).cap
          /\ \A s \in Scripts[p] :
                /\ Played(p, s)
                /\ s # <<>> /\ Start!Startup[p].whole =>
                      First + Cost(Len(s)) + Pause <= Start!Startup[p].ready
                /\ s # <<>> /\ ~Start!Startup[p].whole => First + Cost(Len(s) - 1) < HandlerOf(p).cap

\* What initialize types meets what it is meant for: an answer its dialog, a command the shell
\* or a CLI that was told to leave it.
TypedWhereMeant == Start!TypedWhereMeant

\* A CLI that keeps time is not given up, none of its launches is typed into its last one, and
\* one that initialize calls ready takes input, with no dialog or gate over it.
StartIsTrue == Start!StartIsTrue
=============================================================================
