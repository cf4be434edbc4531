----------------------------- MODULE MCAgentStep -----------------------------
(* Instances of AgentStep side by side for TLC.  The one step is a step of the     *)
(* engine with an output_schema, beside the returns of two other runs; or a call   *)
(* of the route that has a terminal made (handoff); or one that reuses a terminal. *)
(* Beside them, what the creation of a terminal waits for: initialize() of each    *)
(* provider, with every sequence of dialogs that its comments know of.             *)
EXTENDS AgentStepStartup

VARIABLES mode
modes == <<mode, vars, startup>>

Handoff == INSTANCE AgentStep WITH Engine <- {}, Schema <- {}, Reused <- {}, Others <- {}
Reuse == INSTANCE AgentStep WITH Engine <- {}, Schema <- {}, Reused <- Steps, Others <- {}

Dialogs ==
    [claude_code |-> {<<>>, <<"trust">>, <<"bypass">>, <<"import">>, <<"bypass", "trust">>,
                      <<"import", "bypass">>, <<"bypass", "import", "trust">>, <<"onboarding">>},
     codex |-> {<<>>, <<"trust">>},
     kimi_cli |-> {<<>>, <<"upgrade">>},
     antigravity_cli |-> {<<>>, <<"trust">>, <<"survey">>, <<"trust", "survey">>},
     copilot_cli |-> {<<>>, <<"trust">>, <<"trust", "actions">>, <<"confirm", "enter">>},
     kiro_cli |-> {<<>>}, cursor_cli |-> {<<>>}, opencode_cli |-> {<<>>}, hermes |-> {<<>>}]

Started == DOMAIN Dialogs

ModesInit ==
    \/ mode = "engine" /\ Init /\ Start!Init /\ provider = "hermes"
    \/ mode = "handoff" /\ Handoff!Init /\ Start!Init /\ provider = "hermes"
    \/ mode = "reuse" /\ Reuse!Init /\ Start!Init /\ provider = "hermes"
    \/ mode = "startup" /\ Handoff!Init /\ Start!Init

ModesNext ==
    /\ UNCHANGED mode
    /\ \/ mode = "engine" /\ Next /\ UNCHANGED startup
       \/ mode = "handoff" /\ Handoff!Next /\ UNCHANGED startup
       \/ mode = "reuse" /\ Reuse!Next /\ UNCHANGED startup
       \/ mode = "startup" /\ Start!Next /\ UNCHANGED vars

DriveAny ==
    /\ UNCHANGED <<mode, startup>>
    /\ \E k \in Steps : \/ mode = "engine" /\ Drive(k)
                        \/ mode = "handoff" /\ Handoff!Drive(k)
                        \/ mode = "reuse" /\ Reuse!Drive(k)

\* With one step, FairSpec of the instance that mode names.
ModesSpec == ModesInit /\ [][ModesNext]_modes /\ WF_modes(DriveAny)

\* The verdict over an engine step's output follows its workers' last return, as long as
\* no more keys were returned since than the store holds.
VerdictOfEngine == [][mode = "engine" => \A k \in Schema : Verdict(k)]_modes

\* Whatever the agents do, every step ends: its waits have deadlines and its retries a bound.
EveryStepSettles == mode # "startup" => StepSettles
=============================================================================
