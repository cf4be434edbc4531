---------------------------- MODULE MCFifoWatchdog ----------------------------
(* Instances of FifoWatchdog for TLC: a calm environment, and rough ones in which a *)
(* pane changes or is resized once.                                               *)
EXTENDS FifoWatchdog

CalmAndRough == {{}, {"burst", "mid_check", "dead"}, {"load"}}

RoughDraws == 1
BoundedNext == Next /\ (rough # {} => \A t \in Terminals : draws'[t] <= RoughDraws)

BoundedSpec ==
    /\ Init /\ [][BoundedNext]_vars
    /\ \A t \in Terminals : WF_vars(Reader(t)) /\ WF_vars(GracePasses(t)) /\ WF_vars(Attach(t))
    /\ WF_vars(Consume) /\ WF_vars(Watchdog)
=============================================================================
