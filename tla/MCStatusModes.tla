---------------------------- MODULE MCStatusModes ----------------------------
(* Three terminals side by side for TLC.  Two detect as the web chat and the      *)
(* sessions API are served, one input per cycle: one on the composited screen, and *)
(* one on the raw bytes of a provider with rendered-pane probes.  The third is the  *)
(* screen of an agent that anybody types to at any time and that lags, with the     *)
(* fairness of FairSpec.                                                           *)
EXTENDS StatusMonitor

VARIABLE mode
modes == <<mode, vars>>

Raw == INSTANCE StatusMonitor WITH
           Gate <- "cycle", Screen <- FALSE, Rendered <- TRUE, Lags <- FALSE,
           EndLooks <- {"COMPLETED", "WAITING_USER_ANSWER"},
           Redraws <- {"UNKNOWN", "COMPLETED"}

Lag == INSTANCE StatusMonitor WITH
           Gate <- "none", Screen <- TRUE, Rendered <- FALSE, Lags <- TRUE,
           EndLooks <- {"COMPLETED"}, Redraws <- {"IDLE"},
           MaxInputs <- 1, MaxQueue <- 1, MaxTasks <- 1

ModesInit == mode \in {"raw", "screen", "lag"} /\ Init

ModesNext ==
    /\ UNCHANGED mode
    /\ \/ mode = "raw" /\ Raw!Next
       \/ mode = "screen" /\ Next
       \/ mode = "lag" /\ Lag!Next

InLag == mode = "lag" /\ UNCHANGED mode

ModesSpec ==
    /\ ModesInit /\ [][ModesNext]_modes
    /\ WF_modes(InLag /\ Lag!Worker) /\ WF_modes(InLag /\ Lag!CancelTimer) /\ WF_modes(InLag /\ Lag!RunArm)
    /\ WF_modes(InLag /\ Lag!Quiescent) /\ WF_modes(InLag /\ Lag!ReadScreen) /\ WF_modes(InLag /\ Lag!EndDetection)

\* When all output has been detected a busy agent does not read ready on raw bytes; on
\* the screen, where a turn that begins within a burst has no edge of its own, the
\* latch is then at least open for the next frame that tells.
BusyIsSeenBusy ==
    /\ mode = "raw" => Raw!BusyNeverReadsReady
    /\ mode = "screen" => BusyNeverLatchedReady

\* A generation is ready only once the turn of its input is over, if detection keeps up.
TurnEndsBeforeReady == mode \in {"raw", "screen"} => ReadyMeansTurnEnded

\* The quiescence timer alone sees the end of a turn once the agent stops redrawing.
TimerSees == mode = "lag" => (<>[][~Lag!Redraw]_modes => EndIsSeen)
=============================================================================
