----------------------------- MODULE MCInboxModes -----------------------------
(* A supervisor, its worker and a peer that it did not spawn, three times, side by side   *)
(* for TLC.  In the first two, deliveries do not overlap and the fairness is that of      *)
(* FairSpec: when the worker alone writes, anything may fail; when the peer writes too,   *)
(* before it or after, nothing does.  In the third the four callers overlap at every      *)
(* statement, type eagerly, and sends may fail.                                           *)
EXTENDS InboxDelivery

CONSTANTS sup, w1, peer

SpawnedBySup == [t \in Terminals |-> IF t = peer THEN peer ELSE sup]
ToSup == {<<w1, sup>>, <<peer, sup>>}

VARIABLE mode
modes == <<mode, vars>>

Races == INSTANCE InboxDelivery WITH
             Routes <- {<<w1, sup>>}, OpenCode <- Receivers, Eager <- TRUE, Overlap <- TRUE,
             Faults <- {"unresolved", "error", "late"}, MaxFaults <- 2, MaxMessages <- 1

Written == {m \in Ids : rows[m].st # "NONE"}
PeerIsQuiet == peer \in alive /\ \A m \in Written : rows[m].from # peer
OneOfEach == \A m, n \in Written : m # n => rows[m].from # rows[n].from

ModesInit == mode \in {"alone", "mixed", "races"} /\ Init

ModesNext ==
    /\ UNCHANGED mode
    /\ \/ mode = "alone" /\ Next /\ PeerIsQuiet'
       \/ mode = "mixed" /\ Next /\ UNCHANGED faults /\ OneOfEach'
       \/ mode = "races" /\ Races!Next

InAlone == mode \in {"alone", "mixed"} /\ UNCHANGED mode

ModesSpec ==
    /\ ModesInit /\ [][ModesNext]_modes
    /\ \A d \in Jobs : WF_modes(InAlone /\ Deliver(d))
    /\ \A d \in Pollers :
          WF_modes(InAlone /\ ListReceivers(d)) /\ WF_modes(InAlone /\ NextReceiver(d))
    /\ \A m \in Ids : WF_modes(InAlone /\ Age(m))
    /\ \A t \in Receivers : WF_modes(InAlone /\ Report(t))
    /\ WF_modes(InAlone /\ TakeEvent)

\* Delivery that never overlaps implements the abstract mailbox.
AloneIsMailbox ==
    /\ mode # "races" => Mail!MailInit
    /\ [][mode # "races" => UNCHANGED Mail!mail \/ Mail!MailNext]_modes

\* A message for an idle terminal is adopted, whatever events and attempts missed it.
AloneAdopts == mode # "races" => OrphanAdopted

\* A supervisor that waits for a worker receives its callback, unless what its peer sent is
\* ahead of it.
AloneArrives == mode # "races" => AwaitedCallbackArrives
=============================================================================
