---------------------------- MODULE MCHerdrInbox ----------------------------
(* Instances of HerdrInbox for TLC: two terminals of one session.                *)
EXTENDS HerdrInbox

CONSTANTS t1, t2, s1

Together == [t \in Tabs |-> s1]
=============================================================================
