---------------------------- MODULE MCMemoryStore ----------------------------
(* Two instances of MemoryStore side by side for TLC: every kind of removal, two at *)
(* a time; and some of them with a database that fails or a process that dies.     *)
EXTENDS MemoryStore, TLC

VARIABLE mode
modes == <<mode, vars>>

Faulty == INSTANCE MemoryStore WITH
              Kinds <- {"forget", "orphan", "stale_claim"}, MaxFaults <- 1

Interchangeable == Permutations(Stores) \cup Permutations(Removals)

ModesInit == mode \in {"sound", "faulty"} /\ Init

ModesNext ==
    /\ UNCHANGED mode
    /\ \/ mode = "sound" /\ Next
       \/ mode = "faulty" /\ Faulty!Next

ModesSpec == ModesInit /\ [][ModesNext]_modes
=============================================================================
