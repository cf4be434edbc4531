------------------------------- MODULE Mailbox -------------------------------
(* What an inbox promises, apart from how it is delivered: the messages of a     *)
(* receiver settle one at a time, oldest first; each is typed at most once, or   *)
(* fails, or is lost with the server.                                            *)
EXTENDS Naturals, Sequences

CONSTANTS Messages,     \* their ids, in the order they are created
          Boxes         \* the receivers

VARIABLES fate,         \* of each message: "none", "queued", "typed", "failed", "lost"
          box,          \* its receiver, once it is queued
          got           \* what was typed to each receiver, in order

mail == <<fate, box, got>>

MailInit ==
    /\ fate = [m \in Messages |-> "none"]
    /\ box \in [Messages -> Boxes]
    /\ got = [b \in Boxes |-> <<>>]

Oldest(m) == \A n \in Messages : fate[n] = "queued" /\ box[n] = box[m] => n >= m

Queue(m) ==
    /\ fate[m] = "none" /\ \A n \in Messages : n > m => fate[n] = "none"
    /\ fate' = [fate EXCEPT ![m] = "queued"]
    /\ \E b \in Boxes : box' = [box EXCEPT ![m] = b]
    /\ UNCHANGED got

Type(m) ==
    /\ fate[m] = "queued" /\ Oldest(m)
    /\ fate' = [fate EXCEPT ![m] = "typed"]
    /\ got' = [got EXCEPT ![box[m]] = Append(@, m)]
    /\ UNCHANGED box

Discard(m) ==
    /\ fate[m] = "queued" /\ Oldest(m)
    /\ \E f \in {"failed", "lost"} : fate' = [fate EXCEPT ![m] = f]
    /\ UNCHANGED <<box, got>>

MailNext == \E m \in Messages : Queue(m) \/ Type(m) \/ Discard(m)

MailSpec == MailInit /\ [][MailNext]_mail
=============================================================================
