----------------------------- MODULE PacketFeed -----------------------------
(***************************************************************************)
(* What a track's transmitter promises its callers: the rails carry one    *)
(* packet after another without a gap; a packet that is accepted with r    *)
(* repeats is sent r + 1 times in a row; idle packets fill the rest.       *)
(* RMTChannel implements this with two buffers and an interrupt.           *)
(***************************************************************************)
EXTENDS Naturals

CONSTANTS Packets, Repeats, Idle

VARIABLES
    air,   \* the packet that is being sent
    job,   \* the packet last accepted
    left   \* how many times job is still to be started

vars == <<air, job, left>>

Init == air = Idle /\ job = Idle /\ left = 0

Accept(p, r) ==
    /\ left = 0
    /\ job' = p /\ left' = r + 1
    /\ UNCHANGED air

\* The end of one packet is the start of the next one.
NextPacket ==
    /\ air' = IF left > 0 THEN job ELSE Idle
    /\ left' = IF left > 0 THEN left - 1 ELSE 0
    /\ UNCHANGED job

Next == NextPacket \/ \E p \in Packets, r \in Repeats : Accept(p, r)

Spec == Init /\ [][Next]_vars

\* Every packet on the rails comes to its end.
FairSpec == Spec /\ WF_vars(NextPacket)
=============================================================================
