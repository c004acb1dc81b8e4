------------------------------ MODULE DCCQueue ------------------------------
(***************************************************************************)
(* The two priority queues between the command station's handlers and the  *)
(* main track's transmitter (DCCQueue.cpp, DCCQueue.h).                    *)
(*                                                                         *)
(* Every operation of the class is an operator on the record q of its      *)
(* statics, so that a handler that schedules several packets composes them *)
(* (modules MainTrack, DCCLoco).  A packet is abstracted to its address,   *)
(* its kind and its value.                                                 *)
(*                                                                         *)
(* PendingSlot has a union: the loco id, the coil-off delay and the        *)
(* coil-off start time share storage, the first two being the low 16 bits  *)
(* of the third.  It is modelled as it is: one number, "union".            *)
(***************************************************************************)
EXTENDS Naturals, Sequences, SequencesExt, FiniteSetsExt

CONSTANTS
    W16,          \* number of values of a uint16_t
    W32           \* number of values of a uint32_t

ASSUME WidthAssumption == W16 \in Nat \ {0} /\ W32 \in Nat /\ W16 <= W32

ON == "on"
OFF == "off"
Fresh == "none"

Packet(to, kind, val) == [to |-> to, kind |-> kind, val |-> val]
IdlePacket == Packet(0, "idle", Fresh)
SpeedPacket(loco, speed) == Packet(loco, "speed", speed)
FnKind(group) == <<"fn1", "fn2", "fn3", "fn4", "fn5">>[group]
FnType(group) == <<"FUNCTION1", "FUNCTION2", "FUNCTION3", "FUNCTION4", "FUNCTION5">>[group]

-----------------------------------------------------------------------------
(* The slots and the lists.                                                *)

\* q.free counts the recycle list, q.created the slots ever allocated.
NoQueue == [high |-> <<>>, low |-> <<>>, last |-> 0, free |-> 0, created |-> 0]

locoId(slot) == slot.union % W16

\* A slot leaves the recycle list, or is allocated when that list is empty.
getSlot(Q) == IF Q.free > 0 THEN [Q EXCEPT !.free = @ - 1]
                            ELSE [Q EXCEPT !.created = @ + 1]

Slot(type, packet, repeats, union) ==
    [type |-> type, packet |-> packet, repeats |-> repeats, union |-> union]

addQueue(queue, slot) == Append(queue, slot)
jumpQueue(queue, slot) == <<slot>> \o queue

\* The slot found first by a walk from the head, or 0.
FirstOf(queue, Test(_)) ==
    LET found == {i \in DOMAIN queue : Test(queue[i])}
    IN  IF found = {} THEN 0 ELSE Min(found)

\* A new packet overwrites the packet and the repeats of an existing slot;
\* its type and its union stay.
replacePacket(queue, i, packet, repeats) ==
    [queue EXCEPT ![i].packet = packet, ![i].repeats = repeats]

-----------------------------------------------------------------------------
(* The schedule functions.                                                 *)

scheduleDCCPacket(Q, packet, repeats, loco) ==
    [getSlot(Q) EXCEPT !.low =
        addQueue(@, Slot("NORMAL", packet, repeats, loco))]

scheduleDCCSpeedPacket(Q, packet, repeats, loco) ==
    LET i == FirstOf(Q.high, LAMBDA s : locoId(s) = loco)
    IN  IF i # 0
        THEN [Q EXCEPT !.high = replacePacket(@, i, packet, repeats)]
        ELSE [getSlot(Q) EXCEPT !.high =
                 addQueue(@, Slot("SPEED", packet, repeats, loco))]

FnAnyType(Q, packet, loco, group) ==
    LET i == FirstOf(Q.low, LAMBDA s : locoId(s) = loco)
    IN  IF i # 0
        THEN [Q EXCEPT !.low = replacePacket(@, i, packet, 0)]
        ELSE [getSlot(Q) EXCEPT !.low =
                 addQueue(@, Slot("FUNCTION1", packet, 0, loco))]

scheduleDCCFunctionPacket(Q, packet, loco, group) ==
    LET i == FirstOf(Q.low, LAMBDA s : locoId(s) = loco /\ s.type = FnType(group))
    IN  IF i # 0
        THEN [Q EXCEPT !.low = replacePacket(@, i, packet, 0)]
        ELSE [getSlot(Q) EXCEPT !.low =
                 addQueue(@, Slot(FnType(group), packet, 0, loco))]

\* The slots of a queue at some indices, in their order.
Pick(queue, indices) ==
    LET F[n \in Nat] == IF n = 0 THEN <<>>
                        ELSE IF n \in indices THEN Append(F[n - 1], queue[n]) ELSE F[n - 1]
    IN  F[Len(queue)]

\* Where the slots are that an emergency stop leaves in the high priority queue.
Spared(Q, loco) ==
    {i \in DOMAIN Q.high :
        Q.high[i].type = "ACC_OFF" \/ (loco # 0 /\ locoId(Q.high[i]) # loco)}

EstopNoRecycle(Q, packet, repeats, loco) ==
    [getSlot(Q) EXCEPT !.high =
        jumpQueue(Pick(@, Spared(Q, loco)), Slot("SPEED", packet, repeats, 0))]

\* The estop slot itself is queued as a packet to no loco, whoever it stops.
scheduleEstopPacket(Q, packet, repeats, loco) ==
    LET kept == Pick(Q.high, Spared(Q, loco))
        recycled == [Q EXCEPT !.high = kept,
                              !.free = @ + Len(Q.high) - Len(kept)]
    IN  [getSlot(recycled) EXCEPT !.high =
            jumpQueue(@, Slot("SPEED", packet, repeats, 0))]

scheduleAccOnOffPacket(Q, packet, repeats, delayms) ==
    [getSlot(Q) EXCEPT !.low =
        addQueue(@, Slot("ACC_ON", packet, repeats, delayms))]

-----------------------------------------------------------------------------
(* Choosing the next packet to transmit.                                   *)

\* Faulty variants: packets to one loco are not separated; the walk
\* skips a coil-off packet whether its time has come or not.
NoLastCheck(Q, s, t) == ~(s.type = "ACC_OFF" /\ t < s.union)
SkipsOff(Q, s, t) ==
    /\ s.type # "ACC_OFF"
    /\ locoId(s) = 0 \/ locoId(s) # Q.last

\* A slot the walk of scheduleNextInternal does not skip at time t.
Sendable(Q, s, t) ==
    /\ ~(s.type = "ACC_OFF" /\ t < s.union)
    /\ locoId(s) = 0 \/ locoId(s) # Q.last

\* What becomes of the slot at index i of the queue `which` once its packet
\* is with the transmitter.
scheduleNextInternal(Q, which, i, t) ==
    LET s == Q[which][i]
        sent == [Q EXCEPT !.last = locoId(s)]
        removed == [sent EXCEPT ![which] = RemoveAt(@, i)]
        off == [s EXCEPT !.type = "ACC_OFF", !.packet.val = OFF,
                         !.union = (t + locoId(s)) % W32]
        repeating == [sent EXCEPT ![which][i].repeats = @ - 1]
    IN  CASE locoId(s) # 0 /\ s.repeats > 0 -> repeating
          [] ~(locoId(s) # 0 /\ s.repeats > 0) /\ s.type = "ACC_ON" ->
                 [removed EXCEPT !.high = jumpQueue(@, off)]
          [] OTHER -> [removed EXCEPT !.free = @ + 1]

Candidate(Q, which, t) == FirstOf(Q[which], LAMBDA s : Sendable(Q, s, t))

\* The queue that scheduleNext takes a packet from, "none" when both walks
\* find nothing.
Source(Q, t) == CASE Candidate(Q, "high", t) # 0 -> "high"
                  [] Candidate(Q, "high", t) = 0 /\ Candidate(Q, "low", t) # 0 -> "low"
                  [] OTHER -> "none"

\* scheduleNext(force): the packet handed to the transmitter and the queues
\* after it; an idle packet when forced with nothing to send.
scheduleNext(Q, force, t) ==
    LET which == Source(Q, t)
        i == Candidate(Q, which, t)
    IN  IF which # "none"
        THEN [ok |-> TRUE, packet |-> Q[which][i].packet,
              q |-> scheduleNextInternal(Q, which, i, t)]
        ELSE [ok |-> force, packet |-> IdlePacket,
              q |-> IF force THEN [Q EXCEPT !.last = 0] ELSE Q]
=============================================================================
