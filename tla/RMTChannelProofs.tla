-------------------------- MODULE RMTChannelProofs --------------------------
(***************************************************************************)
(* Proofs about RMTChannel for every set of packets, every set of repeat   *)
(* counts and every counter width.                                         *)
(*                                                                         *)
(* None of the properties is inductive by itself: that a torn buffer never *)
(* reaches the rails rests on what the main loop's program counter says    *)
(* about the two flags, which is IInv.                                     *)
(***************************************************************************)
EXTENDS RMTChannel, TLAPS

\* While the buffer is being filled the interrupt has nothing to do with it.
Filling == pc \in {"convert", "converted", "publish"} => ~dataReady /\ dataRepeat = 0

\* testRepeat was passed: no transmission can be added by the interrupt.
Tested == pc = "testReady" => dataRepeat = 0

BufferOK ==
    /\ dataReady => data = job.packet /\ job \in Jobs
    /\ pc = "publish" => data = pending.packet
    /\ pc # "out" => pending \in Jobs

RamOK == ram \in Packets \cup {Idle}

\* The inductive invariant.
IInv == /\ TypeOK /\ Filling /\ Tested /\ BufferOK /\ RamOK
        /\ NoLostData /\ SentInFull /\ RailsCarryJob

\* Every step preserves the inductive invariant: Init establishes it.
LEMMA InitIInv == Init => IInv
<1> SUFFICES ASSUME Init PROVE IInv
  OBVIOUS
<1>1. TypeOK
  <2>1. 0 \in 0..(W8 - 1) /\ 0 \in 0..(W32 - 1) /\ 1 \in Nat
    BY RMTAssumption
  <2>2. dataReady \in BOOLEAN /\ pc \in PCs /\ data = Torn /\ ram = Idle
    BY DEF Init, PCs
  <2>3. pending = NoJob /\ job = NoJob /\ started = 1 /\ dataRepeat = 0
        /\ packetCounter = 0 /\ resetPacketBase = 0
    BY DEF Init
  <2>4. QED
    BY <2>1, <2>2, <2>3 DEF TypeOK
<1>2. Filling /\ Tested /\ BufferOK /\ RamOK
  BY DEF Init, Filling, Tested, BufferOK, RamOK
<1>3. NoLostData /\ SentInFull /\ RailsCarryJob
  BY DEF Init, NoLostData, SentInFull, RailsCarryJob, NoJob
<1>4. QED
  BY <1>1, <1>2, <1>3 DEF IInv

\* The counters keep their width.
LEMMA ModRange == ASSUME NEW a \in Nat, NEW b \in Nat, b > 0
                  PROVE  a % b \in 0..(b - 1)
  OBVIOUS

\* Each step of the main loop and each interrupt preserves IInv.
LEMMA NextIInv == IInv /\ [Next]_vars => IInv'
<1> SUFFICES ASSUME IInv, [Next]_vars PROVE IInv'
  OBVIOUS
<1> USE RMTAssumption
<1>1. CASE \E p \in Packets, r \in Repeats : schedulePacket(p, r)
  <2>1. PICK p \in Packets, r \in Repeats : schedulePacket(p, r)
    BY <1>1
  <2>2. pending' \in Jobs
    BY <2>1 DEF schedulePacket, Jobs
  <2>3. QED
    BY <2>1, <2>2 DEF schedulePacket, Goto, isr, hist, IInv, TypeOK, Filling,
       Tested, BufferOK, RamOK, NoLostData, SentInFull, RailsCarryJob, PCs
<1>2. CASE waitForDataCopy
  BY <1>2 DEF waitForDataCopy, Goto, isr, hist, IInv, TypeOK, Filling, Tested,
     BufferOK, RamOK, NoLostData, SentInFull, RailsCarryJob, PCs
<1>3. CASE clearResets
  <2>1. pending \in Jobs /\ pending.repeats \in Nat /\ packetCounter \in Nat
    <3>1. pending \in Jobs
      BY <1>3 DEF clearResets, Goto, IInv, BufferOK
    <3>2. pending.repeats \in 0..(W8 - 2)
      BY <3>1 DEF Jobs
    <3>3. packetCounter \in 0..(W32 - 1)
      BY DEF IInv, TypeOK
    <3>4. QED
      BY <3>1, <3>2, <3>3
  <2>2. resetPacketBase' \in 0..(W32 - 1)
    BY <1>3, <2>1, ModRange DEF clearResets
  <2>3. QED
    BY <1>3, <2>1, <2>2 DEF clearResets, Goto, isr, hist, IInv, TypeOK, Filling,
       Tested, BufferOK, RamOK, NoLostData, SentInFull, RailsCarryJob, PCs
<1>4. CASE testRepeat
  BY <1>4 DEF testRepeat, Goto, isr, hist, IInv, TypeOK, Filling, Tested,
     BufferOK, RamOK, NoLostData, SentInFull, RailsCarryJob, PCs
<1>5. CASE testReady
  BY <1>5 DEF testReady, isr, hist, IInv, TypeOK, Filling, Tested,
     BufferOK, RamOK, NoLostData, SentInFull, RailsCarryJob, PCs
<1>6. CASE convert
  BY <1>6 DEF convert, Goto, isr, hist, IInv, TypeOK, Filling, Tested,
     BufferOK, RamOK, NoLostData, SentInFull, RailsCarryJob, PCs
<1>7. CASE converted
  <2>1. pending.packet \in Packets
    BY <1>7 DEF converted, Goto, IInv, BufferOK, Jobs
  <2>2. QED
    BY <1>7, <2>1 DEF converted, Goto, isr, hist, IInv, TypeOK, Filling, Tested,
       BufferOK, RamOK, NoLostData, SentInFull, RailsCarryJob, PCs
<1>8. CASE publish
  <2>1. pending \in Jobs /\ pending.repeats \in 0..(W8 - 2)
    BY <1>8 DEF publish, Goto, IInv, BufferOK, Jobs
  <2>2. (pending.repeats + 1) % W8 = pending.repeats + 1
    BY <2>1
  <2>3. QED
    BY <1>8, <2>1, <2>2 DEF publish, Goto, IInv, TypeOK, Filling, Tested,
       BufferOK, RamOK, NoLostData, SentInFull, RailsCarryJob, PCs
<1>9. CASE RMTinterrupt
  <2>1. packetCounter' \in 0..(W32 - 1)
    BY <1>9, ModRange DEF RMTinterrupt, IInv, TypeOK
  <2>2. dataReady => job.packet \in Packets
    BY DEF IInv, BufferOK, Jobs
  <2>3. /\ ~dataReady' /\ dataRepeat' \in 0..(W8 - 1)
        /\ dataReady => dataRepeat > 0
    BY <1>9 DEF RMTinterrupt, IInv, TypeOK, NoLostData
  <2>4. ram' \in Packets \cup {Idle}
    BY <1>9, <2>2 DEF RMTinterrupt, IInv, RamOK, BufferOK
  <2>5. TypeOK' /\ RamOK' /\ NoLostData'
    <3>1. dataReady' \in BOOLEAN /\ ram' \in Packets \cup {Idle, Torn}
      BY <1>9, <2>4 DEF RMTinterrupt
    <3>2. started' \in Nat
      BY <1>9 DEF RMTinterrupt, IInv, TypeOK
    <3>3. UNCHANGED <<data, resetPacketBase, pc, pending, job>>
      BY <1>9 DEF RMTinterrupt
    <3>4. TypeOK'
      BY <2>1, <2>3, <3>1, <3>2, <3>3 DEF IInv, TypeOK
    <3>5. QED
      BY <2>3, <2>4, <3>4 DEF RamOK, NoLostData
  <2>6. Filling' /\ Tested' /\ BufferOK'
    BY <1>9, <2>3 DEF RMTinterrupt, IInv, Filling, Tested, BufferOK
  <2>7. SentInFull'
    BY <1>9, <2>3 DEF RMTinterrupt, IInv, SentInFull, TypeOK, Jobs, NoJob
  <2>8. RailsCarryJob'
    BY <1>9, <2>3 DEF RMTinterrupt, IInv, RailsCarryJob, BufferOK, TypeOK
  <2>9. QED
    BY <2>5, <2>6, <2>7, <2>8 DEF IInv
<1>10. CASE UNCHANGED vars
  BY <1>10 DEF vars, IInv, TypeOK, Filling, Tested, BufferOK, RamOK, NoLostData,
     SentInFull, RailsCarryJob
<1>11. QED
  BY <1>1, <1>2, <1>3, <1>4, <1>5, <1>6, <1>7, <1>8, <1>9, <1>10 DEF Next

\* The inductive invariant holds in every reachable state.
LEMMA Inductive == Spec => []IInv
  BY InitIInv, NextIInv, PTL DEF Spec

\* The declared types of the transmitter's state hold in every state.
THEOREM TypeCorrect == Spec => []TypeOK
<1>1. IInv => TypeOK
  BY DEF IInv
<1>2. QED
  BY <1>1, Inductive, PTL

\* No half-written packet is ever on the rails, with an interrupt allowed
\* between any two steps of schedulePacket.
THEOREM RailsNeverTorn == Spec => []NeverTorn
<1>1. IInv => NeverTorn
  BY RMTAssumption DEF IInv, RamOK, NeverTorn
<1>2. QED
  BY <1>1, Inductive, PTL

\* Every packet handed to the interrupt is started exactly repeats + 1
\* times before the next one replaces it.
THEOREM EveryPacketSentInFull == Spec => []SentInFull
<1>1. IInv => SentInFull
  BY DEF IInv
<1>2. QED
  BY <1>1, Inductive, PTL

\* RMTinterrupt's "DCC signal lost data" is never printed.
THEOREM DataNeverLost == Spec => []NoLostData
<1>1. IInv => NoLostData
  BY DEF IInv
<1>2. QED
  BY <1>1, Inductive, PTL

\* The job that was handed over is on the rails as long as it repeats, and is
\* sent its exact number of times.
THEOREM JobAlwaysSent == Spec => []JobSent
<1>1. IInv => JobSent
  BY DEF IInv, JobSent
<1>2. QED
  BY <1>1, Inductive, PTL

\* The safety part of the transmitter's promise: every step of the detailed
\* transmitter is a step of PacketFeed or leaves it as it was.
THEOREM Refinement == Spec => Feed!Spec
<1>1. Init => Feed!Init
  BY DEF Init, Feed!Init, NoJob
<1>2. IInv /\ [Next]_vars => [Feed!Next]_Feed!vars
  <2> SUFFICES ASSUME IInv, [Next]_vars PROVE [Feed!Next]_Feed!vars
    OBVIOUS
  <2> USE RMTAssumption
  <2>1. CASE publish
    <3>1. pending \in Jobs /\ pending.repeats \in 0..(W8 - 2)
      BY <2>1 DEF publish, Goto, IInv, BufferOK, Jobs
    <3>2. (pending.repeats + 1) % W8 = pending.repeats + 1
      BY <3>1
    <3>3. pending.packet \in Packets /\ pending.repeats \in Repeats
      BY <3>1 DEF Jobs
    <3>4. Feed!Accept(pending.packet, pending.repeats)
      BY <2>1, <3>1, <3>2 DEF publish, Goto, IInv, Filling, Feed!Accept
    <3>5. QED
      BY <3>3, <3>4 DEF Feed!Next
  <2>2. CASE RMTinterrupt
    <3>1. Feed!NextPacket
      BY <2>2 DEF RMTinterrupt, IInv, NoLostData, RailsCarryJob, BufferOK,
         TypeOK, Feed!NextPacket
    <3>2. QED
      BY <3>1 DEF Feed!Next
  <2>3. CASE \E p \in Packets, r \in Repeats : schedulePacket(p, r)
    BY <2>3 DEF schedulePacket, isr, hist, Feed!vars
  <2>4. CASE waitForDataCopy
    BY <2>4 DEF waitForDataCopy, isr, hist, Feed!vars
  <2>5. CASE clearResets \/ testRepeat \/ testReady \/ convert \/ converted
    BY <2>5 DEF clearResets, testRepeat, testReady, convert, converted, isr,
       hist, Feed!vars
  <2>6. CASE UNCHANGED vars
    BY <2>6 DEF vars, Feed!vars
  <2>7. QED
    BY <2>1, <2>2, <2>3, <2>4, <2>5, <2>6 DEF Next
<1>3. QED
  BY <1>1, <1>2, Inductive, PTL DEF Spec, Feed!Spec
=============================================================================
