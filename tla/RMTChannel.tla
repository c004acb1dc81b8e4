----------------------------- MODULE RMTChannel -----------------------------
(***************************************************************************)
(* One track's transmitter on the ESP32: DCCWaveform::schedulePacket       *)
(* (DCCWaveformRMT.cpp), called by the main loop, and the RMT peripheral's *)
(* end-of-transmission interrupt (DCCRMT.cpp), which may fire between any  *)
(* two of its steps.                                                       *)
(*                                                                         *)
(* The peripheral loops over its memory (ram): it sends the preamble and   *)
(* then what the interrupt left there, so ram is the packet on the rails   *)
(* from one interrupt to the next.                                         *)
(***************************************************************************)
EXTENDS Naturals

CONSTANTS
    Packets,   \* the packets the main loop schedules
    Repeats,   \* the repeat counts it asks for
    Idle,      \* the idle packet (main track) or reset packet (prog track)
    Torn,      \* the content of a buffer that is being rewritten
    W8,        \* number of values of a byte
    W32        \* number of values of a uint32_t

ASSUME RMTAssumption ==
    /\ W8 \in Nat /\ W32 \in Nat /\ W8 > 1 /\ W32 > 1
    /\ Repeats \subseteq 0..(W8 - 2)
    /\ Idle \notin Packets /\ Torn \notin Packets /\ Idle # Torn

VARIABLES
    dataReady,        \* data holds a packet that is not in ram yet
    dataRepeat,       \* times the packet is still to be started
    data,             \* the channel's buffer
    ram,              \* the peripheral's memory
    packetCounter,    \* interrupts so far
    resetPacketBase,  \* the counter value at which resets start to count
    pc,               \* where schedulePacket is; "out" when not called
    pending,          \* pendingPacket and pendingRepeats, the caller's packet
    job,              \* the packet last handed to the interrupt (history)
    started           \* how often it has been started (history)

isr == <<dataReady, dataRepeat, ram, packetCounter>>
hist == <<job, started>>
vars == <<dataReady, dataRepeat, data, ram, packetCounter, resetPacketBase,
          pc, pending, job, started>>

Jobs == [packet : Packets, repeats : Repeats]
NoJob == [packet |-> Idle, repeats |-> 0]

Init ==
    /\ dataReady = FALSE /\ dataRepeat = 0
    /\ data = Torn /\ ram = Idle
    /\ packetCounter = 0 /\ resetPacketBase = 0
    /\ pc = "out" /\ pending = NoJob
    /\ job = NoJob /\ started = 1

busy == dataRepeat > 0 \/ dataReady

-----------------------------------------------------------------------------
(* The main loop.                                                          *)

Goto(from, to) == pc = from /\ pc' = to

schedulePacket(p, r) ==
    /\ Goto("out", "waitForDataCopy")
    /\ pending' = [packet |-> p, repeats |-> r]
    /\ UNCHANGED <<isr, data, resetPacketBase, hist>>

\* Faulty variant: the wait is for the packet of another caller.
waitForData ==
    /\ Goto("waitForDataCopy", "clearResets")
    /\ dataReady
    /\ UNCHANGED <<isr, data, resetPacketBase, pending, hist>>

\* A busy wait: the step is taken when the interrupt has cleared dataReady.
waitForDataCopy ==
    /\ Goto("waitForDataCopy", "clearResets")
    /\ ~dataReady
    /\ UNCHANGED <<isr, data, resetPacketBase, pending, hist>>

clearResets ==
    /\ Goto("clearResets", "testRepeat")
    /\ resetPacketBase' = (packetCounter + pending.repeats + 1) % W32
    /\ UNCHANGED <<isr, data, pending, hist>>

\* Faulty variant: the repeats of the packet before are not waited for.
testNothing ==
    /\ Goto("testRepeat", "testReady")
    /\ UNCHANGED <<isr, data, resetPacketBase, pending, hist>>

\* RMTfillData's two tests; the caller repeats the call until both succeed.
testRepeat ==
    /\ Goto("testRepeat", "testReady")
    /\ dataRepeat = 0
    /\ UNCHANGED <<isr, data, resetPacketBase, pending, hist>>

testReady ==
    /\ pc = "testReady"
    /\ pc' = IF dataReady THEN "testRepeat" ELSE "convert"
    /\ UNCHANGED <<isr, data, resetPacketBase, pending, hist>>

\* Faulty variant: the flags are set before the bits are converted.
convertPublished ==
    /\ Goto("convert", "converted")
    /\ data' = Torn /\ dataReady' = TRUE /\ dataRepeat' = 1
    /\ UNCHANGED <<ram, packetCounter, resetPacketBase, pending, hist>>

\* The conversion to RMT items, bit by bit.
convert ==
    /\ Goto("convert", "converted")
    /\ data' = Torn
    /\ UNCHANGED <<isr, resetPacketBase, pending, hist>>

converted ==
    /\ Goto("converted", "publish")
    /\ data' = pending.packet
    /\ UNCHANGED <<isr, resetPacketBase, pending, hist>>

\* Both flags change with interrupts disabled.
publish ==
    /\ Goto("publish", "out")
    /\ dataReady' = TRUE
    /\ dataRepeat' = (pending.repeats + 1) % W8
    /\ job' = pending /\ started' = 0
    /\ UNCHANGED <<data, ram, packetCounter, resetPacketBase, pending>>

MainLoop == \/ waitForDataCopy \/ clearResets \/ testRepeat \/ testReady
            \/ convert \/ converted \/ publish

-----------------------------------------------------------------------------
(* The interrupt.                                                          *)

\* Faulty variant: the first transmission is not counted.
InterruptFirstFree ==
    /\ packetCounter' = (packetCounter + 1) % W32
    /\ ram' = IF dataReady THEN data ELSE IF dataRepeat = 0 THEN Idle ELSE ram
    /\ dataReady' = FALSE
    /\ dataRepeat' = IF dataReady \/ dataRepeat = 0 THEN dataRepeat ELSE dataRepeat - 1
    /\ started' = IF dataReady \/ dataRepeat > 0 THEN started + 1 ELSE started
    /\ UNCHANGED <<data, resetPacketBase, pc, pending, job>>

RMTinterrupt ==
    /\ packetCounter' = (packetCounter + 1) % W32
    /\ ram' = IF dataReady THEN data ELSE IF dataRepeat = 0 THEN Idle ELSE ram
    /\ dataReady' = FALSE
    /\ dataRepeat' = IF dataRepeat > 0 THEN dataRepeat - 1 ELSE 0
    /\ started' = IF dataReady \/ dataRepeat > 0 THEN started + 1 ELSE started
    /\ UNCHANGED <<data, resetPacketBase, pc, pending, job>>

Next ==
    \/ \E p \in Packets, r \in Repeats : schedulePacket(p, r)
    \/ waitForDataCopy \/ clearResets \/ testRepeat \/ testReady
    \/ convert \/ converted \/ publish
    \/ RMTinterrupt

Spec == Init /\ [][Next]_vars

\* The peripheral never stops, and schedulePacket runs on until it returns.
FairSpec == Spec /\ WF_vars(RMTinterrupt) /\ WF_vars(MainLoop)

-----------------------------------------------------------------------------
(* Resets seen since the last packet, as the programming track counts them. *)

getResets ==
    LET count == (packetCounter + W32 - resetPacketBase) % W32
    IN  IF count > (W32 - 1) \div 2 THEN 0
        ELSE IF count > W8 - 1 THEN W8 - 1 ELSE count

-----------------------------------------------------------------------------
(* Properties.                                                             *)

PCs == {"out", "waitForDataCopy", "clearResets", "testRepeat", "testReady",
        "convert", "converted", "publish"}

\* The types DCCRMT.h and DCCWaveform.h declare.
TypeOK ==
    /\ dataReady \in BOOLEAN /\ dataRepeat \in 0..(W8 - 1)
    /\ data \in Packets \cup {Idle, Torn}
    /\ ram \in Packets \cup {Idle, Torn}
    /\ packetCounter \in 0..(W32 - 1) /\ resetPacketBase \in 0..(W32 - 1)
    /\ pc \in PCs
    /\ pending \in Jobs \cup {NoJob} /\ job \in Jobs \cup {NoJob}
    /\ started \in Nat

\* A packet of which bytes are still being written never reaches the rails,
\* although nothing locks the buffer while the interrupt may fire.
NeverTorn == ram # Torn

\* RMTinterrupt's own check, "DCC signal lost data": data that is ready
\* always has transmissions to do.
NoLostData == dataReady => dataRepeat > 0

\* A packet is started exactly repeats + 1 times, whatever the main loop
\* does meanwhile: it is never cut short by the next one and never repeated
\* beyond its count.
SentInFull == started + dataRepeat = job.repeats + 1

\* While the packet is being repeated, the rails carry that packet.
RailsCarryJob == (dataRepeat > 0 /\ ~dataReady) => ram = job.packet

\* The detailed transmitter implements the abstract one.
Feed == INSTANCE PacketFeed WITH air <- ram, job <- job.packet, left <- dataRepeat
ImplementsFeed == Feed!FairSpec

\* schedulePacket, which spins on flags the interrupt clears, returns.
Returns == pc # "out" ~> pc = "out"

\* The job on the rails: carried while it repeats, sent its exact number of times,
\* never published without a transmission to do.
JobSent == NoLostData /\ SentInFull /\ RailsCarryJob
=============================================================================
