---------------------------- MODULE Programming -----------------------------
(***************************************************************************)
(* The programming track: the ACK manager (DCCACK.cpp) running the         *)
(* programs of DCC.cpp for several clients, on the tracks of TrackManager  *)
(* and against a decoder. All of it runs in the main loop, where           *)
(* TrackManager::loop calls checkAck and then DCCACK::loop; a command can  *)
(* arrive wherever loop() returns.                                         *)
(***************************************************************************)
EXTENDS AckPrograms, TrackManager, FiniteSets

CONSTANTS
    Decoders,     \* the decoders that may stand on the track
    Tasks,        \* client -> the tasks it may ask for (once: a bound)
    Site,         \* the track the decoder stands on
    CanMeasure,   \* tracks whose driver has a current sensor
    AckRetry,     \* ackRetry
    MaxFaults,    \* bound: answers missed and commands that disturb
    MaxMissed,    \* bound: longest program in which an answer is missed
    MaxOvertaken  \* bound: longest program disturbed by commands and requests

Clients == DOMAIN Tasks

ASSUME ProgrammingAssumption ==
    /\ Site \in Tracks
    /\ CanMeasure \subseteq Tracks
    /\ {AckRetry, MaxFaults, MaxMissed, MaxOvertaken} \subseteq Nat

VARIABLES
    tm,        \* the tracks (TrackManager)
    prog,      \* ackManagerProg, by name; "none" when NULL
    owner,     \* ackManagerCallback: the client to call back
    ack,       \* the other ackManager... variables, see Idle
    packet,    \* the last packet scheduled on the programming track
    pending,   \* ackPending, ackDetected and what the decoder does meanwhile
    resets,    \* progTrack.getResets(), rounded down to a mark
    elapsed,   \* the wait begun at callbackStart is over
    dec,       \* the decoder: CV -> value, and whether it acknowledges writes
    waiting,   \* the clients that hold a callback
    answer,    \* last callback: its receiver, task and value
    faults,
    made,      \* clients that have made their request
    crashed,   \* progDriver was used when it was NULL
    case       \* history: what the current operation started from

vars == <<tm, prog, owner, ack, packet, pending, resets, elapsed, dec, waiting,
          answer, faults, made, crashed, case>>
operation == <<prog, owner>>
requests == <<prog, owner, waiting, answer, made, crashed>>

Sending == -1      \* the repeats of a packet are still going out: 0 resets
Marks == {Sending, 0, 3, 7, 8, 20}
RESET_MIN == 8
AckTimeout == 6
Byte == 0 .. 255
LONG_ADDR_MARKER == 16384
NULL == -1         \* progDriver when there is no programming track
NoSpeeds == [c \in {0} |-> 0]

Idle == [pc |-> 1, retry |-> 0, cv |-> 0, byte |-> 0,
         verify |-> 0, word |-> 0, bit |-> 0, stash |-> 0, received |-> FALSE,
         rejoin |-> FALSE, autoOff |-> FALSE, state |-> "READY", driver |-> 0]

Active == prog # "none"
Instr == Program[prog][ack.pc]
Op == Instr[1]

-----------------------------------------------------------------------------
\* The interface in DCC.cpp: the program each call chooses and its arguments.

Task(name, cv, byte, word) == [prog |-> name, cv |-> cv, byte |-> byte, word |-> word]
NoTask == Task("none", 0, 0, 0)
BadId == Task("BAD_ID", 0, 0, 0)
Malformed == Task("MALFORMED", 0, 0, 0)

writeCVByte(cv, byte) == Task("WRITE_BYTE", cv, byte, 0)
writeCVBit(cv, bit, on) == Task(IF on THEN "WRITE_BIT1" ELSE "WRITE_BIT0", cv, bit, 0)
verifyCVByte(cv, byte) == Task("VERIFY_BYTE", cv, byte, 0)
verifyCVBit(cv, bit, on) == Task(IF on THEN "VERIFY_BIT1" ELSE "VERIFY_BIT0", cv, bit, 0)
readCVBit(cv, bit) == Task("READ_BIT", cv, bit, 0)
readCV(cv) == Task("READ_CV", cv, 0, 0)
getDriveawayLocoId == Task("LOCO_DRIVEAWAY", 0, 0, 0)
getLocoId == Task("LOCO_READ_ID", 0, 0, 0)
getConsistId == Task("LOCO_READ_CONSIST", 0, 0, 0)

\* Long addresses are marked in CV 17 with 0xC0.
setLocoId(id) ==
    CASE id \in 1 .. 127 -> Task("SHORT_LOCO_ID", 0, 0, id)
      [] id \in 128 .. 10239 -> Task("LONG_LOCO_ID", 0, 0, 49152 + id)
      [] OTHER -> BadId

\* CV 20 in the high byte, CV 19 with the direction bit in the low one.
setConsistId(id, reverse) ==
    LET cv20 == IF id <= 127 THEN 0 ELSE id \div 100
        cv19 == IF id <= 127 THEN id ELSE id % 100
    IN IF id \in 0 .. 10239
       THEN Task("CONSIST_ID", 0, 0, 256 * cv20 + cv19 + (IF reverse THEN 128 ELSE 0))
       ELSE BadId

-----------------------------------------------------------------------------

\* What an operation starts from, and what may spoil it.
Started(task) ==
    [task |-> task, tm |-> tm, cv |-> dec.cv,
     undisturbed |-> TRUE,    \* no other request or command since
     exact |-> TRUE,          \* no answer of the decoder missed since
     wrote |-> FALSE,         \* a CV was written in the last 100 ms
     rested |-> FALSE]        \* the power has been off for 30 ms

\* The tracks as they may be when programming starts.
StartingTracks ==
    LET base == [Setup(NoSpeeds) EXCEPT !.power[0] = "ON"]
        on   == [base EXCEPT !.power[1] = "ON"]
    IN {base, on, Join(on), SetTrackMode(base, NoSpeeds, 1, Plain("NONE"), 0),
        SetTrackMode(base, NoSpeeds, 0, Plain("PROG"), 0)}

Init ==
    /\ tm \in StartingTracks
    /\ dec \in Decoders
    /\ prog = "none"
    /\ owner = "none"
    /\ ack = Idle
    /\ packet = <<"none", 0, 0>>
    /\ pending = "no"
    /\ resets = 20
    /\ elapsed = FALSE
    /\ waiting = {}
    /\ answer = [to |-> "none", task |-> NoTask, value |-> 0]
    /\ faults = 0
    /\ made = {}
    /\ crashed = FALSE
    /\ case = Started(NoTask)

ProgramLength == Len(Program[prog])

\* The places where loop() can have returned.
Returns ==
    \/ ~Active
    \/ Op \in {"BASELINE", "W0", "W1", "WB", "V0", "V1", "VB", "WACK"}
    \/ ack.state \notin {"AFTER_READ", "AFTER_WRITE"}

-----------------------------------------------------------------------------
\* MotorDriver::setPower on the driver the ACK manager holds: switching the
\* programming track on clears the resets.
DriverPower(t, d, pm) == [t EXCEPT !.power[d] = pm]
ResetsAfter(t, d, pm) ==
    IF t.power[d] # pm /\ pm \in {"ON", "ALERT"} /\ t.isProg[d] THEN 0 ELSE resets

Reply(client, task, value) ==
    /\ answer' = [to |-> client, task |-> task, value |-> value]
    /\ waiting' = waiting \ {client}

\* The first Setup keeps the word of a task that has one.
WithWord(a, task) ==
    IF task.prog \in {"SHORT_LOCO_ID", "LONG_LOCO_ID", "CONSIST_ID"}
    THEN [a EXCEPT !.word = task.word] ELSE a

\* A request that is refused once it has taken the driver: an operation still
\* running goes on, with that driver and with the new request's word and join.
RefusedWith(client, task, driver, value) ==
    /\ ack' = [WithWord(ack, task) EXCEPT !.rejoin = tm.sync, !.driver = driver]
    /\ resets' = IF tm.sync THEN 0 ELSE resets
    /\ Reply(client, task, value)
    /\ case' = [case EXCEPT !.undisturbed = @ /\ ~Active]
    /\ UNCHANGED operation

\* DCCACK::Setup: leave the join, find the programming track, power it.
SetupAck(client, task) ==
    LET t1  == IF tm.sync THEN Unjoin(tm) ELSE tm
        d   == CHOOSE u \in ProgTracks(t1) : \A v \in ProgTracks(t1) : u <= v
        off == t1.power[d] = "OFF"
    IN CASE ProgTracks(t1) = {} -> RefusedWith(client, task, NULL, -3) /\ tm' = t1
         [] ProgTracks(t1) # {} /\ d \notin CanMeasure ->
              /\ RefusedWith(client, task, d, -2)
              /\ tm' = IF tm.sync THEN Join(t1) ELSE Unjoin(t1)
         [] OTHER ->
              /\ tm' = IF off THEN DriverPower(t1, d, "ON") ELSE t1
              /\ resets' = IF tm.sync \/ off THEN 0 ELSE resets
              /\ prog' = task.prog
              /\ owner' = client
              /\ ack' = [WithWord(ack, task) EXCEPT !.pc = 1, !.retry = AckRetry,
                           !.cv = task.cv, !.byte = task.byte, !.verify = task.byte,
                           !.bit = task.byte, !.rejoin = tm.sync, !.autoOff = off,
                           !.driver = d]
              /\ waiting' = waiting \cup {client}
              /\ case' = [Started(task) EXCEPT !.undisturbed = ~Active,
                                               !.wrote = case.wrote]
              /\ UNCHANGED answer

\* DCC::writeCVByte: the LaBox's own CVs are handled by Labox::ChangeCVs and
\* nobody is called back.
OwnCV(task) == task.prog = "WRITE_BYTE" /\ task.cv \in {1001, 1007}

\* DCC::setLocoId, setConsistId, ...CVBit: arguments refused with callback(-1).
Refused(task) ==
    \/ task = BadId
    \/ /\ task.prog \in {"WRITE_BIT0", "WRITE_BIT1", "VERIFY_BIT0", "VERIFY_BIT1",
                         "READ_BIT"}
       /\ task.byte >= 8

\* A request: <W>, <V>, <B>, <R> in the parser, refused while stashBusy is set;
\* cvReadProg and cvWriteProg of a Z21 throttle, refused while
\* readWriteThrottle is set. Nobody asks whether the ACK manager is free. A <W>
\* with a wrong number of parameters takes the stash and is then rejected.
Request(client, task) ==
    /\ Returns /\ ProgramLength <= MaxOvertaken
    /\ client \notin waiting \cup made
    /\ made' = made \cup {client}
    /\ CASE Refused(task) ->
              Reply(client, task, -1) /\ UNCHANGED <<tm, operation, ack, resets, case>>
         [] OwnCV(task) \/ task = Malformed ->
              /\ waiting' = waiting \cup {client}
              /\ UNCHANGED <<tm, operation, ack, resets, answer, case>>
         [] OTHER -> SetupAck(client, task)
    /\ UNCHANGED <<packet, pending, elapsed, dec, faults, crashed>>

-----------------------------------------------------------------------------
\* DCCACK::loop, one instruction at a time.

Step(a) == [a EXCEPT !.pc = @ + 1]

Baseline ==
    /\ Active /\ Op = "BASELINE"
    /\ tm.power[ack.driver] # "OVERLOAD"
    /\ resets >= (IF ack.autoOff \/ ack.rejoin THEN 20 ELSE 3)
    /\ ack' = [Step(ack) EXCEPT !.state = "AFTER_READ"]
    /\ UNCHANGED <<tm, packet, pending, resets, elapsed, dec, faults, case, requests>>

Writes == {"W0", "W1", "WB"}
Verifies == {"V0", "V1", "VB"}

\* Schedule the packet with its repeats; setAckPending.
Send ==
    /\ Active /\ Op \in Writes \cup Verifies
    /\ resets >= RESET_MIN
    /\ packet' = <<Op, ack.cv, IF Op \in {"WB", "VB"} THEN ack.byte ELSE ack.bit>>
    /\ pending' = "sent"
    /\ resets' = Sending
    /\ ack' = [Step(ack) EXCEPT !.state = IF Op \in Writes THEN "AFTER_WRITE" ELSE @]
    /\ case' = [case EXCEPT !.wrote = @ \/ Op \in Writes, !.rested = FALSE]
    /\ UNCHANGED <<tm, elapsed, dec, faults, requests>>

\* WACK: getAck, once the acknowledgement is no longer pending.
Wack ==
    /\ Active /\ Op = "WACK"
    /\ pending \in {"no", "acked"}
    /\ ack' = [Step(ack) EXCEPT !.received = pending = "acked"]
    /\ UNCHANGED <<tm, packet, pending, resets, elapsed, dec, faults, case, requests>>

\* Does this instruction call callback(), and with which value?
Calls ==
    \/ Op \in {"ITC0", "ITC1", "ITCB", "ITCBV", "ITCB7"} /\ ack.received
    \/ Op = "NAKFAIL" /\ ~ack.received
    \/ Op = "FAIL_IF_NONZERO_NAK" /\ ack.byte # 0
    \/ Op \in {"CALLFAIL", "COMBINELOCOID", "COMBINE1920"}

CallValue ==
    CASE Op = "ITC0" -> 0
      [] Op = "ITC1" -> 1
      [] Op \in {"ITCB", "ITCBV"} -> ack.byte
      [] Op = "ITCB7" -> ack.byte % 128
      [] Op = "COMBINELOCOID" -> LONG_ADDR_MARKER + ack.byte + (ack.stash - 192) * 256
      [] Op = "COMBINE1920" -> ack.stash * 100 + ((ack.byte % 128) % 100)
      [] Op = "FAIL_IF_NONZERO_NAK" -> -4
      [] OTHER -> -1

Skips ==
    \/ Op = "ITSKIP" /\ ack.received
    \/ Op = "NAKSKIP" /\ ~ack.received
    \/ Op = "BAD20SKIP" /\ ack.byte > 120

\* The next SKIPTARGET of the program.
Target ==
    CHOOSE i \in ack.pc .. Len(Program[prog]) :
        /\ Program[prog][i] = <<"SKIPTARGET">>
        /\ \A j \in ack.pc .. i - 1 : Program[prog][j] # <<"SKIPTARGET">>

\* What the register instructions assign.
Registers(a) ==
    CASE Op = "BIV" -> [a EXCEPT !.byte = a.verify]
      [] Op = "STARTMERGE" -> [a EXCEPT !.bit = 7, !.byte = 0]
      [] Op = "MERGE" -> [a EXCEPT !.byte = (2 * @ + (IF a.received THEN 0 ELSE 1)) % 256,
                                   !.bit = (@ + 255) % 256]
      [] Op = "SETBIT" -> [a EXCEPT !.bit = Instr[2]]
      [] Op = "SETCV" -> [a EXCEPT !.cv = Instr[2]]
      [] Op = "SETBYTE" -> [a EXCEPT !.byte = Instr[2]]
      [] Op = "SETBYTEH" -> [a EXCEPT !.byte = (a.word \div 256) % 256]
      [] Op = "SETBYTEL" -> [a EXCEPT !.byte = a.word % 256]
      [] Op = "STASHLOCOID" -> [a EXCEPT !.stash = a.byte]
      [] OTHER -> a

\* Instructions that neither wait nor call back.
Compute ==
    /\ Active
    /\ Op \notin {"BASELINE", "WACK"} \cup Writes \cup Verifies
    /\ ~Calls
    /\ ack' = IF Skips THEN [ack EXCEPT !.pc = Target + 1] ELSE Step(Registers(ack))
    /\ UNCHANGED <<tm, packet, pending, resets, elapsed, dec, faults, case, requests>>

-----------------------------------------------------------------------------
\* DCCACK::callback. The instruction stays the current one, so every pass of
\* loop() calls it again until the READY state has delivered the value.

Calling == Active /\ Calls
Retrying == CallValue = -1 /\ ack.retry > 0

\* Start the program again.
Retry ==
    /\ Calling /\ Retrying
    /\ ack' = [ack EXCEPT !.retry = @ - 1, !.pc = 1]
    /\ UNCHANGED <<tm, packet, pending, resets, elapsed, dec, faults, case, requests>>

Becomes(state) == ack' = [ack EXCEPT !.state = state]

\* Power off, to be kept off for 30 ms.
PowerOff30 ==
    /\ tm' = DriverPower(tm, ack.driver, "OFF")
    /\ Becomes("WAITING_30")
    /\ elapsed' = FALSE
    /\ UNCHANGED resets

\* A step of callback() that only changes its state.
JustBecomes(state) == Becomes(state) /\ UNCHANGED <<tm, elapsed, resets>>

\* In this state, with an answer to give; Rule 1: after a write 100 ms of stable
\* power; Rule 2: 30 ms without power before joining again.
CallbackIn(state) ==
    /\ Calling /\ ~Retrying
    /\ ack.state = state
    /\ UNCHANGED <<packet, pending, dec, faults, case, requests>>

\* Faulty variant: no pause before joining again.
AfterReadNoPause == CallbackIn("AFTER_READ") /\ JustBecomes("READY")

AfterRead ==
    /\ CallbackIn("AFTER_READ")
    /\ IF ack.rejoin /\ ~ack.autoOff THEN PowerOff30 ELSE JustBecomes("READY")

AfterWrite ==
    /\ CallbackIn("AFTER_WRITE")
    /\ IF ack.rejoin \/ ack.autoOff
       THEN Becomes("WAITING_100") /\ elapsed' = FALSE /\ UNCHANGED <<tm, resets>>
       ELSE JustBecomes("READY")

Waiting100 ==
    /\ CallbackIn("WAITING_100")
    /\ elapsed
    /\ IF ack.autoOff THEN JustBecomes("READY") ELSE PowerOff30

Waiting30 ==
    /\ CallbackIn("WAITING_30")
    /\ elapsed
    /\ tm' = DriverPower(tm, ack.driver, "ON")
    /\ resets' = ResetsAfter(tm, ack.driver, "ON")
    /\ Becomes("READY")
    /\ UNCHANGED elapsed

\* Faulty variant: the program is not ended, so the next pass calls back again.
ReadyAgain ==
    /\ Calling /\ ~Retrying
    /\ ack.state = "READY"
    /\ Reply(owner, case.task, CallValue)
    /\ UNCHANGED <<tm, operation, ack, packet, pending, resets, elapsed, dec, faults,
                   made, crashed, case>>

\* READY: power and join as before the operation, then the client's callback.
Ready ==
    /\ Calling /\ ~Retrying
    /\ ack.state = "READY"
    /\ LET off == IF ack.autoOff THEN DriverPower(tm, ack.driver, "OFF") ELSE tm
       IN tm' = IF ack.rejoin THEN Join(off) ELSE off
    /\ prog' = "none"
    /\ ack' = [ack EXCEPT !.pc = 1]
    /\ Reply(owner, case.task, CallValue)
    /\ UNCHANGED <<owner, packet, pending, resets, elapsed, dec, faults, made, crashed, case>>

\* millis() - callbackStart reaches the wait.
Elapse ==
    /\ Active /\ ack.state \in {"WAITING_100", "WAITING_30"}
    /\ ~elapsed
    /\ elapsed' = TRUE
    /\ case' = [case EXCEPT !.wrote = @ /\ ack.state # "WAITING_100",
                            !.rested = ack.state = "WAITING_30"]
    /\ UNCHANGED <<tm, ack, packet, pending, resets, dec, faults, requests>>

-----------------------------------------------------------------------------
\* The waveform, the decoder and checkAck.

\* A further mark of resets is reached; main loop passes are frequent enough
\* for checkAck to sample what happens between two marks. 17 packets take more
\* than 100 ms.
Tick ==
    /\ pending \notin {"sent", "pulse"}
    /\ resets < 20
    /\ resets' = CHOOSE m \in Marks : m > resets /\ \A k \in Marks : k > resets => k >= m
    /\ case' = [case EXCEPT !.wrote = @ /\ resets' < 8]
    /\ UNCHANGED <<tm, ack, packet, pending, elapsed, dec, faults, requests>>

Bit(v, n) == (v \div 2 ^ n) % 2
WithBit(v, n, b) == v + (b - Bit(v, n)) * 2 ^ n

\* The decoder gets the packet if its track carries the programming signal.
Hears ==
    /\ ack.driver = Site
    /\ Kind(tm, Site) = "PROG"
    /\ tm.power[Site] \in {"ON", "ALERT"}

Supports(cvs, cv) == cv \in DOMAIN cvs /\ cvs[cv] # -1

\* The CVs after packet p, and whether the decoder acknowledges it.
Executed(cvs, p) ==
    [cvs EXCEPT ![p[2]] = CASE p[1] = "WB" -> p[3]
                            [] p[1] = "W0" -> WithBit(@, p[3], 0)
                            [] p[1] = "W1" -> WithBit(@, p[3], 1)
                            [] OTHER -> @]
Acknowledges(d, p) ==
    CASE p[1] \in Writes -> d.acks
      [] p[1] = "VB" -> d.cv[p[2]] = p[3]
      [] p[1] = "V0" -> Bit(d.cv[p[2]], p[3]) = 0
      [] p[1] = "V1" -> Bit(d.cv[p[2]], p[3]) = 1

\* The repeats have gone out. The decoder may miss the packet, and the ACK
\* manager its answer.
Receive(heard, seen) ==
    /\ pending = "sent"
    /\ heard => Hears /\ Supports(dec.cv, packet[2])
    /\ (Hears /\ Supports(dec.cv, packet[2]) /\ ~(heard /\ seen))
       => ProgramLength <= MaxMissed /\ faults < MaxFaults
    /\ resets' = IF resets = Sending THEN 0 ELSE resets
    /\ dec' = IF heard THEN [dec EXCEPT !.cv = Executed(@, packet)] ELSE dec
    /\ pending' = IF heard /\ seen /\ Acknowledges(dec, packet) THEN "pulse" ELSE "silent"
    /\ LET missed == Hears /\ Supports(dec.cv, packet[2]) /\ ~(heard /\ seen)
       IN /\ faults' = faults + (IF missed THEN 1 ELSE 0)
          /\ case' = [case EXCEPT !.exact = @ /\ ~missed]
    /\ UNCHANGED <<tm, ack, packet, elapsed, requests>>

\* Faulty variant: an acknowledgement that does not come is awaited for ever.
CheckAckNoTimeout ==
    /\ pending = "pulse" /\ pending' = "acked"
    /\ UNCHANGED <<tm, ack, packet, resets, elapsed, dec, faults, case, requests>>

\* checkAck: a pulse of the right length, or the timeout.
CheckAck ==
    /\ \/ pending = "pulse" /\ pending' = "acked"
       \/ pending = "silent" /\ resets > AckTimeout /\ pending' = "no"
    /\ UNCHANGED <<tm, ack, packet, resets, elapsed, dec, faults, case, requests>>

-----------------------------------------------------------------------------
\* Commands of other users and the overload mechanism, meanwhile.

\* The tracks become t.
Disturbed(t) ==
    /\ tm' = t
    /\ resets' = IF \E u \in Tracks : /\ t.isProg[u] /\ t.power[u] \in {"ON", "ALERT"}
                                      /\ tm.power[u] # t.power[u]
                 THEN 0 ELSE resets
    /\ case' = [case EXCEPT !.undisturbed = FALSE]
    /\ UNCHANGED <<ack, packet, pending, elapsed, dec, requests>>

\* <0 PROG>, <1 PROG>, <1 JOIN>, <=B NONE>, and an alert that ends in overload.
Disturb ==
    /\ Active /\ Returns /\ ProgramLength <= MaxOvertaken
    /\ faults < MaxFaults
    /\ faults' = faults + 1
    /\ \/ Disturbed(SetTrackPower([Unjoin(tm) EXCEPT !.boosted = FALSE],
                                 NoSpeeds, {"PROG"}, "OFF"))
       \/ Disturbed(SetTrackPower(Unjoin(tm), NoSpeeds, {"PROG"}, "ON"))
       \/ Disturbed(SetTrackPower(Join(tm), NoSpeeds, {"MAIN", "PROG"}, "ON"))
       \/ Disturbed(SetTrackMode(tm, NoSpeeds, Site, Plain("NONE"), 0))
       \/ tm.power[Site] = "ON" /\ Disturbed(DriverPower(tm, Site, "OVERLOAD"))

\* The overload is over after its wait: the power is tried again, and stays.
Recover ==
    /\ \/ tm.power[Site] = "OVERLOAD" /\ Disturbed(DriverPower(tm, Site, "ALERT"))
       \/ tm.power[Site] = "ALERT" /\ Disturbed(DriverPower(tm, Site, "ON"))
    /\ UNCHANGED faults

-----------------------------------------------------------------------------

Callback == Retry \/ AfterRead \/ AfterWrite \/ Waiting100 \/ Waiting30 \/ Ready
Loop == Baseline \/ Send \/ Wack \/ Compute \/ Callback
Physics == Tick \/ Elapse \/ CheckAck \/ Recover
           \/ (\E heard, seen \in BOOLEAN : Receive(heard, seen))

\* The next pass uses progDriver: checkAck measures the current until the answer has
\* come or timed out, BASELINE asks for the power, callback() switches it.
UsesDriver ==
    \/ pending \in {"sent", "pulse"}
    \/ pending = "silent" /\ resets <= AckTimeout
    \/ Active /\ Op = "BASELINE"
    \/ /\ Calling /\ ~Retrying
       /\ CASE ack.state = "AFTER_READ" -> ack.rejoin /\ ~ack.autoOff
            [] ack.state = "WAITING_100" -> elapsed /\ ~ack.autoOff
            [] ack.state = "WAITING_30" -> elapsed
            [] ack.state = "READY" -> ack.autoOff
            [] OTHER -> FALSE

\* It is NULL since a request was refused with -3, and the box stops.
Crash ==
    /\ crashed' = TRUE
    /\ UNCHANGED <<tm, operation, ack, packet, pending, resets, elapsed, dec, waiting,
                   answer, faults, made, case>>

\* The main loop goes on, and time with it.
Running ==
    /\ ~crashed
    /\ \/ ack.driver = NULL /\ UsesDriver /\ Crash
       \/ ~(ack.driver = NULL /\ UsesDriver) /\ (Loop \/ Physics)

Next ==
    \/ Running
    \/ ~crashed /\ Disturb
    \/ ~crashed /\ \E c \in Clients : \E task \in Tasks[c] : Request(c, task)

\* The main loop keeps running and time passes; nobody has to ask anything.
Spec == Init /\ [][Next]_vars /\ WF_vars(Running)

-----------------------------------------------------------------------------

TypeOK ==
    /\ prog \in DOMAIN Program
    /\ ack.pc \in 1 .. Len(Program[prog])
    /\ {ack.byte, ack.verify, ack.bit, ack.stash} \subseteq Byte
    /\ ack.state \in {"AFTER_READ", "AFTER_WRITE", "WAITING_100", "WAITING_30", "READY"}
    /\ pending \in {"no", "sent", "pulse", "silent", "acked"}
    /\ resets \in Marks
    /\ ack.driver \in Tracks \cup {NULL}
    /\ waiting \subseteq Clients
    /\ \A cv \in DOMAIN dec.cv : dec.cv[cv] \in Byte \cup {-1}

\* A callback is owed to the client whose operation runs, and it is made once:
\* callback() runs several times per operation, but only READY delivers.
AnsweredOnce == Active => owner \in waiting

\* The operation that ran is over and its result delivered.
Answered == Active /\ prog' = "none"

\* What a result >= 0 claims, for the operations on one CV and on addresses.
Claim(task, value, cvs) ==
    CASE task.prog \in {"READ_CV", "VERIFY_BYTE"} -> value = cvs[task.cv]
      [] task.prog \in {"READ_BIT", "VERIFY_BIT0", "VERIFY_BIT1"} ->
           value = Bit(cvs[task.cv], task.byte)
      [] task.prog = "WRITE_BYTE" -> cvs[task.cv] = task.byte
      [] task.prog = "WRITE_BIT0" -> Bit(cvs[task.cv], task.byte) = 0
      [] task.prog = "WRITE_BIT1" -> Bit(cvs[task.cv], task.byte) = 1
      [] task.prog = "SHORT_LOCO_ID" -> cvs[1] = task.word /\ Bit(cvs[29], 5) = 0
      [] task.prog = "LONG_LOCO_ID" ->
           cvs[17] * 256 + cvs[18] = task.word /\ Bit(cvs[29], 5) = 1
      [] OTHER -> TRUE

\* A success reported to a client is true of the decoder, whatever answers were
\* missed, whoever overtook the operation and whatever happened to the tracks:
\* merged bytes are verified and an acknowledgement is never taken for another
\* packet's.
AnswersTruthful ==
    [][Answered /\ answer'.value >= 0 => Claim(answer'.task, answer'.value, dec.cv)]_vars

\* The address a throttle has to use for the decoder (getLocoId).
OwnAddress(cvs) ==
    CASE Bit(cvs[29], 5) = 0 -> cvs[1]
      [] Supports(cvs, 17) /\ Supports(cvs, 18) ->
           LONG_ADDR_MARKER + (cvs[17] - 192) * 256 + cvs[18]
      [] OTHER -> -1

\* The consist it is in, 0 for none (getConsistId); CV 20 above 120 is ignored.
ConsistOf(cvs) ==
    CASE Supports(cvs, 20) /\ cvs[20] \in 1 .. 120 /\ Supports(cvs, 19) ->
           cvs[20] * 100 + ((cvs[19] % 128) % 100)
      [] Supports(cvs, 20) /\ cvs[20] \in 1 .. 120 -> -1
      [] Supports(cvs, 19) -> cvs[19] % 128
      [] OTHER -> -1

\* The result a client should get from decoder d.
Expected(task, cvs) ==
    CASE task.prog \in {"READ_CV", "VERIFY_BYTE"} ->
           IF Supports(cvs, task.cv) THEN cvs[task.cv] ELSE -1
      [] task.prog \in {"READ_BIT", "VERIFY_BIT0", "VERIFY_BIT1"} ->
           IF Supports(cvs, task.cv) THEN Bit(cvs[task.cv], task.byte) ELSE -1
      [] task.prog \in {"WRITE_BYTE", "WRITE_BIT0", "WRITE_BIT1"} ->
           IF Supports(cvs, task.cv) THEN 1 ELSE -1
      [] task.prog = "LOCO_READ_ID" ->
           IF Supports(cvs, 29) THEN OwnAddress(cvs) ELSE -1
      [] task.prog = "LOCO_READ_CONSIST" -> ConsistOf(cvs)
      [] task.prog = "LOCO_DRIVEAWAY" ->
           IF ConsistOf(cvs) > 0 THEN ConsistOf(cvs)
           ELSE IF Supports(cvs, 20) /\ cvs[20] \in 1 .. 120 THEN -1
           ELSE IF Supports(cvs, 29) THEN OwnAddress(cvs) ELSE -1
      [] task.prog = "SHORT_LOCO_ID" ->
           IF Supports(cvs, 29) /\ Supports(cvs, 1) THEN 1 ELSE -1
      [] task.prog = "LONG_LOCO_ID" ->
           IF \A cv \in {29, 17, 18} : Supports(cvs, cv) THEN 1 ELSE -1
      [] task.prog = "CONSIST_ID" ->
           IF task.word >= 256 /\ ~(Supports(cvs, 20) /\ dec.acks) THEN -4
           ELSE IF Supports(cvs, 19) THEN 1 ELSE -1

\* An operation that is left alone, with a decoder whose answers all arrive,
\* gives the right result: also the one for CVs the decoder lacks.
AnswersRight ==
    [][Answered /\ case.undisturbed /\ case.exact
       => answer'.value = Expected(answer'.task, case.cv)]_vars

\* A track in ALERT has power like one that is ON.
Settled(t) ==
    [t EXCEPT !.power = [u \in Tracks |-> IF @[u] = "ALERT" THEN "ON" ELSE @[u]]]

\* An operation that is left alone leaves the join and the power of every track
\* as it found them ("Restore <1 JOIN> to state before BASELINE").
TracksRestored ==
    [][Answered /\ case.undisturbed => Settled(tm') = Settled(case.tm)]_vars

\* Rule 1: after a write the ACK manager keeps the power on for 100 ms.
PowerHeldAfterWrite ==
    [][(prog # "none" /\ UNCHANGED <<faults, made>> /\ ack.driver # NULL
        /\ tm.power[ack.driver] = "ON" /\ tm'.power[ack.driver] = "OFF")
       => ~case.wrote]_vars

\* Rule 2: the track joins the main again after 30 ms without power, or off.
OffBeforeRejoin ==
    [][Answered /\ case.undisturbed /\ tm'.sync
       => case.rested \/ tm'.power[ack.driver] = "OFF"]_vars

\* The ACK manager becomes free again: every wait of loop() ends, whatever commands,
\* requests and faults come between.  The one other end is a stop of the box, and an
\* operation that is left alone never comes to it.
ManagerFrees == Active ~> ~Active \/ (crashed /\ ~case.undisturbed)

\* What a client is told is the truth, and the right answer when nothing disturbed
\* the operation.
AnswersTrue == AnswersTruthful /\ AnswersRight

\* The tracks are given back as they were found, by the power rules.
TracksGivenBack == TracksRestored /\ PowerHeldAfterWrite /\ OffBeforeRejoin
=============================================================================
