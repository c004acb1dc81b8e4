----------------------------- MODULE MainTrack ------------------------------
(***************************************************************************)
(* The packet queues in operation: the command handlers schedule packets,  *)
(* the main loop hands one at a time to the transmitter, the decoders on   *)
(* the rails obey, and time passes.  rails is what each decoder was told   *)
(* last, cmd what the handlers asked for last.                             *)
(***************************************************************************)
EXTENDS DCCQueue

CONSTANTS
    Locos,        \* loco addresses that throttles use
    AccCommands,  \* parameters of the <a> commands users type, of addresses from 1
    Accs,         \* accessories pulsed: coil on, then off after a delay
    Signals,      \* accessories sent their own on and off packets
    Speeds,       \* speed values other than emergency stop
    Groups,       \* function groups, a subset of 1..5
    Heads,        \* addresses of <A> commands
    Aspects,      \* and their values
    Times,        \* times of the model clock, in minutes
    ClockRates,   \* how much faster than the real one it may run
    CvRepeats,    \* repeats of a program-on-main packet
    AccRepeats,   \* repeats of an accessory packet
    TimeRepeats,  \* repeats of a time packet
    EstopRepeats, \* repeats of an emergency stop packet
    AccDelay,     \* milliseconds between coil on and coil off
    BootTime,     \* the clock when the first command arrives
    MaxTime,      \* the clock stops there once no coil-off is waiting
    MaxCommands   \* how many packets the handlers schedule

ESTOP == "estop"

ASSUME MainTrackAssumption ==
    /\ Locos \subseteq 1..(W16 - 1) /\ AccDelay \in 1..(W16 - 1)
    /\ CvRepeats \in Nat /\ AccRepeats \in Nat /\ TimeRepeats \in Nat /\ EstopRepeats \in Nat
    /\ Groups \subseteq 1..5
    /\ BootTime \in 0..(W32 - 1) /\ MaxTime \in Nat /\ MaxCommands \in Nat

VARIABLES
    q,        \* the statics of DCCQueue
    now,      \* millis()
    rails,    \* what the decoders heard last, and the last two packets
    cmd,      \* what the handlers asked for last
    commands  \* packets scheduled so far

qvars == <<q, now, rails, cmd, commands>>

\* The decoders on the main track (external): a loco obeys its own address
\* and the broadcast address 0.
Unheard == [speed |-> [l \in Locos |-> Fresh],
            fn    |-> [l \in Locos |-> [g \in Groups |-> Fresh]],
            coil  |-> [a \in Accs \cup Signals |-> OFF],
            aspect |-> [a \in Heads |-> 0], time |-> 0,
            prev  |-> IdlePacket, cur |-> IdlePacket]

Reaches(p, a) == p.to = a \/ (p.kind = "speed" /\ p.to = 0)

Hear(r, p) ==
    [speed |-> [l \in Locos |-> IF p.kind = "speed" /\ Reaches(p, l)
                                 THEN p.val ELSE r.speed[l]],
     fn    |-> [l \in Locos |-> [g \in Groups |->
                   IF p.kind = FnKind(g) /\ p.to = l THEN p.val ELSE r.fn[l][g]]],
     coil  |-> [a \in Accs \cup Signals |-> IF p.kind = "acc" /\ p.to = a
                                           THEN p.val ELSE r.coil[a]],
     aspect |-> [a \in Heads |-> IF p.kind = "aspect" /\ p.to = a THEN p.val ELSE r.aspect[a]],
     time  |-> IF p.kind = "time" THEN p.val ELSE r.time,
     prev  |-> r.cur, cur |-> p]

QInit ==
    /\ q = NoQueue
    /\ now = BootTime
    /\ rails = Unheard
    /\ cmd = [speed |-> Unheard.speed, fn |-> Unheard.fn, coil |-> Unheard.coil,
              aspect |-> Unheard.aspect, time |-> 0, lastclocktime |-> 0]
    /\ commands = 0

Schedule(newq) ==
    /\ commands < MaxCommands
    /\ commands' = commands + 1
    /\ q' = newq
    /\ UNCHANGED <<now, rails>>

\* A throttle speed for one loco.
SpeedCommand(l, v) ==
    /\ Schedule(scheduleDCCSpeedPacket(q, SpeedPacket(l, v), 0, l))
    /\ cmd' = [cmd EXCEPT !.speed[l] = v]

\* An emergency stop of one loco, or of all of them when l is 0.
EstopCommand(l) ==
    /\ Schedule(scheduleEstopPacket(q, SpeedPacket(l, ESTOP), EstopRepeats, l))
    /\ cmd' = [cmd EXCEPT !.speed =
                  [k \in Locos |-> IF l \in {0, k} THEN ESTOP ELSE @[k]]]

FunctionCommand(l, g, v) ==
    /\ Schedule(scheduleDCCFunctionPacket(q, Packet(l, FnKind(g), v), l, g))
    /\ cmd' = [cmd EXCEPT !.fn[l][g] = v]

\* Programming on the main: a repeated packet to one loco.
CvCommand(l) ==
    /\ Schedule(scheduleDCCPacket(q, Packet(l, "cv", Fresh), CvRepeats, l))
    /\ UNCHANGED cmd

\* <a>: by linear address or by address and port, with a fourth parameter for
\* the on packet or the off packet alone.
Accessory(p) ==
    LET at(address, port, gate, onoff) ==
            [address |-> address, port |-> port, gate |-> gate, onoff |-> onoff]
    IN  CASE Len(p) = 2 -> at((p[1] - 1) \div 4 + 1, (p[1] - 1) % 4, p[2], 2)
          [] Len(p) = 3 -> at(p[1], p[2], p[3], 2)
          [] Len(p) = 4 -> at(p[1], p[2], p[3], p[4])
Accepted(p) ==
    LET a == Accessory(p)
    IN  /\ a.address \in 0..511 /\ a.port \in 0..3 /\ a.gate \in 0..1
        /\ Len(p) = 4 => a.onoff \in 0..1

\* Each port has two coils.
Coil(a) == (a.address * 4 + a.port) * 2 + a.gate

\* An accessory is pulsed by all its users, or by none of them. (It is the meaning
\* of the two sets.)
ASSUME UsersAssumption ==
    /\ Accs \cap Signals = {}
    /\ \A p \in AccCommands : LET a == Accessory(p) IN
           Accepted(p) => Coil(a) \in IF a.onoff = 2 THEN Accs ELSE Signals
    /\ Times \subseteq Nat /\ ClockRates \subseteq Nat

\* setAccessory with its tristate onoff: a pulse, or one packet to no loco.
AccessoryPulse(p) ==
    LET a == Accessory(p) IN
    /\ Accepted(p) /\ a.onoff = 2
    /\ Schedule(scheduleAccOnOffPacket(q, Packet(Coil(a), "acc", ON), AccRepeats, AccDelay))
    /\ UNCHANGED cmd

AccessorySet(p) ==
    LET a == Accessory(p)
        v == IF a.onoff = 1 THEN ON ELSE OFF
    IN  /\ Accepted(p) /\ a.onoff < 2
        /\ Schedule(scheduleDCCPacket(q, Packet(Coil(a), "acc", v), AccRepeats, 0))
        /\ cmd' = [cmd EXCEPT !.coil[Coil(a)] = v]

\* setExtendedAccessory: eleven bits of address, counted from -3, and five of value.
ExtendedAccessory(a, v) ==
    /\ a \in -3..2044 /\ v \in 0..31
    /\ Schedule(scheduleDCCPacket(q, Packet(a, "aspect", v), AccRepeats, 0))
    /\ cmd' = [cmd EXCEPT !.aspect[a] = v]

\* A time of the model clock, for everybody; a refused one is remembered as well.
TimeRight(minutes, speed) == minutes < 1440 /\ speed <= 63
setTime(minutes, speed) ==
    IF TimeRight(minutes, speed)
    THEN scheduleDCCPacket(q, Packet(0, "time", minutes), TimeRepeats, 0) ELSE q
setClockTime(minutes, rate) ==
    /\ minutes # cmd.lastclocktime
    /\ Schedule(setTime(minutes, rate))
    /\ cmd' = [cmd EXCEPT !.lastclocktime = minutes,
                          !.time = IF TimeRight(minutes, rate) THEN minutes ELSE @]

\* The reminder window is open: a packet goes to the transmitter, or none
\* is found and the caller has a chance to queue reminders.
Transmit(force) ==
    \E n \in {scheduleNext(q, force, now)} :
        /\ n.ok
        /\ q' = n.q
        /\ rails' = Hear(rails, n.packet)
        /\ UNCHANGED <<now, cmd, commands>>

Waiting(s) == s.type = "ACC_OFF" /\ now < s.union

Tick ==
    /\ now < MaxTime \/ \E i \in DOMAIN q.high : Waiting(q.high[i])
    /\ now' = (now + 1) % W32
    /\ UNCHANGED <<q, rails, cmd, commands>>

QNext ==
    \/ \E l \in Locos, v \in Speeds : SpeedCommand(l, v)
    \/ \E l \in Locos \cup {0} : EstopCommand(l)
    \/ \E l \in Locos, g \in Groups, v \in {ON, OFF} : FunctionCommand(l, g, v)
    \/ \E l \in Locos : CvCommand(l)
    \/ \E p \in AccCommands : AccessoryPulse(p) \/ AccessorySet(p)
    \/ \E a \in Heads, v \in Aspects : ExtendedAccessory(a, v)
    \/ \E minutes \in Times, rate \in ClockRates : setClockTime(minutes, rate)
    \/ \E force \in BOOLEAN : Transmit(force)
    \/ Tick

QSafety == QInit /\ [][QNext]_qvars

\* DCC::loop polls the transmitter for ever, and time passes.
QSpec == QSafety /\ WF_qvars(Transmit(TRUE)) /\ WF_qvars(Tick)

-----------------------------------------------------------------------------
(* Properties.                                                             *)

Types == {"NORMAL", "FUNCTION1", "FUNCTION2", "FUNCTION3", "FUNCTION4",
          "FUNCTION5", "SPEED", "ACC_ON", "ACC_OFF"}
Vals == Speeds \cup {ESTOP, ON, OFF, Fresh}
Kinds == {"speed", "fn1", "fn2", "fn3", "fn4", "fn5", "cv", "acc", "idle"}
Packets == [kind : Kinds, to : Locos \cup Accs \cup Signals \cup {0}, val : Vals]
              \cup [kind : {"aspect", "time"}, to : Heads \cup {0}, val : Nat]
Slots == [type : Types, packet : Packets, repeats : Nat, union : Nat]
HighSlots == {s \in Slots : s.type \in {"SPEED", "ACC_OFF"}}
LowSlots == {s \in Slots : s.type \notin {"SPEED", "ACC_OFF"}}
Heard == [speed : [Locos -> Vals], fn : [Locos -> [Groups -> Vals]],
          coil : [Accs \cup Signals -> Vals], aspect : [Heads -> Nat], time : Nat,
          prev : Packets, cur : Packets]

\* Each variable keeps the shape the class declares; in particular only
\* throttle and coil-off slots are ever in the high priority queue.
QTypeOK ==
    /\ q \in [high : Seq(HighSlots), low : Seq(LowSlots), last : 0..(W16 - 1),
              free : Nat, created : Nat]
    /\ rails \in Heard
    /\ cmd \in [speed : [Locos -> Vals], fn : [Locos -> [Groups -> Vals]],
                coil : [Accs \cup Signals -> Vals], aspect : [Heads -> Nat], time : Nat,
                lastclocktime : Nat]
    /\ now \in Nat /\ commands \in 0..MaxCommands

\* The slot's packet is of this kind and for address a.
Carries(slot, kind, a) == slot.packet.kind = kind /\ Reaches(slot.packet, a)

\* What a decoder ends up with once the queue has been sent in order.
Outcome(queue, kind, a, heard) ==
    LET pending == {i \in DOMAIN queue : Carries(queue[i], kind, a)}
    IN  IF pending = {} THEN heard ELSE queue[Max(pending)].packet.val

\* Promises 2 and 3 of DCCQueue.cpp's header: whatever is queued, replaced,
\* discarded or jumped, the last speed a decoder will hear is the last one
\* commanded: no speed command is lost, and none that is older than an
\* emergency stop (or than a later speed) survives it.
NewestSpeedWins ==
    \A l \in Locos : Outcome(q.high, "speed", l, rails.speed[l]) = cmd.speed[l]

\* The same for each function group of each loco, whose packets replace one
\* another in the low priority queue among packets of other types.
NewestFunctionWins ==
    \A l \in Locos, g \in Groups :
        Outcome(q.low, FnKind(g), l, rails.fn[l][g]) = cmd.fn[l][g]

\* Accessory packets of their own, aspects and times are sent in the order of the commands:
\* loco packets that are held back do not let them overtake one another.
NewestSignalWins ==
    /\ \A a \in Signals : Outcome(q.low, "acc", a, rails.coil[a]) = cmd.coil[a]
    /\ \A a \in Heads : Outcome(q.low, "aspect", a, rails.aspect[a]) = cmd.aspect[a]
    /\ Outcome(q.low, "time", 0, rails.time) = cmd.time

\* Promise 4: a coil that is energised has its switch-off packet waiting in
\* the high priority queue, where nothing removes or overwrites it, or its
\* coil-on slot has repeats to send before it turns into that packet.
CoilOffOwed ==
    \A a \in Accs : rails.coil[a] = ON =>
        \/ \E i \in DOMAIN q.high : q.high[i].packet = Packet(a, "acc", OFF)
        \/ \E i \in DOMAIN q.low : q.low[i].packet = Packet(a, "acc", ON)

IsLocoPacket(p) == p.to \in Locos /\ p.kind \notin {"acc", "aspect"}

\* Promise 5, as far as the code keeps it: two packets in a row never go to
\* the same loco unless one of them is an emergency stop.
Separated ==
    (IsLocoPacket(rails.prev) /\ IsLocoPacket(rails.cur)
        /\ ESTOP \notin {rails.prev.val, rails.cur.val})
        => rails.prev.to # rails.cur.to

\* getSlot's own leak test: when it must allocate, every slot ever created
\* is in one of the two queues.
NoSlotLeak == q.created = Len(q.high) + Len(q.low) + q.free

\* A coil that was energised has been released.
CoilReleased == \A a \in Accs : rails.coil[a] = OFF

\* No packet waits behind the rules that skip it.
QueuesDrained == q.high = <<>> /\ q.low = <<>>

\* Every slot is accounted for and in the queue its type belongs to, however
\* slots are recycled, purged and moved between the queues.
SlotsSound == QTypeOK /\ NoSlotLeak

\* Once the queues are sent every decoder has obeyed its newest command, a coil's
\* switch-off included, whatever was replaced, purged or overtaken.
OutcomeRight == NewestSpeedWins /\ NewestFunctionWins /\ NewestSignalWins /\ CoilOffOwed

\* When the handlers go quiet everything queued is served: the queues drain, and
\* every coil a command has energised is released.
QueuesServe == <>[](CoilReleased /\ QueuesDrained)
=============================================================================
