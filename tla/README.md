# A TLA+ model of CommandStation-EX-LaBox

CommandStation-EX-LaBox is the firmware of a model railway command station: it
takes commands from serial lines, WiFi throttles, wired buses, automation
scripts and the buttons of its box, and turns them into DCC packets on powered
tracks, DC levels, moves of turnouts and outputs, and operations on the
programming track. This directory holds a specification of it, model-checked
with TLC and, in part, proved with TLAPS. The build that is modelled is the
ESP32 one of `config.Labox.h`.

Paths are relative to `src/`. `PROJECT.json` maps every definition that models
code to the lines it stands for, lists the components with their status and the
places where the code is hard to test.

## 1. The system

### 1.1 Scheduling

One task runs the main loop (`CommandStation-EX-LaBox.ino`): `DCC::loop`
(track manager, waveform and ACK sampling, ACK manager, overload checks, then
one packet for the main track), the serial lines, the external command items,
WiFi, EXRAIL, displays, one device of the HAL, a part of the sensor scan and
the box's display and buttons. A command is executed without interruption by
another command. What interleaves is

- the interrupt of the RMT peripheral, which sends the packets, with everything;
- operations that take many passes (programming, momentum, reminders, overload
  recovery, sensor scans, automation tasks, dialogs) with commands that arrive
  between passes;
- broadcasts with the reply of the command that causes them: they share a ring;
- tasks of the ESP32 that only take from queues (CAN acknowledgements);
- the decoders, rails, I2C devices, networks and users, which lose packets, do
  not answer, fall silent or ask at the wrong moment;
- restarts, which the box makes itself to change its mode.

### 1.2 Components

| Component (files) | State | Operations | Interacts with | What makes it correct |
|---|---|---|---|---|
| Packet queue (`DCCQueue`) | two linked lists of slots, recycle list, loco sent to last | schedule speed, function, stop, accessory, plain packet; choose the next | filled by `DCC.cpp`, emptied by `DCC::loop` into the transmitter | the newest command is the last one a decoder hears; an energised coil is released; no slot is lost |
| Transmitter (`DCCRMT`, `DCCWaveformRMT`) | buffer, `dataReady`, `dataRepeat`, counters | `schedulePacket`, the interrupt | main loop against interrupt | no half written packet on the rails, each packet sent in full, the main loop never hangs |
| Loco table (`LocoSlot`), consists (`DCCConsist`) | list of slots in use, recycler, chains of consist members | create, forget, chain, unchain | every user of a loco; the reminder loop keeps a pointer into it | lists and chains stay sound through reuse |
| Driving (`DCC.cpp`) | reminder pointer and state, stop lock | throttle, functions, stops, forget, reminders, momentum | table, queue, track manager, broadcasts | decoders end up doing what the table says; a lock stops everything; a forgotten loco is not driven |
| Track manager (`TrackManager`), drivers (`MotorDriver`) | mode, power, cab, DC signal, brake per track; join; overload times | set mode, power, join, DC signal; overload checks | parser, ACK manager, box | one programming track, dead unused tracks, no left-overs of an earlier mode; a short is cut, a good track comes back |
| Programming (`DCCACK`, programs in `DCC.cpp`) | program counter, registers, retry, callback and its state | 14 programs, set-up, retries, power rules | tracks, calls clients back | results are true, tracks are given back, every operation ends |
| Network (`CommandDistributor`, `RingStream`, `WifiESP32`, `Websockets`) | client slots and types, outbound ring | connect, parse, broadcast, drop, tear down | all commands and all broadcasts | replies leave whole and in order; a lost client leaves nothing behind |
| Throttles (`WiThrottle`, `Z21Throttle`) | sessions, their locos and flags, buffers | protocol commands, heartbeat, notification | `DCC.cpp`, each other through broadcasts | a throttle shows what the table has; silence ends a session |
| Wired clients (`SerialManager`, `EXComm`, `SProg`, `CanMarklin`, `XPressNet`) | unfinished line, job, queue of acknowledgements, turn | a line, a frame, a request | `DCC.cpp`, ACK manager | lines, turns, answers and acknowledgements stay in step |
| EXRAIL (`EXRAIL2*`) | ring of tasks, flags, reservations, event handlers | one step of one task per pass, events, kill, pause | locos, signals, sensors, programming | sections are exclusive, no loco runs without a task, every task moves |
| Sensors, outputs, turnouts, turntables (`Sensors`, `Outputs`, `Turnouts`, `Turntables`, `LCN`) | lists of devices with a state | set, scan, debounce, notify, create, remove | HAL, EXRAIL events, broadcasts | each change is announced, a glitch is not; kept, told and driven agree |
| HAL and I2C (`IODevice`, `IO_*`, `I2CManager`) | chain of devices, ports, retries | create, read, write, loop, reset | sensors, turnouts, outputs | every device is served; one that fails does not block |
| Box (`hmi*`, `menu*`, `LaboxModes`, `Labox`) | events, list of trains, menu, dialog, mode, EEPROM | buttons, events, jobs, mode changes with restart | ACK manager, tracks, WiFi | what is shown is what is; modes and tracks agree; dialogs end |
| Text output, other processors, configuration | - | - | - | out of scope, section 6 |

## 2. Modules

Operators of the data modules keep the names of the methods they model and take
and return the record of the statics involved, so that a handler that makes
several calls is a composition of operators and one action. `Eager` makes TLC
evaluate such compositions once; it has no meaning of its own.

| Module | Models | State |
|---|---|---|
| `DCCQueue` | `DCCQueue.cpp` | (data module) queues, last loco, recycle count |
| `MainTrack` | the queue in operation: handlers, `DCC::loop`, clock, decoders | `q now rails cmd commands` |
| `PacketFeed` | abstract: what a transmitter promises | `air job left` |
| `RMTChannel` | `schedulePacket`, `RMTfillData`, `RMTinterrupt`, one step per access to shared state | the flags, `data`, `ram`, `pc` |
| `LocoSlot` | `LocoSlot.cpp`, `DCCConsist.cpp` | (data module) the table |
| `LocoTable` | the table under every command that changes its structure | `tb crashed` |
| `DCCLoco` | throttle, functions, stops, lock, forget, consists, save and restore, reminder loop, over a lossy track | those of `LocoTable`, `q nextLocoReminder loopStatus estopIsLocked heard commands` |
| `TrackManager` | `TrackManager.cpp`, power part of `MotorDriver` | (data module) the tracks |
| `Districts` | track commands, overloads, throttles, momentum, consists, stops and forgets as far as they drive DC tracks | `usage tm known target speed lead locked astray` |
| `Overload` | `checkPowerOverload`, inrush throttling, power commands, a shared fault pin | state, ages of the times, the wait, the rails |
| `AckPrograms` | the ack programs of `DCC.cpp` as instruction sequences | (constants) |
| `Programming` | `DCCACK.cpp`, the programming interface of `DCC.cpp`, its clients, `TrackManager`, a decoder | see its VARIABLES |
| `RingStream` | `RingStream.cpp` | (data module) the ring |
| `Network` | `WifiESP32.cpp`, `CommandDistributor.cpp`, `Websockets.cpp` | clients, ring, stage of the pass, what is owed |
| `CabTable` | what throttles and wired clients share | (data module) |
| `WiThrottle`, `Z21Throttle` (with `CircularBuffer`) | the two network protocols | (operators on `st`) |
| `SerialLine` (with `SProg`), `CanMarklin`, `XPressNet` | the wired clients | (operators on `st`) |
| `Throttles` | all of these together, the list of wired clients (`EXComm`), with the main loop and the users | `st inputs` |
| `Exrail` | tasks, opcodes, events, blink tasks, user commands | `prog x input sensor zoneFreed commands` |
| `Hal` | `IODevice.cpp`, the drivers `IO_*.h`, the Wire manager | (operators on `d`) |
| `Sensors`, `Turnouts` | sensors and groups; outputs, turnouts, turntables, LCN | (operators on `d`) |
| `Devices` | these together, with commands, loops and failing hardware | `d layout left` |
| `Dashboard` | events of the display, list of trains, DC cab | (operators on `B`) |
| `Menus` | menus, dialogs and modes | (operators on `B`) |
| `Box` | the box in use: presses, inputs, passes, restarts | `plan B left booting` |
| `DataLemmas` | lemmas: natural numbers and recursion, sequences | |
| `MainTrackProofs`, `RMTChannelProofs`, `DistrictsProofs`, `OverloadProofs`, `ProgrammingProofs`, `LocoProofs`, `ExrailProofs` | theorems | |
| `MC...` | layouts, plans and values of constants for TLC | |

How they compose: `MainTrack` and `DCCLoco` use `DCCQueue`; `LocoTable` uses
`LocoSlot`, and `DCCLoco` extends it with driving: its commands that change lists and
consists are those of `LocoTable`; `Districts` and `Programming` use `TrackManager`;
`Throttles`, `Devices` and `Box` are compositions of operator modules on one
record. `RMTChannel` refines `PacketFeed`.

Points worth knowing when reading them against the code:

- **Queue.** A slot's union of `locoId`, `delayOff` and `startTime` is one
  number, `locoId` its low half (`% W16`). A packet is its address, kind and value.
- **Transmitter.** `data` is `Torn` while it is being rewritten. The busy waits
  are guards. Byte and counter widths are the constants `W8` and `W32`.
- **Driving.** A follower's speed is set by its lead's throttle and reminders.
  Reminders run with momentum off. One function group stands for five: the loop
  has two states per group.
- **Consists.** `LocoSlot` keeps the chains of slots. `Districts` keeps only who
  follows whom, since a DC track is not told of a consist's order.
- **Tracks.** Setting up with two tracks gives MAIN and PROG. A change of mode
  is one operator, `Retrack`, that includes the revocation of PROG from other
  tracks, the clearing of DC, the brake, the join flags and the power-off.
- **Overload.** The times of `MotorDriver.h` are scaled so that their order is
  kept; a timestamp is kept as its age, up to the horizon where it stops to matter.
- **Programming.** `resets` takes the values the code tests for. The decoder and
  the current sensor are external: a packet may be missed, an answer may not be
  seen. `case` remembers what an operation started from. Other users' commands
  may come wherever `DCCACK::loop` returns. A request that is refused has already
  replaced the driver and the flags of an operation that runs; when that next uses
  the null driver, the box stops (`crashed`).
- **Network.** A payload is a number of bytes that are the tag of the message;
  the ring is the real one, byte by byte, with its overflow.
- **Throttles.** A Z21 datagram is its bytes, in the real circular buffer. What
  a throttle has been told of a loco is kept beside what the table has. The
  wired clients are each run in a configuration of their own.
- **EXRAIL.** A program is a sequence of instructions with the names of the
  opcodes; `prog` is chosen from the layouts. One step is one instruction or one
  command, as in the code. A delay ends by an action of its own (`Expire`).
- **Devices.** Output and input ports keep their shadow registers; a failing bus
  address fails every transfer until it comes back.
- **Box.** `plan` says which box it is and what its users do. A pass of the loop
  handles one event and the buttons, as the code does; a restart keeps what the
  EEPROM keeps.

## 3. Runs

A property of a run is a conjunction of parts, each stated and commented in the
module; the table names the parts. Every property has a mutant of a mapped
definition under which the same run reports it. `CHECK_DEADLOCK FALSE` is used
where the bounded inputs may be used up and nothing is left to do.

| Run | Question | Properties (parts) |
|---|---|---|
| `queue` | do replacements, purges, skips and jumps lose or reorder what matters? | `SlotsSound` (types, `NoSlotLeak`), `OutcomeRight` (`NewestSpeedWins`, `NewestFunctionWins`, `NewestSignalWins`, `CoilOffOwed`), `Separated`, `QueuesServe` (`CoilReleased`, `QueuesDrained`) |
| `transmitter` | can the interrupt break the hand-over? | `NeverTorn`, `JobSent` (`NoLostData`, `SentInFull`, `RailsCarryJob`), `ImplementsFeed` (refinement), `Returns` |
| `loco_table` | do lists and consists stay sound? | `TableSound` (`ListsSound`, `ConsistsSound`, `NullOnlyWhenFull`), `NoConsistStolen` |
| `driving` | does the reminder loop keep its promises over lossy rails? | `RemindersSound` (`NoStalePointer`), `StopsHold` (`LockStopsAll`, `ForgottenIsStopped`), `RemindersConverge` |
| `districts` | do tracks keep the rules under all commands? | `TracksAgree` (`OneProg`, `UnusedIsDead`, `JoinRemembered`), `NoSideEffects`, `DCFollowsThrottle` |
| `programming` | are results true, tracks restored, does it end? | `AnsweredOnce`, `AnswersTrue` (`AnswersTruthful`, `AnswersRight`), `TracksGivenBack` (`TracksRestored`, `PowerHeldAfterWrite`, `OffBeforeRejoin`), `ManagerFrees` |
| `overload` | is a bad track cut in time and a good one brought back? | `Protects` (`CutInTime`), `Retries` (`BacksOff`, `AlertEndsThrottling`), `Recovers` |
| `network` | do replies leave whole, to the right client? | `RingRight` (`RingIsQueue`), `NothingLeft` (`NothingOpen`, `FreeSlotIsClean`), `RingDrains` |
| `throttles` | do throttles agree with the table and the protocols stay in step? | `ThrottlesAgree` (types, `ViewsAgree`), `InStep` (buffers; `SProgAnswers`, `AcksRight`, `RoundRight`, `LineRight`), `DeadMansHandle` (`TimeoutStops`, `SilentEnds`) |
| `exrail` | are sections exclusive, locos attended, tasks served? | `TasksSound` (types, `NoTwins`), `SectionExclusive`, `NoRunaway`, `EveryTaskMoves` |
| `devices` | do kept, told and driven states agree? is a glitch filtered? | `DevicesSound`, `NoGlitch`, `HardwareFollows` (`OutputsShow`, `TurnoutsStand`, `TablesKnown`), `SensorsSettle` |
| `box` | does the box show what is, and come to rest? | `BoxSound` (`Shape`, `TrainsSound`, `ModesSound`, `WaitsSound`), `ShowsTruth`, `BoxRests` |

### Bounds, and why they are enough

- `queue`: three commands, two locos, a coil, a signal head with two aspects, two
  fast-clock times, one function group, valid and refused forms of each; the
  clock wraps at 128. Two locos and a third address class show every replace,
  skip and purge, since a slot is compared with one loco at a time; an accessory
  form, an aspect, a time and a clock rate that are refused; three
  commands allow a queued packet, its replacement and a later one or a stop.
- `transmitter`: two packets, repeat counts 0 to 2, byte of 4 and counter of 8
  values; no bound on length. The proofs remove the bounds.
- `loco_table`: four locos, three slots, lists of up to three, no bound on length.
  Three slots hold a consist with a middle member; the fourth loco finds the table
  full, also in the middle of a consist command.
- `driving`: two locos, three commands, any number of passes and losses; lists of a
  consist command of up to two locos, reversed leads and followers included.
- `districts`: two tracks, no bound on length. A change of mode involves the track
  and at most one other that loses PROG. Two usages: one cab with all modes and a
  modifier, and two cabs, alone and as consists of either, on DC tracks.
- `programming`: four decoders (short and long addresses, missing CVs, no
  acknowledgement of writes, the forms of a consist address), 18 tasks and a
  second client, one fault and one retry: a fault leads to a retry of the whole
  program, so both outcomes are reached. Long programs (`MaxMissed`,
  `MaxOvertaken`) run without faults to bound the state space.
- `overload`: one driver, times scaled to units; the other drivers act through
  the shared pin and the global start of an overload only, and are part of the
  environment.
- `network`: three connections for two client slots so that a slot is reused,
  a ring of 11 bytes so that two short messages fit and a third overflows, two
  messages in flight, one teardown.
- `throttles`: two locos, two WiThrottle sessions, two Z21 peers, a buffer of 12
  bytes so that one message and a half wrap, three inputs; a round of two
  XpressNet devices with one heard again, two acknowledgements in the queue,
  lines of six characters.
- `exrail`: nine layouts of two or three tasks, each for one group of features
  (trains, scenery, control, reading, pause, waits, blocks, aspects, the LCC
  adapter), three task addresses of which freed ones are reused, two locos, one or two user commands.
- `devices`: seven layouts, each with the two to four commands that concern it,
  at most three changes of inputs and two faults; one retry of a transfer, and
  one scan to debounce: the code counts down from a larger number through the
  same states.
- `box`: eight plans (driving, the lists, programming, restarting, normal
  station, programming only, DC with its menus, DC with two cabs whose levels
  change), four to six inputs, three trains of which one
  is in view, and CVs of two values. Presses are sequences that lead through
  the menus, with events between any two of them.

### What the properties leave out

They are weakened where the code is known to do otherwise (section 5), each
exception being named in the definition: `AnswersTruthful` excludes what the
programs that read an address cannot know; `DCFollowsThrottle` excludes a loco
whose speed changed while it follows a lead, is locked or is forgotten (`astray`),
until it gets a speed of its own; `TableSound` asks for sound consists until a null
slot is used, and that one is used only when the table is full; `TracksGivenBack`
is asked of operations nobody disturbs; `ManagerFrees` accepts that the box stops,
but only for an operation that another request disturbed; `RingRight`,
`NothingLeft` and `RingDrains` hold as long as every message fitted, and
`FreeSlotIsClean` does not count late replies; `EveryTaskMoves` excludes a walk
round the ring that never ends, a read whose operation another request replaced,
and tasks that a pausing task leaves paused when it is killed; `HardwareFollows` is
asked of layouts without faults; `ShowsTruth` asks of what is sure (`B.sure`): a
lost event, one without power, an order out of view without a speed, the stop of
all, and a change in DC mode that is taken for a repeat of another cab's take that
away from a train until its next speed is told; `BoxRests` excludes a job that was
taken over. The queue's constants keep the times of coil-offs apart from loco
addresses. The exceptions that are defects are in section 5, and the hazards in
`PROJECT.json` that no property covers say why.

### Fairness

- The RMT peripheral loops over its memory without end, so its interrupt keeps
  firing; the main loop does not stop inside `schedulePacket`: weak fairness of
  both.
- The main loop calls its parts for ever and time passes: weak fairness of
  `Transmit` and `Tick`, of the reminder loop, the ACK manager's loop with its
  physics, the overload check, EXRAIL's loop and expiring delays, a pass and the
  setup of the network, the loops of the throttles, the HAL's loop, the sensor
  scan and its timers, the box's passes, answers and restarts.
- A decoder that is sent a kind of packet again and again receives it again and
  again (strong fairness per loco and kind in `DSpec`): without it no repetition
  of reminders helps. `DSpec` writes the enabling conditions out, because they
  are cheap to state and expensive to evaluate.
- Nothing is assumed of users, clients, inputs or failing hardware: they need
  never come, nor come back.

## 4. Proofs

TLAPS checks these for all values of the constants, under the ASSUMEs of the
modules (sizes are natural numbers, repeat counts fit a byte, there is at least
one track, cabs are not 0, loco addresses are not 0 and fit 16 bits, an
accessory is pulsed by all its users or by none; EXRAIL programs end with
ENDEXRAIL, as the macros make them, and use their sections as described below).

- `MainTrackProofs`: any number of locos,
  accessories, commands and repeats, queues of any length.
  - `SlotsSoundAlways`, `SeparatedAlways`, `NewestWinsAlways` follow from the
    inductive invariant `Sound`. It says what a slot of each type can hold
    (`LowRight`, `HighRight`): without that a packet that replaces another could
    be one for somebody else. It says that no function group of a loco has two
    slots, as otherwise the replaced one may not be the newest; and that `last` is
    the loco that heard the last packet, unless that was a stop. The rule that
    skips a slot (`Sendable`) may only reorder packets to different decoders:
    `SkippedAlike` is the lemma that slots before the chosen one with a packet to
    the same decoder would have been chosen instead.
  - `OutcomeRightAlways` (speeds and coils) needs a second invariant, `InOrder`:
    stops are ahead of speeds and each loco has one speed. It is inductive only
    as long as no coil-off slot, whose union holds a time, reads as a packet to a
    loco. The theorem has this as its hypothesis, `[]NoCollision`, because the
    code does not ensure it (section 5): with a collision the property is false.
  - What a queue amounts to is `Outcome`, the last packet for a decoder. The
    lemmas say how it changes when a slot is appended, put in front, replaced or
    removed, and that a purge keeps the rest in order (`Embeds`).
- `OverloadProofs`: `ProtectsAlways` and `RetriesAlways`, for any times that are
  ordered as those of `MotorDriver.h`. The invariant `Guarded` accounts for the
  time a track has been bad by the state of the check, and for the wait by the
  retries; `CutInTime` is not inductive, because a check that is late, a good
  spell and a retry each start the count at a different point.
- `DataLemmas`: what these need about data. The library states induction
  with an operator as parameter, which the provers here cannot instantiate; for a
  set it is proved from the well-foundedness of `<` (`SetInduction`), and from it
  that a recursive function satisfies its equations (`RecursionExists`, `WalkExists`), that
  `Min` and `Max` are what they say, and what `RemoveAt` leaves.
- `RMTChannelProofs`: `TypeCorrect`, `RailsNeverTorn`, `EveryPacketSentInFull`,
  `DataNeverLost`, `JobAlwaysSent`, and `Refinement` (the safety part of
  `PacketFeed`). None of the properties is inductive alone. The strengthening
  relates the main loop's position to the flags: from the second test to the
  publication both flags are clear, so that the interrupt cannot copy the buffer
  while it is `Torn`; when data is ready, the buffer holds the job and none of
  its transmissions has started.
- `LocoProofs`, part 1, the table: any size of the table, any locos, lists of any length.
  - The operators take tables to tables, so the invariant is one of tables,
    `Sound(T)`: no object is on both lists or twice on one, no loco has two slots,
    and the links are right. The links are described locally: a follower's lead is
    live and leads, and somebody is before the follower; who is next is a live
    follower of the same lead; nobody is next to two; positions that grow along
    `consistNext` exist. What the properties say of whole consists follows from
    this: `MembersGroup` says that the walk from a lead ends and visits the lead and
    its followers, each once. It needs the positions, as otherwise a consist could
    be a circle that no lead reaches, and the pigeonhole principle.
  - One lemma per operator: `GetSlotSound`, `ForgetSound` (needs that the slot is in
    no consist), `DeleteSound`, `JoinSound` (one slot behind the last of a consist,
    used for both ways of building), `LinkAllBuilds` (the loop of the consist
    command, by induction on its steps).
  - `ListsSoundAlways` holds without conditions, also when there are more locos than
    slots. `ConsistsSoundAlways` holds until a null slot is used (section 5).
    `TableSoundAlways` puts them together and adds that this happens only when all slots
    are in use (`NullOnlyWhenFull`): no other way leads to a null slot. It has no
    hypothesis about the number of locos.
  - `NoConsistStolenAlways`: a consist command first breaks the consist of its first
    loco, whose followers may come back in the new one, but then behind the same lead.
- `LocoProofs`, part 2, driving, on the lemmas of part 1: any number of locos, slots,
  function groups and commands, any orders, queues of any length. `RemindersSoundAlways`
  and `StopsHoldAlways` follow from the inductive invariant `DInv`, and
  `DrivenTableSound` is `TableSound`, full tables included, for the table that is driven.
  - `StopsHold` is not inductive: it does not say where packets come from. `DInv` says which
    speed packets may be in the high priority queue, `Driven`: stops to anyone and,
    while the lock is off, speeds for locos in the table. That is kept only if an emergency
    stop removes all that drives its loco, which it finds by the slot's union: so a
    packet must be in a slot with its loco's number, unless it stops (`HighSlots`).
  - One lemma per way to queue (`DrivingQueued`, `LocoStopped`, `AllStopped`): a speed
    needs a live loco; a stop for one loco takes it out of `Driven`, so it may be
    forgotten; one for all leaves only stops, so the lock may be set and the table emptied.
  - The pointer of the reminders is live unless `chainModified` is set. Forgetting a slot
    moves it on before the slot leaves the list; every other way to lose a slot sets the flag.
  - What a throttle or a reminder does to a consist changes no link (`Alike`), member
    by member of a walk whose length is not bounded; new slots and changed ones keep the
    table sound (`Grows`).
  - No assumption says that there are slots for all locos. The theorems go as far as
    the model: up to the use of a null slot, after which nothing is said.
- `ExrailProofs`: any number of tasks, sections and instructions, calls nested to any
  depth. `SectionExclusiveAlways` and `RingAlways` (a task is in the ring once) follow
  from the inductive invariant `Sound`.
  - Which programs keep their sections exclusive is a question of the layout, so
    `Guarded` says what the run's layouts have in common: no task starts in a section,
    returns into it or skips into it; the instruction before it is a RESERVE or IFRESERVE
    of it (or never goes on to the next); a FREE of it is its last instruction, and
    FREEALL is not used. `ProgramsAssumption` has this for all the sections in `zones`, and
    TLC evaluates it on the layouts of the run. What a task does inside a section, and
    all the rest of a program, is arbitrary.
  - `SectionExclusive` is not inductive: a task may be sent into a section from outside
    the program. `Sound` says that the returns on every stack and the starts the LCC
    adapter was told lie outside the sections, and that who is in a section not only is
    alone but holds it, as otherwise the next RESERVE would let another in.
  - Most of what a step does is `Calm`: it makes tasks outside the sections and kills
    blink tasks. `CalmTrans` chains such changes, so that events with any number
    of handlers, rows of pins and the start of the program go by induction on their length
    (`HandleEventCalm`, `WrittenCalm`, `AllRedCalm`, `AutostartedCalm`). A kill is `Gone`
    (`KillEachGone` for walks that kill), and an instruction that moves its task is
    `MovedSound`; `ReserveSound` and `FreeSound` are the two that enter and leave.
  - A blink task stands on the instruction that made it, perhaps in a section, and counts
    as nowhere: it never executes the program.
- `DistrictsProofs`: `OneProgTrackOnly`, `UnusedTracksStayDead`,
  `ModesLeaveNothingBehind`, `JoinIsRemembered`, `TracksAlwaysAgree`,
  `TypeCorrect`, `FollowsAlways`. `Sound(r)` is the conjunction of these on a track record; one
  lemma per operator of `TrackManager` shows that it is preserved, and the
  actions compose operators. They have to be proved together: an unjoin makes
  the remembered track PROG again, which is safe only because the remembered
  track exists whenever the flag is set. `FollowsAlways` (`DCFollowsThrottle`)
  needs more (`FollowInv`): a cab without a slot stands still and follows nobody, so that
  a track that gets it starts right, and a DC track has a brake pin, as otherwise its
  signal would stay what it was. It is proved for consists of any size: a throttle or a
  reminder of a lead brings the lead's tracks along and adds to `astray` exactly the
  followers whose speed it changed (`Drive`).
- `ProgrammingProofs`: `CallbackOwedOnce`. A request is accepted only from a
  client that is not waiting, and only the READY state answers, ending the
  program in the same step.

Only model-checked: liveness under fairness (out of the prover's reach), and so
far everything about the network, the throttles, the devices and the box, and the
results of programming; of EXRAIL `TasksSound` and `NoRunaway`, except for the ring. Of
driving that is `RemindersConverge`, which is liveness.

## 5. Where code and documentation disagree

Met while modelling. The models do what the code does.

Queue and transmitter
- The header promises that packets in a row never go to one loco
  (`DCCQueue.cpp:26`); a stop, queued for loco 0, may follow or precede a speed
  packet of the same loco. For the same reason a new stop does not remove
  earlier ones (`DCCQueue.cpp:137`), and slots grow with the stops.
- A speed packet for a loco whose address equals the low 16 bits of a waiting
  coil-off's start time overwrites the coil-off, and the coil stays on
  (`DCCQueue.cpp:89`, the union of `DCCQueue.h:37`). The constants of the run
  keep addresses and times apart.
- `DCCWaveformRMT.cpp:87` says the reset count will be zero for the repeats to
  come; packets that pass between `clearResets` and the hand-over count early.
- Raw packets (`<M>`, `<P>`) bypass the queues.
- A fast-clock time that `DCC::setTime` refuses is remembered as the last one.

Locos
- A consist command on a full table writes through a null slot
  (`DCCConsist.cpp:52`), although `DCC.cpp:120` tests for it. The run has a table that
  fills, and `NullOnlyWhenFull` bounds what goes wrong.
- `Release_Notes/consists.md` says locos are stopped while a consist is built or
  dissolved; the code does not stop them.
- `<t 0 0 d>` is refused and `<t 0 -1 d>` stops everything.

Tracks
- `<=t PROG>` on the joined track leaves the join flag set (`TrackManager.cpp:376`
  against `TrackManager.h:106`).
- Power or assignment of a DC track sets a loco moving while the emergency stop
  is locked (`TrackManager.cpp:395` against `DCC.cpp:1373`); after the lock a DC
  loco at its target speed is not set moving again (`DCC.cpp:1378`). Forgetting
  a loco leaves its DC track at its last speed (`DCC.cpp:1151`).
- A DC track whose cab follows in a consist does not follow the consist: the
  follower's own throttle is ignored (`DCC.cpp:123`), the lead's sets the follower's
  target and speed code (`DCC.cpp:130`, `179`), but only the lead's tracks get a DC
  signal (`DCC.cpp:141`). `Districts.astray` is the set of locos this leaves behind.
- A boosted programming track stays boosted after `<0>` (`DCCEXParser.cpp:693`);
  `<=t INV>` and `<=t AUTO>` drop the cab of a DC track, and use the driver of a
  track that need not exist (`TrackManager.cpp:444`).
- Overload: the wait is said to be reset by a poweroff (`MotorDriver.cpp:541`),
  which holds only if a check happens while the track is off; off and on during
  ALERT leaves the inrush throttling on; drivers on a common fault pin that
  restart `globalOverloadStart` may put a retry off again and again.

Programming
- A request of a second client replaces the callback of the first
  (`DCCACK.cpp:120`), which is never answered; its join and its automatic
  power-off are lost. `<W>` with a wrong number of parameters
  (`DCCEXParser.cpp:573`) and a write of a CV of the box itself (`DCC.cpp:987`)
  have the same effect on the client. The model has all three cases; "every
  client that is waiting is answered" is false in it.
- A request refused with -2 or -3 while an operation runs has by then replaced
  that operation's `ackManagerRejoin` and `progDriver` (`DCCACK.cpp:73` to `81`). If it
  was -3 the driver is null, and the operation goes on and dereferences it
  (`DCCACK.cpp:175`, `471`): it takes another user who gives the programming track
  another mode before the request comes. The model has it: `ManagerFrees` without
  its exception is false.
- Requests with a bit number above 7 return with RailCom paused. A missed answer
  to the test of bit 5 of CV 29 gives a wrong address with no error.

Network and throttles
- After an overflow the ring keeps its client mark, so that the next broadcast
  commits again and may overwrite unread bytes (against the comment at
  `CommandDistributor.cpp:171`). Late replies go to whoever holds the slot;
  `clientId <= clients.size()` is off by one, reachable after a teardown; the
  virtual display of a web socket is never forgotten.
- A forgotten loco is put back in the table by the Z21 notification of the
  forgetting (`DCC.cpp:1148` says it is forgotten); WiThrottles are not marked
  then, nor for the followers of a consist.
- WiThrottle: the loop goes on from a deleted session, and the answer of a loco
  read is written to one (`WiThrottle.cpp:399`, `507`); the model counts such
  strays instead of giving them an effect.
- Z21: a log-off sets the client number to -1, and a later pass makes a throttle
  for it that never expires; a reused slot inherits the throttle and the unread
  bytes of its predecessor; a new client switches the main power on; silence
  does not stop a Z21's locos; an eleventh loco is refused without a word.
- SPROG: escape is taken as the end of a line (`SProg.cpp:221`), so "ESC -
  immediately shutdown power to track" (`SProg.cpp:37`) never happens; `<` and
  `>` set an absolute speed; it waits for ever when there is no programming
  track, when another client takes the manager over, or for the box's CVs.
- XpressNet: the table of directed operations gives device 19 the call byte 143
  for 243; a forward emergency stop is not recognised; one memory of function
  states and of accessories serves all addresses; a failed read and the result
  of a write are never answered.
- CAN: an acknowledgement sets bit 17 while the decoder looks at bit 16, so that
  the acknowledgement of a speed reads as a direction command; the stop of one
  loco is unreachable; a full queue of acknowledgements drops silently.
- Serial: a `<` inside an unfinished command belongs to its body.

EXRAIL
- `killBlinkOnVpin` kills the task it has to come back to, so that its walk
  never ends, though `EXRAIL2.cpp:1595` says "stop when we get back to here":
  two blink tasks and a reset of their pins are enough. The model marks such a
  walk (`x.hung`) and takes no further step of automation.
- `PAUSE` does not record speeds, so that `RESUME` gives locos a stale speed
  (`EXRAIL2.cpp:73` says "stopped, then resumed"); `</ PAUSE>` twice loses them;
  a pausing task that is killed leaves all others paused.
- A task that reads a loco waits for ever when another request replaces its operation:
  nothing tests that the manager is free (`EXRAIL2.cpp:1101`, `DCC.cpp:1034`,
  `DCCACK.cpp:69`), and only its own callback ends the wait.
- `EXRAIL2.cpp:624` tests for -1 as the speed of a loco that is not in the table, but
  `DCC::getThrottleSpeed` returns 0 for one (`DCC.cpp:250`).
- A task that is killed leaves its reservations. An unknown opcode goes on
  as SKIP on a deleted task; `IFSTASHED_HERE` never matches an inverted loco;
  `IFALL` with a negative pin always skips; an aspect that no signal defines goes
  out unrecorded.
- An LCC event that arrives before the adapter has introduced itself starts the
  program at its first instruction; an adapter that restarts while it is being
  told what to send and to wait for is told the rest only.

Devices
- Deleting a turnout treats any type as a servo; creating a servo turnout again
  moves the servo but keeps the old state; new DCC and pin turnouts drive
  nothing. Clients keep the state of a deleted id, and setting the new one to it
  is not announced. A turnout is announced as closed even when its device is
  offline. LCN requests for other turnouts change only the state.
- `Turntable::setMoving` has no caller, so that the test at `Turntables.cpp:144` never
  refuses and a task that waits for a turntable never waits (`EXRAIL2.cpp:1211`).
- A sensor made on a notifying pin that is in use waits for the next change; of
  two sensors on a pin only the first is notified; reading an output pin makes
  it an input; an expander that stops answering in its scan stays online with
  stale inputs; the Wire manager's read does not reset its count between
  retries; an ADS111x is not revived by a reset.

Box
- A train new in the list takes over the speed and functions of the record it
  replaces, and a function order moves a train to the head with the speed of the
  one that was there (against "places the last piloted train at the top").
  `estopAll` tells the display nothing; a full buffer loses events; the tenth
  message is stored and reported lost.
- Dialogs wait for ever in Reading or Writing when there is no programming
  track, when another client takes the manager over, or when a CV of the box is
  written. The throttle moves the CV address while it is being read, so that the
  value shown belongs to another.
- Power that a client switches off while the box programs comes back on. In DC
  mode the display follows any cab though the comment says "Only applicable for the
  DC cab" (`HmiInterface.cpp:68`), and all cabs share one memory of the last change
  (`HmiInterface.cpp:69` to `74`), so that a change that repeats what another cab was
  told is not told: drive 9 at 1, 3 at 0, 9 at 0, and 9 stays shown at 1; the
  teardown of the mode does not stop the train; after power off and on it goes
  forward whatever the throttle says.
- Latched presses act in the next menu: a double click kept from a dialog
  reverses the DC train when the view of the train opens. WiFi events set the
  box "off" whatever the tracks have. Short circuits have no producer and are
  never shown.

## 6. Not modelled

- Text: parsing of characters into parameters (except where brackets, lengths
  and buffers matter), formatting, drawing, logging.
- The bit timing of DCC and of the buses, the shape of the ACK pulse, the
  decoding of RailCom, PWM frequencies, peripherals and their registers.
- The arithmetic of momentum and of the fast clock.
- EEPROM storage of turnouts, sensors and outputs (compiled out); code for other
  processors (`WifiInterface`, `WifiInboundHandler`, `DCCWaveform.cpp`, the
  non-blocking I2C queue); vendored libraries; sound, displays
  on the I2C bus and the other drivers that are not in this build's list
  (`IODeviceList.h`).
- Joining a WiFi network and mDNS; the web socket hash.
- The dereference of a deleted object: counted, given no effect.
- Clock wrap-around, except where a width constant says so.

`PROJECT.json` says per component which operations are left out.

## 7. Plan

What is left is to prove more, in this order:

1. `Exrail`: `NoRunaway`, from the invariant that a loco that moves is that of a task.
2. `RingStream`: mark, write, commit and read of a ring as a queue of messages,
   and of the buffer of `Z21Throttle` as a queue of bytes.

To model next: the arithmetic of `normalize` and `dccalize` and the 16 bit delay
of momentum against a reference; the POM writes of Z21; the non-blocking I2C
queue for builds that have it.
