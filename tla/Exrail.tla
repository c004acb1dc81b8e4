------------------------------- MODULE Exrail -------------------------------
(***************************************************************************)
(* The automation tasks of EXRAIL (EXRAIL2.cpp): a ring of tasks of which  *)
(* RMFT2::loop serves one per pass, each running one instruction of the    *)
(* layout's program; reservations, latches, signals, event handlers, blink *)
(* tasks, pausing, and the commands by which users interfere               *)
(* (EXRAIL2Parser.cpp).                                                    *)
(*                                                                         *)
(* The statics of RMFT2 and what its tasks act on are one record x:        *)
(*   ring      addresses of the tasks, loopTask first, then its next, ...  *)
(*   task      address -> the members of the task there                    *)
(*   pausing   pausingTask: an address, Nobody or Parser                   *)
(*   reserved, latched, ids   flags[] as the sets of ids with SECTION_FLAG,*)
(*             LATCH_FLAG and TASK_FLAG; signal holds the SIGNAL_MASK bits *)
(*   progtrackLocoId, reading (the operation the ACK manager runs will     *)
(*   call readLocoCallback), stash, speed and saved (loco table), closed   *)
(*   (turnouts), pin, power, shown (routeStateArray)                       *)
(*   lcc       how far the LCC adapter has been told what to send and wait *)
(*             for (pc, index), and where the handlers start (lookup)      *)
(*   hung      a walk round the ring never ends                            *)
(* An address is free when it is not in the ring, and is used again. Time  *)
(* is abstract: a delay ends at some time.                                 *)
(***************************************************************************)
EXTENDS Integers, FiniteSets, Eager

CONSTANTS
    Programs,      \* the layouts: records of code, a sequence of [op, n, m];
                   \* lamps, the three pins of each signal, or its aspects if
                   \* it is one of dccx; zones, for a
                   \* section the instructions that need it; maxCommands, the
                   \* bound on the commands of users
    Addr,          \* addresses of tasks, a set of positive numbers
    Locos, Sections, Signals, Turnouts, Pins,
    MinReadCount,  \* EXRAILSensor's debounce
    MAX_STACK_DEPTH

Nobody == 0        \* no task, a null pointer
Parser == -1       \* pausingTask after </ PAUSE>: the impossible address
NoEvent == 0       \* onEventStartPosition of a task that is not a handler
WAITING == -99     \* LOCO_ID_WAITING
Garbage == 200     \* a speed byte that was never written

VARIABLES
    prog,      \* the program in flash
    x,         \* the statics of RMFT2, see above
    input,     \* vpin -> BOOLEAN, what IODevice::read returns
    sensor,    \* the EXRAILSensors by pin: active state and latchDelay
    zoneFreed, \* sections a user freed by force
    commands   \* the number of user commands so far

vars == <<prog, x, input, sensor, zoneFreed, commands>>

Live(a) == \E i \in 1 .. Len(x.ring) : x.ring[i] = a
Instr(y, a) == prog.code[y.task[a].pc]
Op(y, a) == Instr(y, a).op

-----------------------------------------------------------------------------
\* Locos, as far as the tasks see them.

setThrottle(y, l, v, fwd) ==
    IF l = 0 THEN y ELSE [y EXCEPT !.speed[l] = [v |-> v, fwd |-> fwd]]
Direction(y, l) == y.speed[l].fwd
Stop(y, l, v) == IF l = 0 THEN y ELSE setThrottle(y, l, v, Direction(y, l))
estopAll(y) == [y EXCEPT !.speed = [l \in Locos |-> [y.speed[l] EXCEPT !.v = 1]]]

-----------------------------------------------------------------------------
\* Tasks and the ring.

Fresh(y) == {a \in Addr : a \notin Range(y.ring)}
Unnumbered(y) == {i \in Addr : i \notin y.ids}
CanStart(y) == Fresh(y) # {}
Least(S) == CHOOSE i \in S : \A j \in S : i <= j

\* The constructor: the first free id, a place after loopTask. pauseSpeed is not
\* initialised. The heap gives a block that is free. (Addr bounds the tasks: beyond
\* it none is made.)
newTask(y, pc, loco, invert, on) ==
    IF ~CanStart(y) THEN y ELSE
    LET a == Least(Fresh(y))
        id == Least(Unnumbered(y))
    IN [y EXCEPT
          !.task[a] = [pc |-> pc, id |-> id, loco |-> loco, invert |-> invert,
                       delayed |-> FALSE, blink |-> "not_blink_task", blinkPin |-> 0,
                       on |-> on, stack |-> <<>>, pauseSpeed |-> [v |-> Garbage, fwd |-> TRUE]],
          !.ids = @ \cup {id},
          !.ring = IF @ = <<>> THEN <<a>> ELSE <<Head(@), a>> \o Tail(@)]

\* Faulty variant: the loco of a task that is killed runs on.
killRunning(y, a) ==
    LET i == CHOOSE j \in 1 .. Len(y.ring) : y.ring[j] = a
    IN [y EXCEPT !.ids = @ \ {y.task[a].id},
                 !.ring = SubSeq(@, i + 1, Len(@)) \o SubSeq(@, 1, i - 1)]

\* The destructor: the loco stops unless the task is an event handler, and
\* loopTask becomes the task that followed.
kill(y, a) ==
    LET i == CHOOSE j \in 1 .. Len(y.ring) : y.ring[j] = a
        z == IF y.task[a].on = NoEvent THEN Stop(y, y.task[a].loco, 1) ELSE y
    IN [z EXCEPT !.ids = @ \ {y.task[a].id},
                 !.ring = SubSeq(@, i + 1, Len(@)) \o SubSeq(@, 1, i - 1)]

\* A walk round the ring that kills the tasks of S.
killEach(y, S) ==
    LET walk[k \in 0 .. Len(y.ring)] ==
            IF k = 0 THEN y
            ELSE IF y.ring[k] \in S THEN With(walk[k - 1], LAMBDA z : kill(z, y.ring[k]))
            ELSE walk[k - 1]
    IN walk[Len(y.ring)]

KillAll(y) == killEach(y, Range(y.ring))

Blinking(y, a) == y.task[a].blink \in {"blink_low", "blink_high"}

\* killBlinkOnVpin walks the ring from loopTask until it is back there. When it
\* deletes the task it started from, and there are others, it never is.
killBlinkOnVpin(y, p) ==
    LET hits == {a \in Addr : Blinking(y, a) /\ y.task[a].blinkPin = p}
    IN IF y.ring = <<>> THEN y
       ELSE [killEach(y, hits) EXCEPT
               !.hung = @ \/ (Head(y.ring) \in hits /\ Len(y.ring) > 1)]

\* Faulty variant: a handler that is running is started again.
startRecursiveTask(y, pc, loco) ==
    newTask(y, pc, loco, FALSE, pc)

startNonRecursiveTask(y, pc, loco) ==
    IF \E a \in Range(y.ring) : y.task[a].on = pc /\ y.task[a].loco = loco
    THEN y ELSE newTask(y, pc, loco, FALSE, pc)

\* LookListLoader: where the opcode stands with this operand.
LookList(ops, id) == {pc \in DOMAIN prog.code : prog.code[pc].op \in ops /\ prog.code[pc].n = id}

\* routeLookup->find: routes and automations, then the chained sequences; 0 if unknown.
find(id) ==
    LET routes == LookList({"ROUTE", "AUTOMATION"}, id)
        sequences == LookList({"SEQUENCE"}, id)
    IN IF routes # {} THEN Least(routes) ELSE IF sequences # {} THEN Least(sequences) ELSE 0

\* LookList::handleEvent: every handler of the event, in the order of the code.
handleEvent(y, kind, id, loco) ==
    LET handlers == LookList({kind}, id)
        begun[pc \in 0 .. Len(prog.code)] ==
            IF pc = 0 THEN y
            ELSE IF pc \in handlers
                 THEN With(begun[pc - 1], LAMBDA z : startNonRecursiveTask(z, pc, loco))
            ELSE begun[pc - 1]
    IN begun[Len(prog.code)]

-----------------------------------------------------------------------------
\* What instructions act on.

\* Turnout::setClosed and the event it raises.
setClosed(y, n, closed) ==
    IF n \notin Turnouts THEN y
    ELSE handleEvent([y EXCEPT !.closed[n] = closed],
                     IF closed THEN "ONCLOSE" ELSE "ONTHROW", n, 0)

writePin(y, p, on) == [killBlinkOnVpin(y, p) EXCEPT !.pin[p] = on]

\* doSignal: the handlers, the flag, then the pins of a three-pin signal, each
\* freed from its blink task.
SignalPins(y, id, rag) ==
    LET Lamp(z, c) ==
            IF prog.lamps[id][c] = 0 THEN z ELSE writePin(z, prog.lamps[id][c], c = rag)
    IN Lamp(Lamp(Lamp(y, "RED"), "AMBER"), "GREEN")
doSignal(y, id, rag) ==
    LET handler == [RED |-> "ONRED", AMBER |-> "ONAMBER", GREEN |-> "ONGREEN"]
        z == handleEvent(y, handler[rag], id, 0)
        shown == [z EXCEPT !.signal[id] = rag]
    IN IF id \notin Signals THEN z
       ELSE IF id \in prog.dccx THEN shown ELSE SignalPins(shown, id, rag)

\* An aspect sent to a DCCX signal is a change of the signal, if it has that aspect.
signalAspectEvent(y, id, aspect) ==
    LET Shows(rag) == prog.lamps[id][rag] = aspect
    IN IF id \notin prog.dccx THEN y
       ELSE IF Shows("RED") THEN doSignal(y, id, "RED")
       ELSE IF Shows("AMBER") THEN doSignal(y, id, "AMBER")
       ELSE IF Shows("GREEN") THEN doSignal(y, id, "GREEN")
       ELSE y

\* readSensor: latched, or the pin, inverted when the operand is negative.
readSensor(y, n) ==
    LET p == IF n < 0 THEN -n ELSE n IN p \in y.latched \/ (input[p] # (n < 0))

\* SPEEDUP, SLOWDOWN and SPEED_REL avoid speed 1, which is an emergency stop.
SpeedUp(v, n) == IF v + n > 127 THEN 127 ELSE IF v + n = 1 THEN 2 ELSE v + n
SlowDown(v, n) == IF v - n < 2 THEN 0 ELSE v - n
SpeedRel(v, n) ==
    LET w == (v * n) \div 100 IN IF w > 127 THEN 127 ELSE IF w = 1 THEN 0 ELSE w

\* resume: each loco gets the pauseSpeed of its task, whatever was left there, and that of
\* the last one when there are several.
ResumeAll(y) ==
    LET Tasks(l) == {i \in DOMAIN y.ring : y.task[y.ring[i]].loco = l}
        Latest(l) == CHOOSE i \in Tasks(l) : \A j \in Tasks(l) : j <= i
    IN [y EXCEPT !.pausing = Nobody,
                 !.speed = [l \in Locos |-> IF Tasks(l) = {} THEN @[l]
                                            ELSE y.task[y.ring[Latest(l)]].pauseSpeed]]
\* pause: each task with a loco keeps its speed.
PauseAll(y) ==
    [y EXCEPT !.task = [a \in Addr |->
        IF a \in Range(y.ring) /\ @[a].loco # 0
        THEN [@[a] EXCEPT !.pauseSpeed = y.speed[y.task[a].loco]] ELSE @[a]]]

\* EXRAILSensor::check: a change that has lasted minReadCount checks starts a
\* task after the ONSENSOR, or after the ONBUTTON if the sensor went on.
Sensed(pc) == prog.code[pc].op \in {"ONSENSOR", "ONBUTTON"}
check(y, pc) ==
    LET p == prog.code[pc].n
        s == sensor[p]
        now == readSensor(y, p)
    IN IF now = s.active THEN [y |-> y, s |-> [s EXCEPT !.latchDelay = MinReadCount]]
       ELSE IF s.latchDelay > 0 THEN [y |-> y, s |-> [s EXCEPT !.latchDelay = @ - 1]]
       ELSE [y |-> IF now \/ prog.code[pc].op = "ONSENSOR"
                   THEN newTask(y, pc + 1, 0, FALSE, NoEvent) ELSE y,
             s |-> [active |-> now, latchDelay |-> MinReadCount]]

\* Lists of pins, negative ones inverted. A negative pin is read as the pin of that
\* number too, which no device has and so is off.
On(p) == p > 0 /\ input[p]
ifAnyFunc(pins) == \E p \in pins : On(p) \/ (p < 0 /\ ~input[-p])
ifAllFunc(pins) == \A p \in pins : On(p)

Stashed(y, n) == IF n \in DOMAIN y.stash THEN y.stash[n] ELSE 0

\* What the LCC adapter is to send; countLCCLookup counts what it is to wait for.
LccOps == {"LCC", "ACON", "ACOF", "LCCX"}
countLCCLookup == Cardinality({pc \in DOMAIN prog.code : prog.code[pc].op = "ONLCC"})

\* Every AUTOSTART becomes a task.
Autostarted(y) ==
    LET begun[pc \in 0 .. Len(prog.code)] ==
            IF pc = 0 THEN y
            ELSE IF prog.code[pc].op = "AUTOSTART"
                 THEN With(begun[pc - 1], LAMBDA z : newTask(z, pc, 0, FALSE, NoEvent))
            ELSE begun[pc - 1]
    IN begun[Len(prog.code)]

\* Every signal is set to red.
AllRed(y) ==
    LET ids == SetToSeq(Signals)
        set[k \in 0 .. Len(ids)] == 
            IF k = 0 THEN y ELSE With(set[k - 1], LAMBDA z : doSignal(z, ids[k], "RED"))
    IN set[Len(ids)]

\* begin: signals go red, sensors are read, turnouts are closed, and tasks start.
Init ==
    /\ prog \in Programs
    /\ input = [p \in Pins |-> FALSE]
    /\ sensor = [p \in Pins |-> [active |-> FALSE, latchDelay |-> MinReadCount]]
    /\ zoneFreed = {}
    /\ commands = 0
    /\ LET idle == [pc |-> 1, id |-> 0, loco |-> 0, invert |-> FALSE, delayed |-> FALSE,
                    blink |-> "not_blink_task", blinkPin |-> 0, on |-> NoEvent,
                    stack |-> <<>>, pauseSpeed |-> [v |-> Garbage, fwd |-> TRUE]]
           halted == [l \in Locos |-> [v |-> 0, fwd |-> TRUE]]
           blank == [ring |-> <<>>, task |-> [a \in Addr |-> idle], pausing |-> Nobody,
                     reserved |-> {}, latched |-> {}, ids |-> {},
                     signal |-> [s \in Signals |-> "RED"], speed |-> halted, saved |-> halted,
                     closed |-> [n \in Turnouts |-> TRUE], pin |-> [p \in Pins |-> FALSE],
                     stash |-> [n \in Sections |-> 0], power |-> TRUE,
                     shown |-> [n \in Sections |-> 0],
                     progtrackLocoId |-> 0, reading |-> FALSE, hung |-> FALSE,
                     lcc |-> [pc |-> 1, index |-> 0, lookup |-> [k \in 1 .. countLCCLookup |-> 1]]]
       IN x = Autostarted(AllRed(blank))

-----------------------------------------------------------------------------
(***************************************************************************)
(* loop2: what one instruction of task a does to y. Each group of opcodes  *)
(* is an operator that is true of the records y may become.                *)
(***************************************************************************)

SKIPOP(y, a) == [y EXCEPT !.task[a].pc = @ + 1]
Goto(y, a, pc) == IF pc = 0 THEN kill(y, a) ELSE [y EXCEPT !.task[a].pc = pc]
delayMe(y, a) == [y EXCEPT !.task[a].delayed = TRUE]

\* The loco of a task as the drive instructions see it; nothing without a loco.
Speed(y, a) ==
    IF y.task[a].loco = 0 THEN [v |-> 0, fwd |-> TRUE] ELSE y.speed[y.task[a].loco]
Set(y, a, v, fwd) == x' = SKIPOP(setThrottle(y, y.task[a].loco, v, fwd), a)

Drive(y, a) ==
    LET i == Instr(y, a)
        t == y.task[a]
        saved == IF t.loco = 0 THEN Speed(y, a) ELSE y.saved[t.loco]
    IN \/ i.op = "FWD" /\ Set(y, a, i.n, ~t.invert)
       \/ i.op = "REV" /\ Set(y, a, i.n, t.invert)
       \/ i.op = "SPEED" /\ Set(y, a, i.n, Speed(y, a).fwd)
       \/ i.op = "RESTORE_SPEED" /\ Set(y, a, saved.v, saved.fwd)
       \/ /\ i.op = "SAVE_SPEED"
          /\ x' = SKIPOP(IF t.loco = 0 THEN y ELSE [y EXCEPT !.saved[t.loco] = Speed(y, a)], a)

\* Relative changes leave a loco in emergency stop alone.
Change(y, a) ==
    LET i == Instr(y, a)
        v == Speed(y, a).v
        To(w) == Set(y, a, IF v = 1 THEN 1 ELSE w, Speed(y, a).fwd)
    IN \/ i.op = "SPEEDUP" /\ To(SpeedUp(v, i.n))
       \/ i.op = "SLOWDOWN" /\ To(SlowDown(v, i.n))
       \/ i.op = "SPEED_REL" /\ To(IF v < 2 THEN v ELSE SpeedRel(v, i.n))

\* ESTOPALL(0), FORGET and INVERT_DIRECTION.
EstopForget(y, a) ==
    \/ Op(y, a) = "ESTOPALL" /\ x' = SKIPOP(estopAll(y), a)
    \/ Op(y, a) = "INVERT_DIRECTION" /\ x' = SKIPOP([y EXCEPT !.task[a].invert = ~@], a)
    \/ /\ Op(y, a) = "FORGET"
       /\ x' = SKIPOP([Stop(y, y.task[a].loco, 1) EXCEPT !.task[a].loco = 0], a)

\* Faulty variant: a section that is taken is taken again.
ReserveAnyway(y, a) ==
    /\ Op(y, a) = "RESERVE"
    /\ x' = SKIPOP([y EXCEPT !.reserved = @ \cup {Instr(y, a).n}], a)

\* RESERVE: a task that finds the section taken stops its loco and tries again.
Reserve(y, a) ==
    /\ Op(y, a) = "RESERVE"
    /\ IF Instr(y, a).n \in y.reserved
       THEN x' = delayMe(Stop(y, y.task[a].loco, 1), a)
       ELSE x' = SKIPOP([y EXCEPT !.reserved = @ \cup {Instr(y, a).n}], a)

Free(y, a) ==
    LET i == Instr(y, a)
    IN \/ i.op = "FREE" /\ x' = SKIPOP([y EXCEPT !.reserved = @ \ {i.n}], a)
       \/ i.op = "FREEALL" /\ x' = SKIPOP([y EXCEPT !.reserved = {}], a)
Latch(y, a) ==
    LET i == Instr(y, a)
    IN \/ i.op = "LATCH" /\ x' = SKIPOP([y EXCEPT !.latched = @ \cup {i.n}], a)
       \/ i.op = "UNLATCH" /\ x' = SKIPOP([y EXCEPT !.latched = @ \ {i.n}], a)

\* The state of a route's button; a route that is unknown has none.
manageRouteState(y, id, state) ==
    IF find(id) = 0 THEN y ELSE [y EXCEPT !.shown[id] = state]
ifRouteState(y, id, state) == find(id) # 0 /\ y.shown[id] = state
RouteState(y, a) ==
    /\ Op(y, a) = "ROUTE_STATE"
    /\ x' = SKIPOP(manageRouteState(y, Instr(y, a).n, Instr(y, a).m), a)

\* The instructions that wait: they go on, or stay where they are and delay.
\* The time of an AFTER or a timeout, and what an analogue pin shows, is open.
At(y, a) ==
    LET i == Instr(y, a)
        z == [y EXCEPT !.task[a].blink = "not_blink_task"]
        Passed(late) == SKIPOP([y EXCEPT !.task[a].blink =
                                    IF late THEN "at_timeout" ELSE @], a)
    IN \/ i.op = "AT" /\ x' = IF readSensor(y, i.n) THEN SKIPOP(z, a) ELSE delayMe(z, a)
       \/ i.op = "AT_ANALOGUE" /\ x' \in {SKIPOP(z, a), delayMe(z, a)}
       \/ i.op = "ATTIMEOUT1" /\ x' = SKIPOP(z, a)
       \/ /\ i.op = "ATTIMEOUT2"
          /\ IF readSensor(y, i.n) THEN x' = Passed(FALSE)
             ELSE x' \in {Passed(TRUE), delayMe(y, a)}
After(y, a) ==
    LET Off(held) == IF held THEN x' = delayMe(y, a) ELSE x' \in {y, SKIPOP(y, a)}
    IN \/ Op(y, a) = "AFTER" /\ Off(readSensor(y, Instr(y, a).n))
       \/ Op(y, a) = "AFTEROVERLOAD" /\ Off(~y.power)
WaitWhileRed(y, a) ==
    LET s == Instr(y, a).n
    IN /\ Op(y, a) = "WAIT_WHILE_RED"
       /\ IF s \in Signals /\ y.signal[s] = "RED"
          THEN x' = delayMe(IF Speed(y, a).v > 1 THEN Stop(y, y.task[a].loco, 0) ELSE y, a)
          ELSE x' = SKIPOP(y, a)
WaitFor(y, a) == Op(y, a) \in {"WAITFOR", "WAITFORTT"} /\ x' \in {SKIPOP(y, a), delayMe(y, a)}
Delay(y, a) == Op(y, a) = "DELAY" /\ x' = SKIPOP(delayMe(y, a), a)

\* SET, RESET, BLINK and NEOPIXEL first end the blink tasks of their pins.
Blink(y, a) ==
    LET i == Instr(y, a)
        written[k \in 0 .. i.m] ==
            IF k = 0 THEN y
            ELSE With(written[k - 1], LAMBDA z : writePin(z, i.n + k - 1, i.op = "SET"))
    IN \/ i.op \in {"SET", "RESET"} /\ x' = SKIPOP(written[i.m], a)
       \/ /\ i.op = "BLINK"
          /\ LET w == killBlinkOnVpin(y, i.n)
                 z == newTask(w, y.task[a].pc, 0, FALSE, NoEvent)
                 b == Least(Fresh(w))
             IN x' = SKIPOP(IF ~CanStart(w) THEN w
                            ELSE [z EXCEPT !.task[b].blink = "blink_low",
                                           !.task[b].blinkPin = i.n], a)

Neopixel(y, a) ==
    LET n == Instr(y, a).n
    IN /\ Op(y, a) = "NEOPIXEL"
       /\ x' = SKIPOP(writePin(y, IF n > 0 THEN n ELSE -n, n > 0), a)

\* A blink task turns its pin over each time its delay is over.
BlinkTask(y, a) ==
    /\ Blinking(y, a)
    /\ LET on == y.task[a].blink = "blink_low"
       IN x' = delayMe([y EXCEPT !.pin[y.task[a].blinkPin] = on,
                                 !.task[a].blink = IF on THEN "blink_high" ELSE "blink_low"], a)

Switch(y, a) ==
    LET i == Instr(y, a)
    IN \/ i.op = "THROW" /\ x' = SKIPOP(setClosed(y, i.n, FALSE), a)
       \/ i.op = "CLOSE" /\ x' = SKIPOP(setClosed(y, i.n, TRUE), a)
       \/ /\ i.op = "TOGGLE_TURNOUT"
          /\ x' = SKIPOP(setClosed(y, i.n, i.n \in Turnouts /\ ~y.closed[i.n]), a)
Signal(y, a) ==
    /\ Op(y, a) \in {"RED", "AMBER", "GREEN"}
    /\ x' = SKIPOP(doSignal(y, Instr(y, a).n, Op(y, a)), a)

\* PAUSE stops everyone and records no speeds.
Pausing(y, a) ==
    \/ Op(y, a) = "PAUSE" /\ x' = SKIPOP([estopAll(y) EXCEPT !.pausing = a], a)
    \/ Op(y, a) = "RESUME" /\ x' = SKIPOP(ResumeAll(y), a)

IfOps == {"IF", "IFNOT", "IFRESERVE", "IFSIGNAL", "IFCLOSED", "IFTHROWN", "IFSTASH",
          "IFSTASHED_HERE", "IFTIMEOUT", "IFLOCO", "IF_ROUTE", "IF_ANY", "IF_ALL",
          "IF_ANALOGUE"}

\* skipIfBlock: just after the ENDIF, or the ELSE, of this IF. Without one the task dies.
EndOfBlock(code, pc) ==
    LET Count(ops, j) == Cardinality({k \in pc + 1 .. j : code[k].op \in ops})
        Nest(j) == 1 + Count(IfOps, j) - Count({"ENDIF"}, j)
        Stops(j) == \/ code[j].op = "ENDEXRAIL"
                    \/ code[j].op = "ENDIF" /\ Nest(j) = 0
                    \/ code[j].op = "ELSE" /\ Nest(j) = 1
    IN Least({k \in pc + 1 .. Len(code) : Stops(k)})
skipIfBlock(y, a) ==
    LET j == EndOfBlock(prog.code, y.task[a].pc)
    IN IF prog.code[j].op = "ENDEXRAIL" THEN kill(y, a)
       ELSE [y EXCEPT !.task[a].pc = j + 1]

\* The conditions: skipIf, or either value where the outside decides.
SkipIf(y, a) ==
    LET i == Instr(y, a)
        t == y.task[a]
    IN CASE i.op = "IF" -> {~readSensor(y, i.n)}
         [] i.op = "IFNOT" -> {readSensor(y, i.n)}
         [] i.op = "ELSE" -> {TRUE}
         [] i.op = "IFRESERVE" -> {i.n \in y.reserved}
         [] i.op = "IFSIGNAL" -> {~(i.n \in Signals /\ y.signal[i.n] = i.m)}
         [] i.op = "IFCLOSED" -> {i.n \notin Turnouts \/ ~y.closed[i.n]}
         [] i.op = "IFTHROWN" -> {i.n \in Turnouts /\ y.closed[i.n]}
         [] i.op = "IFSTASH" -> {Stashed(y, i.n) = 0}
         [] i.op = "IFSTASHED_HERE" -> {Stashed(y, i.n) % 2^15 # t.loco}
         [] i.op = "IFTIMEOUT" -> {t.blink # "at_timeout"}
         [] i.op = "IFLOCO" -> {t.loco # i.n}
         [] i.op = "IF_ROUTE" -> {~ifRouteState(y, i.n, i.m)}
         [] i.op = "IF_ANY" -> {~ifAnyFunc({i.n, i.m})}
         [] i.op = "IF_ALL" -> {~ifAllFunc({i.n, i.m})}
         [] OTHER -> BOOLEAN

If(y, a) ==
    /\ Op(y, a) \in IfOps \cup {"ELSE"}
    /\ \E skip \in SkipIf(y, a) :
          IF skip THEN x' = skipIfBlock(y, a)
          ELSE x' = SKIPOP([y EXCEPT !.reserved =
                        IF Op(y, a) = "IFRESERVE" THEN @ \cup {Instr(y, a).n} ELSE @], a)

Branch(y, a) ==
    LET i == Instr(y, a)
        t == y.task[a]
    IN \/ i.op = "FOLLOW" /\ x' = Goto(y, a, find(i.n))
       \/ i.op = "RANDOM_FOLLOW" /\ \E n \in {i.n, i.m} : x' = Goto(y, a, find(n))
       \/ /\ i.op \in {"CALL", "RANDOM_CALL"}
          /\ IF Len(t.stack) = MAX_STACK_DEPTH THEN x' = kill(y, a)
             ELSE \E n \in IF i.op = "CALL" THEN {i.n} ELSE {i.n, i.m} :
                    x' = Goto([y EXCEPT !.task[a].stack = Append(@, t.pc + 1)], a, find(n))
       \/ /\ i.op = "RETURN"
          /\ IF t.stack = <<>> THEN x' = kill(y, a)
             ELSE x' = [y EXCEPT !.task[a].pc = Last(t.stack), !.task[a].stack = Front(@)]
       \/ i.op \in {"ENDTASK", "ENDEXRAIL"} /\ x' = kill(y, a)
       \/ i.op = "KILLALL" /\ x' = KillAll(y)

\* START, START_SHARED, START_SEND and SENDLOCO: an unknown route starts nothing.
Starting(y, a) ==
    LET i == Instr(y, a)
        t == y.task[a]
        pc == find(IF i.op = "SENDLOCO" THEN i.m ELSE i.n)
    IN /\ i.op \in {"START", "START_SHARED", "START_SEND", "SENDLOCO"}
       /\ IF pc = 0 \/ ~CanStart(y) THEN x' = SKIPOP(y, a)
          ELSE \/ i.op = "START" /\ x' = SKIPOP(newTask(y, pc, 0, FALSE, NoEvent), a)
               \/ i.op = "SENDLOCO" /\ x' = SKIPOP(newTask(y, pc, i.n, FALSE, NoEvent), a)
               \/ /\ i.op = "START_SHARED"
                  /\ x' = SKIPOP(newTask(y, pc, t.loco, t.invert, NoEvent), a)
               \/ /\ i.op = "START_SEND"
                  /\ x' = SKIPOP([newTask(y, pc, t.loco, t.invert, NoEvent) EXCEPT
                                    !.task[a].loco = 0], a)

Take(y, a, l, inv) == SKIPOP([y EXCEPT !.task[a].loco = l, !.task[a].invert = inv], a)
SetLoco(y, a) == Op(y, a) = "SETLOCO" /\ x' = Take(y, a, Instr(y, a).n, FALSE)

\* The stash of locos, by id; 0 is an empty entry. The sign is the direction.
StashSet(f, n, loco) == [f EXCEPT ![n] = loco]
clearAny(f, loco) == [n \in DOMAIN f |-> IF f[n] \in {loco, -loco} THEN 0 ELSE f[n]]
clearAll(f) == [n \in DOMAIN f |-> 0]

StashLoco(y, a) ==
    LET i == Instr(y, a)
        t == y.task[a]
        Stash(f) == SKIPOP([y EXCEPT !.stash = f], a)
    IN \/ /\ i.op = "STASH"
          /\ x' = Stash(StashSet(y.stash, i.n, IF t.invert THEN -t.loco ELSE t.loco))
       \/ i.op = "CLEAR_STASH" /\ x' = Stash(StashSet(y.stash, i.n, 0))
       \/ i.op = "CLEAR_ALL_STASH" /\ x' = Stash(clearAll(y.stash))
       \/ i.op = "CLEAR_ANY_STASH" /\ x' = Stash(clearAny(y.stash, t.loco))
       \/ /\ i.op = "PICKUP_STASH"
          /\ LET l == Stashed(y, i.n) IN x' = Take(y, a, IF l >= 0 THEN l ELSE -l, l < 0)

\* READ_LOCO: refused at once, or an operation of its own, in place of whatever
\* operation is running.  The callback answers every task that waits.
ReadLoco(y, a) ==
    \/ /\ Op(y, a) = "READ_LOCO1"
       /\ x' \in {SKIPOP([y EXCEPT !.progtrackLocoId = 0], a),
                  SKIPOP([y EXCEPT !.progtrackLocoId = WAITING, !.reading = TRUE], a)}
    \/ /\ Op(y, a) = "READ_LOCO2"
       /\ IF y.progtrackLocoId = WAITING THEN x' = delayMe(y, a)
          ELSE x' = SKIPOP([y EXCEPT !.task[a].loco = y.progtrackLocoId,
                                     !.task[a].invert = FALSE], a)

\* Definitions, and instructions whose effect is on another component.
Elsewhere(y, a) ==
    /\ Op(y, a) \in {"AUTOSTART", "ROUTE", "AUTOMATION", "SEQUENCE", "ENDIF", "ONRED", "ONAMBER",
                     "ONGREEN", "ONCLOSE", "ONTHROW", "ONBLOCKENTER", "ONBLOCKEXIT", "ONEVENT",
                     "ONSENSOR", "ONBUTTON", "ONLCC", "SERVO", "PRINT", "BITMAP", "CONSIST", "MOMENTUM"}
                    \cup LccOps
    /\ x' = SKIPOP(y, a)

\* Other locos, and accessories: an aspect may be one of our signals.
Others(y, a) ==
    LET i == Instr(y, a)
    IN \/ i.op = "XFWD" /\ x' = SKIPOP(setThrottle(y, i.n, i.m, TRUE), a)
       \/ i.op = "XREV" /\ x' = SKIPOP(setThrottle(y, i.n, i.m, FALSE), a)
       \/ i.op = "ASPECT" /\ x' = SKIPOP(signalAspectEvent(y, i.n, i.m), a)
       \/ i.op \in {"FUNCTION", "ACCESSORY"} /\ x' = SKIPOP(y, a)

\* The tracks: CVs on the main, power off, power and mode of one track.
Tracks(y, a) ==
    LET i == Instr(y, a)
    IN \/ i.op = "POWEROFF" /\ x' = SKIPOP([y EXCEPT !.power = FALSE], a)
       \/ i.op = "SET_POWER" /\ x' = SKIPOP([y EXCEPT !.power = (i.n = 1)], a)
       \/ i.op \in {"CV", "SET_TRACK"} /\ x' = SKIPOP(y, a)
Power(y, a) == Op(y, a) \in {"POWERON", "JOIN"} /\ x' = SKIPOP([y EXCEPT !.power = TRUE], a)

-----------------------------------------------------------------------------
(***************************************************************************)
(* Layouts.  The macros end a program with ENDEXRAIL, and SET and RESET    *)
(* have a count.  A section of `zones` is used as EXRAIL's documents teach *)
(* it: no task starts in it, returns into it or skips into it, a task that *)
(* goes in has just reserved it, and only one that goes out frees it.      *)
(***************************************************************************)
Events == {"ONRED", "ONAMBER", "ONGREEN", "ONCLOSE", "ONTHROW", "ONBLOCKENTER", "ONBLOCKEXIT", "ONEVENT"}
Entries(code) ==
    {1} \cup {pc \in DOMAIN code : code[pc].op \in Events \cup {"ROUTE", "AUTOMATION", "SEQUENCE", "AUTOSTART"}}
        \cup {pc + 1 : pc \in {k \in DOMAIN code : code[k].op \in {"ONSENSOR", "ONBUTTON", "ONLCC"}}}

\* What never goes on to the next instruction.
Leaves == {"FOLLOW", "RANDOM_FOLLOW", "RETURN", "ENDTASK", "ENDEXRAIL", "KILLALL", "ELSE"}

Guarded(p, s) ==
    LET zone == p.zones[s]
        Is(pc, ops) == p.code[pc].op \in ops
    IN /\ zone \cap Entries(p.code) = {}
       /\ \A pc \in DOMAIN p.code \ zone :
             /\ pc + 1 \in zone =>
                   Is(pc, Leaves) \/ (Is(pc, {"RESERVE", "IFRESERVE"}) /\ p.code[pc].n = s)
             /\ Is(pc, IfOps \cup {"ELSE"}) => EndOfBlock(p.code, pc) + 1 \notin zone
             /\ ~(Is(pc, {"FREE"}) /\ p.code[pc].n = s)
       /\ \A pc \in DOMAIN p.code :
             /\ Is(pc, {"CALL", "RANDOM_CALL"}) => pc + 1 \notin zone
             /\ Is(pc, {"FREE"}) /\ p.code[pc].n = s => pc + 1 \notin zone
             /\ ~Is(pc, {"FREEALL"})

ASSUME ProgramsAssumption ==
    \A p \in Programs :
        /\ Len(p.code) \in Nat \ {0} /\ DOMAIN p.code = 1 .. Len(p.code)
        /\ p.code[Len(p.code)].op = "ENDEXRAIL"
        /\ \A pc \in DOMAIN p.code : p.code[pc].op \in {"SET", "RESET"} => p.code[pc].m \in Nat
        /\ \A s \in DOMAIN p.zones : Guarded(p, s)
ASSUME AddrAssumption == Addr \subseteq Nat \ {0} /\ IsFiniteSet(Signals)

-----------------------------------------------------------------------------
\* checkAll: the sensors are read at intervals; at most one is due in a pass here.
checkAll ==
    {[y |-> x, s |-> sensor]} \cup
    {LET c == check(x, pc) IN [y |-> c.y, s |-> [sensor EXCEPT ![prog.code[pc].n] = c.s]] :
        pc \in {q \in DOMAIN prog.code : Sensed(q)}}

\* Faulty variant: loopTask stays where it is while it lives.
TurnedNot(y) == y

\* loopTask=loopTask->next.
Turned(y) == [y EXCEPT !.ring = Append(Tail(@), Head(@))]
Served(y) == y.pausing \in {Nobody, Head(y.ring)} /\ ~y.task[Head(y.ring)].delayed

loop2(y, a) ==
    \/ BlinkTask(y, a)
    \/ /\ ~Blinking(y, a)
       /\ \/ Drive(y, a) \/ Change(y, a) \/ EstopForget(y, a) \/ Reserve(y, a)
          \/ Free(y, a) \/ Latch(y, a) \/ RouteState(y, a)
          \/ At(y, a) \/ After(y, a) \/ WaitWhileRed(y, a) \/ WaitFor(y, a) \/ Delay(y, a)
          \/ Blink(y, a) \/ Switch(y, a) \/ Signal(y, a) \/ Pausing(y, a) \/ If(y, a)
          \/ Branch(y, a) \/ Starting(y, a) \/ SetLoco(y, a) \/ StashLoco(y, a)
          \/ ReadLoco(y, a) \/ Elsewhere(y, a) \/ Power(y, a) \/ Tracks(y, a)
          \/ Others(y, a) \/ Neopixel(y, a)

\* RMFT2::loop: sensors, then the ring turns; a task that is not delayed and not
\* paused runs one instruction.
Loop ==
    /\ ~x.hung
    /\ \E c \in checkAll :
         /\ sensor' = c.s
         /\ IF c.y.ring = <<>> THEN x' = c.y
            ELSE \E y \in {Turned(c.y)} :
                    IF Served(y) THEN loop2(y, Head(y.ring)) ELSE x' = y
    /\ UNCHANGED <<prog, input, zoneFreed, commands>>

\* A delay is over.
Expire(a) ==
    /\ x.task[a].delayed /\ Live(a)
    /\ x' = [x EXCEPT !.task[a].delayed = FALSE]
    /\ UNCHANGED <<prog, input, sensor, zoneFreed, commands>>

\* readLocoCallback: the programming track has found a loco, or an error.
readLocoCallback ==
    /\ x.reading /\ ~x.hung
    /\ \E l \in Locos \cup {0} : x' = [x EXCEPT !.progtrackLocoId = l, !.reading = FALSE]
    /\ UNCHANGED <<prog, input, sensor, zoneFreed, commands>>

InputChanges(p) ==
    /\ commands < prog.maxCommands
    /\ commands' = commands + 1
    /\ input' = [input EXCEPT ![p] = ~@]
    /\ UNCHANGED <<prog, x, sensor, zoneFreed>>

-----------------------------------------------------------------------------
\* parseSlash and ComandFilter, and the events other components raise.

Command ==
    /\ commands < prog.maxCommands /\ ~x.hung
    /\ commands' = commands + 1
    /\ UNCHANGED <<prog, input, sensor>>

Pause ==
    /\ Command /\ UNCHANGED zoneFreed
    /\ x' = [estopAll(PauseAll(x)) EXCEPT !.pausing = Parser]
Resume == Command /\ UNCHANGED zoneFreed /\ x' = ResumeAll(x)
Start(cab, route) ==
    /\ Command /\ UNCHANGED zoneFreed
    /\ find(route) # 0
    /\ x' = newTask(x, find(route), cab, FALSE, NoEvent)
KillCommand(a) == Command /\ UNCHANGED zoneFreed /\ Live(a) /\ x' = kill(x, a)
KillAllCommand == Command /\ UNCHANGED zoneFreed /\ x' = KillAll(x)
FreeCommand(S) ==
    /\ Command
    /\ x' = [x EXCEPT !.reserved = @ \ S]
    /\ zoneFreed' = zoneFreed \cup S
ReserveCommand(s) ==
    Command /\ UNCHANGED zoneFreed /\ x' = [x EXCEPT !.reserved = @ \cup {s}]
LatchCommand(p) ==
    /\ Command /\ UNCHANGED zoneFreed
    /\ \E S \in {x.latched \cup {p}, x.latched \ {p}} : x' = [x EXCEPT !.latched = S]
SignalCommand(s, rag) == Command /\ UNCHANGED zoneFreed /\ x' = doSignal(x, s, rag)
AspectCommand(s, aspect) ==
    /\ Command /\ UNCHANGED zoneFreed
    /\ s \in prog.dccx
    /\ x' = signalAspectEvent(x, s, aspect)

\* <R>, <W>, a Z21 throttle: DCCACK::Setup has another operation take the place of
\* the one that is running, and its callback that of readLocoCallback.
ProgramCommand == Command /\ UNCHANGED zoneFreed /\ x.reading /\ x' = [x EXCEPT !.reading = FALSE]

\* <L>: the LCC adapter asks for the next event it is to send or to wait for, to the
\* end of the program. One that starts again in the middle is told the rest.
LccAsks ==
    LET told == LccOps \cup {"ONLCC", "ENDEXRAIL"}
        pc == Least({k \in x.lcc.pc .. Len(prog.code) : prog.code[k].op \in told})
        op == prog.code[pc].op
    IN /\ Command /\ UNCHANGED zoneFreed
       /\ \E k \in DOMAIN prog.code : prog.code[k].op \in LccOps \cup {"ONLCC"}
       /\ x' = CASE op = "ENDEXRAIL" -> [x EXCEPT !.lcc.pc = 1, !.lcc.index = 0]
                  [] op = "ONLCC" -> [x EXCEPT !.lcc.pc = pc + 1, !.lcc.index = @ + 1,
                                               !.lcc.lookup[x.lcc.index + 1] = pc + 1]
                  [] OTHER -> [x EXCEPT !.lcc.pc = pc + 1]

\* <L event>: before the adapter was told, every event starts the program's first
\* instruction.
LccEvent(eventid) ==
    /\ Command /\ UNCHANGED zoneFreed
    /\ eventid < countLCCLookup
    /\ x' = startNonRecursiveTask(x, x.lcc.lookup[eventid + 1], 0)

Event(kind, id, loco) ==
    /\ Command /\ UNCHANGED zoneFreed
    /\ LookList({kind}, id) # {}
    /\ x' = handleEvent(x, kind, id, loco)

User ==
    \/ Pause \/ Resume \/ KillAllCommand \/ LccAsks \/ ProgramCommand
    \/ \E eventid \in 0 .. 1 : LccEvent(eventid)
    \/ \E cab \in Locos \cup {0}, route \in Sections : Start(cab, route)
    \/ \E a \in Addr : KillCommand(a)
    \/ \E S \in {Sections} \cup {{s} : s \in Sections} : FreeCommand(S)
    \/ \E s \in Sections : ReserveCommand(s)
    \/ \E p \in Pins : LatchCommand(p) \/ InputChanges(p)
    \/ \E s \in Signals, rag \in {"RED", "AMBER", "GREEN"} : SignalCommand(s, rag)
    \/ \E s \in Signals, aspect \in 0 .. 3 : AspectCommand(s, aspect)
    \/ \E id \in Sections, loco \in Locos : \E kind \in {"ONBLOCKENTER", "ONBLOCKEXIT"} :
            Event(kind, id, loco)
    \/ \E id \in Sections : Event("ONEVENT", id, 0)

Next ==
    \/ Loop \/ readLocoCallback \/ User
    \/ \E a \in Addr : Expire(a)

\* The main loop runs for ever, time passes, and the programming track answers.
Spec ==
    /\ Init /\ [][Next]_vars
    /\ WF_vars(Loop) /\ WF_vars(readLocoCallback)
    /\ \A a \in Addr : WF_vars(Expire(a))

-----------------------------------------------------------------------------
\* The ring holds each task once.
RingOK == x.ring \in Seq(Addr) /\ IsInjective(x.ring)

\* The records keep their types, and each task of the ring has an id of its own.
XTypeOK ==
    /\ RingOK
    /\ x.ids = {x.task[x.ring[i]].id : i \in DOMAIN x.ring}
    /\ Cardinality(x.ids) = Len(x.ring)
    /\ \A a \in Addr : x.task[a].pc \in DOMAIN prog.code /\ Len(x.task[a].stack) <= MAX_STACK_DEPTH
    /\ x.pausing \in Addr \cup {Nobody, Parser}
    /\ x.reserved \subseteq Sections /\ x.latched \subseteq Pins
    /\ commands \in 0 .. prog.maxCommands

\* A section that its route reserves before it enters is never occupied by two
\* tasks, however tasks are started, killed, paused and resumed, as long as no
\* user frees it by force (RESERVE, IFRESERVE, FREE).
SectionExclusive ==
    \A s \in DOMAIN prog.zones \ zoneFreed :
        \A a, b \in Range(x.ring) :
            (x.task[a].pc \in prog.zones[s] /\ x.task[b].pc \in prog.zones[s]
               /\ ~Blinking(x, a) /\ ~Blinking(x, b)) => a = b

\* No event handler runs twice at once for the same loco (startNonRecursiveTask).
NoTwins ==
    \A a, b \in Range(x.ring) :
        (a # b /\ x.task[a].on # NoEvent /\ x.task[a].loco = x.task[b].loco)
           => x.task[a].on # x.task[b].on

\* A loco that moves has a task that can stop it: whatever way a route dies
\* (ENDTASK, unknown route, stack, missing ENDIF, KILL, KILLALL), its loco stops.
\* (The handlers of blocks are meant to leave the loco as it is.)
NoRunaway ==
    LookList({"ONBLOCKENTER"}, 1) = {} =>
    \A l \in Locos : x.speed[l].v > 1 => \E a \in Range(x.ring) : x.task[a].loco = l

\* No task starves, however many others come and go: one whose instruction does
\* not wait moves on or dies, unless another task or a user has paused it; the one
\* that pauses the others goes on itself.  A task that has asked for the loco on the
\* programming track goes on too, unless somebody else's operation came in between.
\* (Nobody resumes for a pausing task that is killed: then all stand still.)
Ready(a) ==
    /\ Live(a) /\ ~Blinking(x, a) /\ x.pausing \in {Nobody, a} /\ ~x.hung
    /\ Op(x, a) \notin {"RESERVE", "AT", "AT_ANALOGUE", "ATTIMEOUT2", "AFTER", "WAITFOR", "WAITFORTT",
                        "AFTEROVERLOAD", "WAIT_WHILE_RED"}
    /\ Op(x, a) = "READ_LOCO2" => x.progtrackLocoId # WAITING \/ x.reading
Moves(a) == x'.task[a].pc # x.task[a].pc
EveryTaskMoves == \A a \in Addr : []<>~Ready(a) \/ []<><<Moves(a)>>_vars

\* Every event the LCC adapter has been told to wait for starts its own handler,
\* however often it asks again and whatever was sent in between.
LccRight ==
    LET handlers == SelectSeq([pc \in DOMAIN prog.code |-> pc], LAMBDA pc : prog.code[pc].op = "ONLCC")
    IN \A k \in 1 .. x.lcc.index : x.lcc.lookup[k] = handlers[k] + 1

\* The ring holds each live task once, no event handler runs twice for a loco, and
\* the adapter's events start what they should.
TasksSound == XTypeOK /\ NoTwins /\ LccRight
=============================================================================
