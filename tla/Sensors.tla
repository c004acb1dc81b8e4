------------------------------ MODULE Sensors ------------------------------
(***************************************************************************)
(* The sensors of Sensors.cpp and SensorGroup.cpp, as operators on the     *)
(* record D of module Hal, whose fields they add to:                       *)
(*                                                                         *)
(*   sens     the list, first first: [id, pin, poll, input, active, latch] *)
(*   reading  the id of readingSensor, Null between scans                  *)
(*   scanDue  cycleInterval has passed since lastReadCycle                 *)
(*   group    the pins of the sensor group of EXRAIL, groupOn its states   *)
(*   heard    what the clients were last told of each sensor id or pin     *)
(*                                                                         *)
(* Besides, each sensor carries how many scans in a row it has differed    *)
(* (differs), whether setState forced it and whether its pin was not in    *)
(* use before (fresh): all three only for the properties.                  *)
(***************************************************************************)
EXTENDS Hal

CONSTANTS
    MinReadCount,  \* minReadCount
    PerEntry       \* sensors looked at in one call of checkAll (16 in the code)
ASSUME SensorsAssumption == MinReadCount \in Nat /\ PerEntry \in Nat \ {0}

Position(D, id) == SelectInSeq(D.sens, LAMBDA s : s.id = id)
Sensor_get(D, id) == Position(D, id)

\* The sensor that follows the one at a position.
NextId(D, k) == IF k = Len(D.sens) THEN Null ELSE D.sens[k + 1].id

\* Faulty variant: the scan keeps its pointer to a sensor that is freed.
removeOnly(D, id) ==
    LET k == Position(D, id)
    IN  IF k = 0 THEN D ELSE [D EXCEPT !.sens = RemoveAt(@, k)]

\* The sensor is unlinked; a scan that was about to read it goes on with the next.
Sensor_remove(D, id) ==
    LET k == Position(D, id)
    IN  IF k = 0 THEN D
        ELSE [D EXCEPT !.sens = RemoveAt(@, k),
                       !.reading = IF @ = id THEN NextId(D, k) ELSE @]

inUse(D, pin) == exists(D, pin) /\ pin \in D.dev[findDevice(D, pin)].used
NewSensor(D, id, pin) ==
    [id |-> id, pin |-> pin, poll |-> pin # VPIN_NONE /\ ~hasCallback(D, pin),
     input |-> FALSE, active |-> FALSE, latch |-> MinReadCount,
     differs |-> 0, forced |-> FALSE, fresh |-> ~inUse(D, pin)]

\* An older sensor of that id goes; the new one is put first, its pin an input.
Sensor_create(D, id, pin) ==
    LET E == Sensor_remove(D, id)
        F == [E EXCEPT !.sens = <<NewSensor(E, id, pin)>> \o @]
    IN  IF pin = VPIN_NONE THEN F ELSE configureInput(F, pin)

\* createMultiple: sensors that have the number of their pin.
createMultiple(D, first, count) ==
    FoldLeft(LAMBDA E, k : Sensor_create(E, k, k), D, [k \in 1 .. count |-> first + k - 1])

\* For sensors without a pin: reported by the next scan.
setState(D, id, on) ==
    LET k == Position(D, id)
    IN  [D EXCEPT !.sens[k].input = on, !.sens[k].latch = 0, !.sens[k].forced = TRUE]

\* broadcastSensor.
broadcastSensor(D, id, on) == [D EXCEPT !.heard = (id :> on) @@ @]

-----------------------------------------------------------------------------
\* A new scan starts when its time has come.
StartScan(D) ==
    IF D.reading = Null /\ D.sens # <<>> /\ D.scanDue
    THEN [D EXCEPT !.reading = D.sens[1].id, !.scanDue = FALSE] ELSE D

\* Faulty variant: a change that goes away again still counts.
DebouncedForgetful(s, on) ==
    CASE on = s.active -> [s EXCEPT !.input = on, !.differs = 0]
      [] on # s.active /\ s.latch > 0 ->
            [s EXCEPT !.input = on, !.latch = @ - 1, !.differs = @ + 1]
      [] OTHER -> [s EXCEPT !.input = on, !.active = on, !.latch = MinReadCount,
                            !.differs = 0, !.forced = FALSE]

\* A change counts when it has been seen MinReadCount times before.
Debounced(s, on) ==
    CASE on = s.active -> [s EXCEPT !.input = on, !.latch = MinReadCount, !.differs = 0]
      [] on # s.active /\ s.latch > 0 ->
            [s EXCEPT !.input = on, !.latch = @ - 1, !.differs = @ + 1]
      [] OTHER -> [s EXCEPT !.input = on, !.active = on, !.latch = MinReadCount,
                            !.differs = 0, !.forced = FALSE]

\* What the scan takes a sensor's input to be, and the record after it was read.
Input(D, s) ==
    IF s.poll /\ s.pin # VPIN_NONE THEN read(D, s.pin) ELSE [d |-> D, on |-> s.input]

\* The sensor at k is judged; a change is announced and ends the entry.
Judge(D, k, on) ==
    LET s == D.sens[k]
        t == Debounced(s, on)
        E == [D EXCEPT !.sens[k] = t, !.reading = NextId(D, k)]
    IN  IF t.active = s.active THEN [d |-> E, pause |-> FALSE]
        ELSE [d |-> broadcastSensor(E, s.id, t.active), pause |-> TRUE]

\* One sensor of the scan is read and judged.
ReadOne(D) ==
    With(Position(D, D.reading), LAMBDA k :
        With(Input(D, D.sens[k]), LAMBDA r : Judge(r.d, k, r.on)))

\* The states of the group's pins are compared without any delay.
groupCheck(D) ==
    Each(LAMBDA E, pin :
                LET r == read(E, pin)
                IN  IF (pin \in E.groupOn) = r.on THEN r.d
                    ELSE broadcastSensor([r.d EXCEPT !.groupOn = With1(@, pin, r.on)], pin, r.on),
             D, SetToSeq(D.group))

\* prepareAll: the pins become inputs and their states are taken.
groupPrepare(D, pins) ==
    Each(LAMBDA E, pin :
                LET r == read(configureInput(E, pin), pin)
                IN  [r.d EXCEPT !.group = @ \cup {pin}, !.groupOn = IF r.on THEN @ \cup {pin} ELSE @],
             D, SetToSeq(pins))

\* Sensor::checkAll: up to PerEntry sensors, or until one has changed.
checkAll(D) ==
    Each(LAMBDA E, n : IF E.pause \/ E.d.reading = Null THEN E ELSE ReadOne(E.d),
         [d |-> With(groupCheck(D), StartScan), pause |-> FALSE], [n \in 1 .. PerEntry |-> n]).d
=============================================================================
