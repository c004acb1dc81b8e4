----------------------------- MODULE Dashboard -----------------------------
(***************************************************************************)
(* What the box knows of the trains and shows of them: the events other    *)
(* parts queue for its display (HmiInterface.cpp), their handling          *)
(* (hmi.Interface.cpp), the list of the trains driven last (hmi.cpp,       *)
(* hmiTrain.cpp) and the DC cab of Labox.cpp, as operators on a record B:  *)
(*                                                                         *)
(*   queue     events not handled yet                                      *)
(*   state     _HMIState; shown: laBoxState, "on" or "off"                 *)
(*   trains    tabTrains; addr 0 is a free record. view: nbTrainToView     *)
(*   main      mainMode; progMode                                          *)
(*   cv, base, data, baseData, editing, moved   the CV being entered       *)
(*   table     loco table: cab -> [speed, forward]                     *)
(*   on        whether the track has power                                 *)
(*   dc        LaboxDC; memo: the last speed and direction told in DC      *)
(*             mode, and (for the properties) of which cabs they were        *)
(*                                                                         *)
(* Values of CVs and data run to Top and their middle, 128, is Half;       *)
(* speeds are below Half, and a stop is the emergency stop. sure names     *)
(* what the display must agree with once the queue is empty: only for the  *)
(* properties.                                                             *)
(***************************************************************************)
EXTENDS Integers, Eager

CONSTANTS NbTrains,    \* HMI_NbMemorisedTrain
          Room,        \* messages that fit in the buffer
          Half, Top,
          TrainsInView,  \* HMI_DASHBOARD_TRAIN_NB
          DcCab        \* LABOX_DC_CAB

ASSUME BoxAssumption == NbTrains > 1 /\ Room > 1 /\ Half > 0 /\ Top >= 2 * Half - 1

Unchanged == -1   \* SPEED_VALUE_UNCHANGED

Free == [addr |-> 0, speed |-> 0, mode |-> "stop", fn |-> FALSE]
hmi_trains == [i \in 1..NbTrains |-> Free]

InView(B, cab) == \E i \in 1..NbTrains : i <= B.view /\ B.trains[i].addr = cab
Unsure(B, things) == [B EXCEPT !.sure = @ \ things]
Sure(B, thing) == [B EXCEPT !.sure = @ \cup {thing}]

-----------------------------------------------------------------------------
(* Producers: an event that finds no room is lost.                         *)

Tells(m) ==
    CASE m.event \in {"speed", "direction", "remove"} -> {<<"train", m.cab>>}
      [] m.event = "power" -> {<<"power">>}
      [] OTHER -> {}

push(B, m) ==
    LET power == IF m.event = "power" THEN {<<"lost">>} ELSE {}
    IN  IF Len(B.queue) < Room THEN Unsure([B EXCEPT !.queue = Append(@, m)], power)
        ELSE [B EXCEPT !.sure = (@ \ Tells(m)) \cup power]

WifiStartConnection(B) == push(B, [event |-> "wifiStart"])
WifiConnected(B) == push(B, [event |-> "wifiOk"])
WifiEndConnection(B) == push(B, [event |-> "wifiEnd"])
DCCOn(B) == push(B, [event |-> "power", on |-> TRUE])
DCCOff(B) == push(B, [event |-> "power", on |-> FALSE])

\* memoDCSpeed, memoDCDirection: one of each, whatever the cab.
memoDC == [speed |-> 0, speedOf |-> 0, forward |-> FALSE, forwardOf |-> 0]

\* Not told, as the last one told was the same: nothing is missed if that was of
\* the same cab.
Coalesced(B, cab, of) == IF of = cab THEN B ELSE Unsure(B, {<<"train", cab>>})

ChangeSpeed(B, cab, speed) ==
    LET m == [event |-> "speed", cab |-> cab]
    IN  CASE B.main # "DC" -> push(B, m)
          [] B.main = "DC" /\ B.memo.speed = speed -> Coalesced(B, cab, B.memo.speedOf)
          [] OTHER -> push([B EXCEPT !.memo.speed = speed, !.memo.speedOf = cab], m)

ChangeDirection(B, cab, forward) ==
    LET m == [event |-> "direction", cab |-> cab, forward |-> forward]
    IN  CASE B.main # "DC" -> push(B, m)
          [] B.main = "DC" /\ B.memo.forward = forward -> Coalesced(B, cab, B.memo.forwardOf)
          [] OTHER -> push([B EXCEPT !.memo.forward = forward, !.memo.forwardOf = cab], m)

ChangeFunction(B, cab, on) == push(B, [event |-> "function", cab |-> cab, on |-> on])
LocoRemove(B, cab) == push(B, [event |-> "remove", cab |-> cab])

-----------------------------------------------------------------------------
(* The list of trains.                                                     *)

\* An order with a speed, or without one; a stop; a function.
setInfo(B, t, addr, order, value) ==
    LET speed == IF value = Unchanged THEN t.speed ELSE value
    IN  CASE order \in {"forward", "back"} ->
                 [t EXCEPT !.addr = addr, !.speed = speed,
                           !.mode = IF B.main = "DC" \/ speed > 0 THEN order ELSE "stop"]
          [] order = "stop" -> [t EXCEPT !.addr = addr, !.speed = 0, !.mode = "stop"]
          [] OTHER -> [t EXCEPT !.addr = addr, !.fn = value]

\* Faulty variant: a train further down is looked for in view only.
setTrainStateInView(B, addr, order, value) ==
    LET i == SelectInSeq(SubSeq(B.trains, 1, B.view), LAMBDA t : t.addr = addr)
    IN  [B EXCEPT !.trains =
             IF i > 0 THEN [@ EXCEPT ![i] = setInfo(B, @, addr, order, value)]
             ELSE [j \in 1..NbTrains |-> IF j = 1 THEN setInfo(B, @[1], addr, order, value) ELSE @[j - 1]]]

\* A train in view keeps its place. Else the ones before its place, or before
\* the last one, move down, and the first record becomes the train's: what the
\* order does not set is left from the train it was.
setTrainState(B, addr, order, value) ==
    LET i == SelectInSeq(B.trains, LAMBDA t : t.addr = addr)
        n == IF i = 0 THEN NbTrains ELSE i
    IN  [B EXCEPT !.trains =
             IF i > 0 /\ i <= B.view THEN [@ EXCEPT ![i] = setInfo(B, @, addr, order, value)]
             ELSE [j \in 1..NbTrains |->
                       IF j = 1 THEN setInfo(B, @[1], addr, order, value)
                       ELSE IF j <= n THEN @[j - 1] ELSE @[j]]]

\* What the box shows when nothing else is on the display.
Home(B) == IF B.shown = "on" /\ B.trains[1].addr > 0 THEN "trains" ELSE "dashboard"
Settle(B) == IF B.state \in {"dashboard", "trains"} THEN [B EXCEPT !.state = Home(B)] ELSE B

\* Trains are followed with power only.
addNotification(B, addr, order, value) ==
    Settle(IF B.shown # "on" THEN B ELSE setTrainState(B, addr, order, value))

StopAll(B) == Settle([B EXCEPT !.shown = "off"])
StartDCC(B) == Settle([B EXCEPT !.shown = "on"])

\* The events of the network put the box offline, whatever the track has.
WifiState(B, state) == Settle(Unsure([B EXCEPT !.state = state, !.shown = "off"], {<<"power">>, <<"menu">>}))

-----------------------------------------------------------------------------
(* HmiInterfaceLoop.                                                       *)

Order(forward) == IF forward THEN "forward" ELSE "back"
Known(B, cab) == cab \in DOMAIN B.table
SpeedOf(B, cab) == IF Known(B, cab) THEN B.table[cab].speed ELSE 0
ForwardOf(B, cab) == IF Known(B, cab) THEN B.table[cab].forward ELSE TRUE

\* In programming mode the speed of a throttle is a CV or its value.
MoveCV(B, speed) ==
    IF ~B.progMode THEN B
    ELSE IF B.editing THEN [B EXCEPT !.cv = B.base + speed, !.moved = TRUE]
    ELSE [B EXCEPT !.data = B.baseData + speed, !.moved = TRUE]

\* Speed and direction are those of now, not of when the event was sent.
HandleSpeed(B, m) ==
    LET speed == SpeedOf(B, m.cab)
        E == addNotification(B, m.cab, Order(ForwardOf(B, m.cab)), speed)
    IN  MoveCV([E EXCEPT !.sure = IF B.shown = "on" THEN @ \cup {<<"train", m.cab>>}
                                             ELSE @ \ {<<"train", m.cab>>}],
               speed)

Clamp(forward, v) ==
    IF forward THEN (IF v < Half THEN Half ELSE v) ELSE (IF v > Half THEN Half - 1 ELSE v)

\* The direction of a throttle chooses the half of the values. A train brought to
\* the head by it has there the speed of another.
HandleDirection(B, m) ==
    LET forward == ForwardOf(B, m.cab)
        lower == IF forward THEN Half ELSE 0
        E == IF B.editing THEN [B EXCEPT !.base = lower, !.cv = Clamp(forward, @)]
             ELSE [B EXCEPT !.baseData = lower, !.data = Clamp(forward, @)]
    IN  addNotification(Unsure(E, {<<"menu">>} \cup (IF B.shown = "on" /\ InView(B, m.cab) THEN {}
                                                    ELSE {<<"train", m.cab>>})), m.cab, Order(m.forward), Unchanged)

\* A train brought to the head by a function has there the speed of another.
HandleFunction(B, m) ==
    LET E == IF InView(B, m.cab) THEN B ELSE Unsure(B, {<<"train", m.cab>>})
    IN  addNotification(E, m.cab, "function", m.on)

\* With a later change lost, the display is wrong from here.
HandlePower(B, m) ==
    LET E == IF m.on THEN StartDCC(B) ELSE StopAll(B)
    IN  IF <<"lost">> \in B.sure THEN E ELSE Sure(E, <<"power">>)

HandleRemove(B, m) ==
    addNotification(IF B.shown = "on" THEN B ELSE Unsure(B, {<<"train", m.cab>>}), m.cab, "stop", 0)

Handle(B, m) ==
    CASE m.event = "wifiStart" -> WifiState(B, "wifiWaiting")
      [] m.event = "wifiOk" -> WifiState(B, "dashboard")
      [] m.event = "wifiEnd" -> WifiState(B, "noWifi")
      [] m.event = "speed" -> HandleSpeed(B, m)
      [] m.event = "direction" -> HandleDirection(B, m)
      [] m.event = "function" -> HandleFunction(B, m)
      [] m.event = "power" -> HandlePower(B, m)
      [] OTHER -> HandleRemove(B, m)

\* Faulty variant: no event is handled while a menu is shown.
HmiInterfaceLoopShy(B) ==
    IF B.queue = <<>> \/ B.state = "menu" THEN B ELSE Handle([B EXCEPT !.queue = Tail(@)], Head(B.queue))

\* One event a pass.
HmiInterfaceLoop(B) ==
    IF B.queue = <<>> THEN B ELSE Handle([B EXCEPT !.queue = Tail(@)], Head(B.queue))

-----------------------------------------------------------------------------
(* The DC cab: the bridge is driven with a duty, scaled to 100 by a change *)
(* of speed and not by a change of direction.                              *)

LaboxDC_begin ==
    [powered |-> FALSE, forward |-> TRUE, speed |-> Unchanged, duty |-> 0, scaled |-> TRUE]

\* The same speed again changes nothing.
LaboxDC_SetSpeed(d, val) ==
    IF val = d.speed THEN d ELSE [d EXCEPT !.speed = val, !.duty = val, !.scaled = TRUE]

LaboxDC_SetDirection(d, forward) ==
    IF d.forward = forward THEN d
    ELSE [d EXCEPT !.forward = forward, !.duty = d.speed, !.scaled = FALSE]

\* Power comes back forward, whatever the throttle says.
LaboxDC_Power(B, on) ==
    LET d == [B.dc EXCEPT !.powered = on]
        E == [Unsure(B, IF on THEN {<<"dc">>} ELSE {}) EXCEPT !.on = on,
                       !.dc = IF on THEN LaboxDC_SetDirection([d EXCEPT !.forward = FALSE], TRUE) ELSE d]
    IN  IF on THEN DCCOn(E) ELSE DCCOff(E)

-----------------------------------------------------------------------------
(* The calls of the rest of the program that end at the display.           *)

\* Power of the track: told when it is a change.
setMainPower(B, on) ==
    LET E == IF B.main = "DC" THEN LaboxDC_Power(B, on) ELSE [B EXCEPT !.on = on]
    IN  IF B.on = on THEN E ELSE IF on THEN DCCOn(E) ELSE DCCOff(E)

\* A throttle drives. In DC mode the DC cab only, though the display is told
\* of every one; a speed that is the one it has ends there.
Drive(B, cab, speed, forward) ==
    LET told(E) == ChangeSpeed(ChangeDirection(E, cab, forward), cab, speed)
        same == Known(B, cab) /\ B.table[cab].speed = speed /\ B.table[cab].forward = forward
        E == [B EXCEPT !.table = (cab :> [speed |-> speed, forward |-> forward]) @@ @]
    IN  IF B.main = "DC" /\ cab # DcCab THEN told(B)
        ELSE IF same THEN B
        ELSE IF B.main = "DC"
        THEN told([Sure(E, <<"dc">>) EXCEPT !.dc = LaboxDC_SetSpeed(LaboxDC_SetDirection(@, forward), speed)])
        ELSE told(E)

\* Emergency stop of all: no event tells the display.
estopAll(B) ==
    Unsure([B EXCEPT !.table = [c \in DOMAIN @ |-> [@[c] EXCEPT !.speed = 0]]],
           {<<"train", c>> : c \in DOMAIN B.table})

Function(B, cab, on) ==
    ChangeFunction([B EXCEPT !.table = IF Known(B, cab) THEN @
                                       ELSE (cab :> [speed |-> 0, forward |-> TRUE]) @@ @], cab, on)

forgetLoco(B, cab) ==
    IF ~Known(B, cab) THEN B
    ELSE LocoRemove([B EXCEPT !.table = [c \in DOMAIN @ \ {cab} |-> @[c]]], cab)
=============================================================================
