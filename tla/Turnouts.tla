----------------------------- MODULE Turnouts -----------------------------
(***************************************************************************)
(* The outputs, turnouts and turntables of Outputs.cpp, Turnouts.cpp and   *)
(* Turntables.cpp, the traffic from LCN (LCN.cpp) and the commands <Z>,    *)
(* <T>, <I> of DCCEXParser.cpp, as operators on the record D of module     *)
(* Hal, whose fields they add to:                                          *)
(*                                                                         *)
(*   output   [id, pin, invert, active]                                    *)
(*   turnout  [id, type, at, closed]; at: its pin, or accessory address    *)
(*   table    turntables [id, type, at, position, previous, positions];    *)
(*            positions: <<index, value>>, the newest first                *)
(*   told     what the clients were last told of each turnout or turntable *)
(*                                                                         *)
(* Positions of a servo are the value it takes when closed; of a turntable *)
(* the value of the position: 0 is none. Each turnout carries where it was *)
(* last asked to be (wanted) and whether it was announced since it was     *)
(* made (announced): only for the properties.                              *)
(***************************************************************************)
EXTENDS Hal

Place(list, id) == SelectInSeq(list, LAMBDA t : t.id = id)
Drop(list, id) == SelectSeq(list, LAMBDA t : t.id # id)

-----------------------------------------------------------------------------
(* Outputs.                                                                *)

\* activate: the state is kept and the pin driven.
activate(D, k, on) ==
    write([D EXCEPT !.output[k].active = on], D.output[k].pin, on # D.output[k].invert)

\* create: an output of that id is changed, a new one goes to the end.
Output_create(D, id, pin, invert, default) ==
    LET o == [id |-> id, pin |-> pin, invert |-> invert, active |-> default]
        k == Place(D.output, id)
        E == [D EXCEPT !.output = IF k = 0 THEN Append(@, o) ELSE [@ EXCEPT ![k] = o]]
    IN  write(E, pin, default # invert)

Output_remove(D, id) == [D EXCEPT !.output = Drop(@, id)]

\* <Z id state>, <Z id pin flags>, <Z id>
parseZ(D, c) ==
    CASE c.op = "Z2" -> LET k == Place(D.output, c.id)
                        IN  IF k = 0 THEN D ELSE activate(D, k, c.on)
      [] c.op = "Z3" -> Output_create(D, c.id, c.pin, c.invert, c.default)
      [] OTHER -> Output_remove(D, c.id)

-----------------------------------------------------------------------------
(* Turnouts.                                                               *)

Turnout_get(D, id) == Place(D.turnout, id)
Turnout_add(D, t) == [D EXCEPT !.turnout = Append(@, t)]
Turnout_remove(D, id) == [D EXCEPT !.turnout = Drop(@, id)]

NewTurnout(id, type, at, closed) ==
    [id |-> id, type |-> type, at |-> at, closed |-> closed, wanted |-> {}, announced |-> FALSE]

broadcastTurnout(D, k, closed) ==
    [D EXCEPT !.told = (<<"turnout", D.turnout[k].id>> :> closed) @@ @,
              !.turnout[k].announced = TRUE]

\* The state is kept; clients hear of it when it is a change.
setClosedStateOnly(D, id, closed) ==
    LET k == Turnout_get(D, id)
    IN  IF k = 0 \/ D.turnout[k].closed = closed THEN D
        ELSE broadcastTurnout([D EXCEPT !.turnout[k].closed = closed], k, closed)

\* setClosedInternal of each type.
ServoSet(D, t, closed) == writeAnalogue(D, t.at, closed)
DCCSet(D, t, closed) == Told(D, <<"dcc", t.at>>, ~closed)
VpinSet(D, t, closed) == write(D, t.at, closed)
LCNSet(D, t, closed) == Told(D, <<"lcn", t.id>>, ~closed)

setClosedInternal(D, t, closed) ==
    CASE t.type = "servo" -> ServoSet(D, t, closed)
      [] t.type = "dcc" -> DCCSet(D, t, closed)
      [] t.type = "vpin" -> VpinSet(D, t, closed)
      [] OTHER -> LCNSet(D, t, closed)

\* Faulty variant: a turnout that is there already is not moved.
setClosedOnce(D, id, closed) ==
    LET k == Turnout_get(D, id)
        E == [D EXCEPT !.turnout[k].wanted = {closed}]
    IN  CASE k = 0 -> D
          [] k # 0 /\ D.turnout[k].closed = closed -> E
          [] OTHER -> setClosedStateOnly(setClosedInternal(E, E.turnout[k], closed), id, closed)

\* The turnout is moved, then its state is kept and announced.
setClosed(D, id, closed) ==
    LET k == Turnout_get(D, id)
        E == [setClosedInternal(D, D.turnout[k], closed) EXCEPT !.turnout[k].wanted = {closed}]
    IN  IF k = 0 THEN D ELSE setClosedStateOnly(E, id, closed)

\* A turnout of the id: of the same type it is changed; of another it goes.
Recreate(D, id, type, at, closed) ==
    LET k == Turnout_get(D, id)
    IN  IF k # 0 /\ D.turnout[k].type = type
        THEN [D EXCEPT !.turnout[k].at = at, !.turnout[k].wanted = {}]
        ELSE Turnout_add(Turnout_remove(D, id), NewTurnout(id, type, at, closed))

\* A servo goes to its closed position at once; the state kept is not changed.
ServoTurnout_create(D, id, pin) ==
    writeAnalogue(Recreate(D, id, "servo", pin, TRUE), pin, TRUE)
DCCTurnout_create(D, id, address) == Recreate(D, id, "dcc", address, FALSE)
VpinTurnout_create(D, id, pin) == Recreate(D, id, "vpin", pin, TRUE)
LCNTurnout_create(D, id) ==
    LET k == Turnout_get(D, id)
    IN  IF k # 0 /\ D.turnout[k].type = "lcn" THEN D ELSE Recreate(D, id, "lcn", Null, TRUE)

\* <T id>, <T id 0|1>, <T id SERVO ...>, <T id DCC ...>, <T id VPIN ...>
parseT(D, c) ==
    CASE c.op = "T1" -> Turnout_remove(D, c.id)
      [] c.op = "T2" -> setClosed(D, c.id, c.closed)
      [] c.op = "TSERVO" -> ServoTurnout_create(D, c.id, c.at)
      [] c.op = "TDCC" -> DCCTurnout_create(D, c.id, c.at)
      [] OTHER -> VpinTurnout_create(D, c.id, c.at)

\* t, T: the state of a turnout, made when it is not known, as LCN reports it;
\* y, Y: a request to move it; the state of a sensor is in module Devices.
LCN_turnout(D, c) ==
    LET E == IF Turnout_get(D, c.id) = 0 THEN LCNTurnout_create(D, c.id) ELSE D
    IN  IF c.op = "y" THEN setClosed(D, c.id, c.closed)
        ELSE setClosedStateOnly([E EXCEPT !.turnout[Turnout_get(E, c.id)].wanted = {}], c.id, c.closed)

-----------------------------------------------------------------------------
(* Turntables.                                                             *)

Turntable_get(D, id) == Place(D.table, id)
Turntable_add(D, t) == [D EXCEPT !.table = Append(@, t)]

NewTable(id, type, at) ==
    [id |-> id, type |-> type, at |-> at, position |-> 0, previous |-> 0, positions |-> <<>>]

addPosition(D, k, index, value) ==
    [D EXCEPT !.table[k].positions = <<<<index, value>>>> \o @]

\* The newest position of that index; 0 when there is none.
getPositionValue(t, index) ==
    LET k == SelectInSeq(t.positions, LAMBDA q : q[1] = index)
    IN  IF k = 0 THEN 0 ELSE t.positions[k][2]

Moved(D, k, position) ==
    [D EXCEPT !.table[k].previous = D.table[k].position, !.table[k].position = position]

\* Position 0 sends an activity; any other takes activities 0 and 1 only.
ExttSet(D, k, position, activity) ==
    LET v == getPositionValue(D.table[k], position)
    IN  IF position # 0 /\ (activity > 1 \/ v = 0) THEN D
        ELSE writeAnalogue(Moved(D, k, position), D.table[k].at, IF position = 0 THEN 0 ELSE v)

\* A position is an accessory address and the state to set; clients are told.
DccTableSet(D, k, position) ==
    LET v == getPositionValue(D.table[k], position)
        E == Told(Moved(D, k, position), <<"dcc", v \div 2>>, v % 2 = 1)
    IN  IF position = 0 \/ v = 0 THEN D
        ELSE [E EXCEPT !.told = (<<"table", D.table[k].id>> :> position) @@ @]

\* Turntable::setPosition by a client. (No turntable is ever moving: setMoving has
\* no caller here.)
setPosition(D, k, position, activity) ==
    IF D.table[k].type = "extt" THEN ExttSet(D, k, position, activity)
    ELSE DccTableSet(D, k, position)

\* An EX-Turntable needs a device that works and a pin no other turntable has.
getByVpin(D, pin) == SelectInSeq(D.table, LAMBDA t : t.type = "extt" /\ t.at = pin)
EXTTTurntable_create(D, id, pin) ==
    IF exists(D, pin) /\ getStatus(D, pin) # "FAILED" /\ getByVpin(D, pin) = 0
    THEN addPosition(Turntable_add(D, NewTable(id, "extt", pin)), Len(D.table) + 1, 0, 0)
    ELSE D
DCCTurntable_create(D, id) ==
    addPosition(Turntable_add(D, NewTable(id, "dcc", Null)), Len(D.table) + 1, 0, 0)

\* <I id position>, <I id position activity>, <I id DCC ..>, <I id EXTT ..>, <I id ADD ..>
parseI(D, c) ==
    LET k == Turntable_get(D, c.id)
    IN  CASE c.op = "I2" /\ k # 0 /\ D.table[k].type = "dcc" -> setPosition(D, k, c.position, 0)
          [] c.op = "I3" /\ k # 0 /\ D.table[k].type = "extt" ->
                setPosition(D, k, c.position, c.activity)
          [] c.op = "IDCC" /\ k = 0 -> DCCTurntable_create(D, c.id)
          [] c.op = "IEXTT" /\ k = 0 -> EXTTTurntable_create(D, c.id, c.pin)
          [] c.op = "IADD" /\ k # 0 -> addPosition(D, k, c.position, c.value)
          [] OTHER -> D
=============================================================================
