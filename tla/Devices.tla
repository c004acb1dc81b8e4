------------------------------ MODULE Devices ------------------------------
(***************************************************************************)
(* The devices with the lists that use them, as the main loop              *)
(* (CommandStation-EX.ino) and the users run them: IODevice::loop serves a *)
(* device per pass, Sensor::checkAll scans the sensors, commands make,     *)
(* change and remove sensors, outputs, turnouts and turntables, LCN        *)
(* reports and requests, and the hardware changes, fails and comes back.   *)
(*                                                                         *)
(* Everything is one record d; its fields are described in Hal, Sensors    *)
(* and Turnouts. The layout says which devices are made at startup         *)
(* (IODeviceList.h, HAL() of EXRAIL), which commands are given and how     *)
(* much may go wrong; left counts what is left of each.                    *)
(***************************************************************************)
EXTENDS Sensors, Turnouts

CONSTANTS Layouts   \* [devices, group, commands, most, pins, flips, buses, faults]

VARIABLES d, layout, left
vars == <<d, layout, left>>

Empty == [dev |-> <<>>, next |-> Null, sens |-> <<>>, level |-> {}, shown |-> {},
          place |-> <<>>, bus |-> {}, noise |-> 0, reading |-> Null, scanDue |-> FALSE,
          group |-> {}, groupOn |-> {}, heard |-> <<>>, output |-> <<>>, turnout |-> <<>>,
          table |-> <<>>, told |-> <<>>]

\* The devices are made one after the other, then the group's pins are prepared.
Init ==
    /\ layout \in Layouts
    /\ d = groupPrepare(FoldLeft(create, [Empty EXCEPT !.bus = layout.buses], layout.devices),
                        layout.group)
    /\ left = [commands |-> layout.most, flips |-> layout.flips, faults |-> layout.faults]

Uses(what) == left[what] > 0 /\ left' = [left EXCEPT ![what] = @ - 1] /\ UNCHANGED layout

-----------------------------------------------------------------------------
(* The main loop.                                                          *)

Loop == d' = loop(d) /\ UNCHANGED <<layout, left>>
CheckAll == d' = checkAll(d) /\ UNCHANGED <<layout, left>>

-----------------------------------------------------------------------------
(* Commands.                                                               *)

\* <S id pin pullup>, <S id>; SET and RESET of EXRAIL write a pin.
parseS(D, c) ==
    CASE c.op = "S3" -> Sensor_create(D, c.id, c.pin)
      [] c.op = "S1" -> Sensor_remove(D, c.id)
      [] c.op = "SMANY" -> createMultiple(D, c.pin, c.count)
      [] OTHER -> write(D, c.pin, c.on)

\* S, s: a sensor that only LCN knows is made when it is first heard of.
LCN_sensor(D, c) ==
    setState(IF Sensor_get(D, c.id) = 0 THEN Sensor_create(D, c.id, VPIN_NONE) ELSE D, c.id, c.on)

Given(ops, c) == c \in layout.commands /\ c.op \in ops /\ Uses("commands")

SensorCommand(c) == Given({"S3", "S1", "SMANY", "SET"}, c) /\ d' = parseS(d, c)
OutputCommand(c) == Given({"Z1", "Z2", "Z3"}, c) /\ d' = parseZ(d, c)
TurnoutCommand(c) == Given({"T1", "T2", "TSERVO", "TDCC", "TVPIN"}, c) /\ d' = parseT(d, c)
TurntableCommand(c) == Given({"I2", "I3", "IDCC", "IEXTT", "IADD"}, c) /\ d' = parseI(d, c)
FromLCN(c) ==
    /\ Given({"t", "y", "S"}, c)
    /\ d' = IF c.op = "S" THEN LCN_sensor(d, c) ELSE LCN_turnout(d, c)
ResetCommand(c) == Given({"RESET"}, c) /\ d' = reset(d)

-----------------------------------------------------------------------------
(* Time: external.                                                         *)

\* (Without a _loop of its own a device is not due again for 35 minutes.)
Elapse(i) == /\ ~d.dev[i].ready /\ d.dev[i].kind \in {"gpio", "ads"}
             /\ d' = [d EXCEPT !.dev[i].ready = TRUE]
             /\ UNCHANGED <<layout, left>>
Refresh(i) == /\ ~d.dev[i].due /\ d' = [d EXCEPT !.dev[i].due = TRUE]
              /\ UNCHANGED <<layout, left>>
ScanDue == /\ ~d.scanDue /\ d' = [d EXCEPT !.scanDue = TRUE]
           /\ UNCHANGED <<layout, left>>

(* The hardware: external.                                                 *)

Flip(pin) == pin \in layout.pins /\ d' = [d EXCEPT !.level = With1(@, pin, pin \notin @)] /\ Uses("flips")
Unplug(a) == a \in d.bus /\ d' = [d EXCEPT !.bus = @ \ {a}] /\ Uses("faults")
Plug(a) == a \in layout.buses \ d.bus /\ d' = [d EXCEPT !.bus = @ \cup {a}] /\ Uses("faults")
Disturb(n) == d.noise = 0 /\ d' = [d EXCEPT !.noise = n] /\ Uses("faults")

-----------------------------------------------------------------------------
Commands == UNION {l.commands : l \in Layouts}
Buses == UNION {l.buses : l \in Layouts}
Pins == UNION {l.pins : l \in Layouts}

Command == \E c \in Commands :
    \/ SensorCommand(c)
    \/ OutputCommand(c)
    \/ TurnoutCommand(c)
    \/ TurntableCommand(c)
    \/ FromLCN(c)
    \/ ResetCommand(c)
Time == ScanDue \/ \E i \in DOMAIN d.dev : Elapse(i) \/ Refresh(i)
Hardware ==
    \/ \E pin \in Pins : Flip(pin)
    \/ \E a \in Buses : Unplug(a) \/ Plug(a)
    \/ \E n \in {1, 2 + MAX_I2C_RETRIES} : Disturb(n)

Next == Loop \/ CheckAll \/ Command \/ Time \/ Hardware

\* The main loop runs on and time goes on; nobody has to give a command.
MostDevices == 1 .. 3
Spec ==
    /\ Init /\ [][Next]_vars
    /\ WF_vars(Loop) /\ WF_vars(CheckAll) /\ WF_vars(ScanDue)
    /\ \A i \in MostDevices : WF_vars(i \in DOMAIN d.dev /\ Elapse(i))
                              /\ WF_vars(i \in DOMAIN d.dev /\ Refresh(i))

-----------------------------------------------------------------------------
Ids(list) == {list[k].id : k \in DOMAIN list}
Distinct(list) == Cardinality(Ids(list)) = Len(list)

Overlap(v, w) == PinsOf(v) \cap PinsOf(w) # {} \/ (v.addr # 0 /\ v.addr = w.addr)

\* The scan never holds a sensor that is freed, no id is twice in a list, no
\* two devices share a pin or an address whatever a configuration asks for.
DevicesSound ==
    /\ d.next \in 0 .. Len(d.dev) /\ d.reading \in {Null} \cup Ids(d.sens)
    /\ \A k \in DOMAIN d.sens : d.sens[k].latch \in 0 .. MinReadCount
    /\ Distinct(d.sens) /\ Distinct(d.output) /\ Distinct(d.turnout) /\ Distinct(d.table)
    /\ \A i, j \in DOMAIN d.dev : i = j \/ ~Overlap(d.dev[i], d.dev[j])

\* A loop pass announces a change of a sensor only when the last MinReadCount
\* scans and this one differed from what was announced, unless LCN reported it.
NoGlitch == [][ left' = left =>
    \A k \in DOMAIN d.sens :
        d'.sens[k].active # d.sens[k].active =>
            /\ d.sens[k].differs >= MinReadCount \/ d.sens[k].forced
            /\ d'.heard[d.sens[k].id] = d'.sens[k].active ]_vars

Reliable == layout.faults = 0
Sent(v) == v.kind = "shiftout" => ~v.pending

\* An output that is made or activated stands at its pin.
OutputsShow ==
    \A k \in DOMAIN d.output :
        LET o == d.output[k]
        IN  exists(d, o.pin) /\ Sent(d.dev[findDevice(d, o.pin)]) =>
                ((o.pin \in d.shown) <=> (o.active # o.invert))

\* Where the hardware of a turnout stands.
LastTold(where, value) == where \in DOMAIN d.place /\ d.place[where] = value
Stands(t, closed) ==
    CASE t.type = "servo" -> exists(d, t.at) => LastTold(<<"pin", t.at>>, closed)
      [] t.type = "dcc" -> LastTold(<<"dcc", t.at>>, ~closed)
      [] t.type = "vpin" -> exists(d, t.at) => ((t.at \in d.shown) <=> closed)
      [] OTHER -> LastTold(<<"lcn", t.id>>, ~closed)

\* A turnout stands where it was last asked to be, and that is what is kept;
\* who heard of it since it was made knows its state.
TurnoutsStand ==
    \A k \in DOMAIN d.turnout :
        LET t == d.turnout[k]
        IN  /\ \A closed \in t.wanted : t.closed = closed /\ Stands(t, closed)
            /\ t.announced => d.told[<<"turnout", t.id>>] = t.closed

\* The clients were told the position of a DCC turntable, and it has that position.
TablesKnown ==
    \A k \in DOMAIN d.table :
        LET t == d.table[k]
        IN  t.type = "dcc" /\ t.position # 0 =>
                d.told[<<"table", t.id>>] = t.position /\ getPositionValue(t, t.position) # 0

\* On devices that do not fail, what is kept, what clients were told and what
\* the hardware was told agree for every output, turnout and turntable.
HardwareFollows == Reliable => OutputsShow /\ TurnoutsStand /\ TablesKnown

-----------------------------------------------------------------------------
\* What a pin really is: a flag is what was written to it.
Actual(pin) ==
    LET i == findDevice(d, pin)
    IN  IF d.dev[i].kind = "flags" THEN pin \in d.dev[i].out ELSE pin \in d.level

\* Nothing can be said of a pin without a device, of a device that is offline or
\* does not answer (an expander that stops answering scans stays online), of a
\* pin that is driven, and of a notified sensor whose pin was in use already.
Beyond(s) ==
    \/ s.pin # VPIN_NONE /\ ~exists(d, s.pin)
    \/ s.pin # VPIN_NONE /\ LET v == d.dev[findDevice(d, s.pin)]
                            IN  v.state = "FAILED" \/ v.addr \notin {0} \cup d.bus \/ s.pin \in v.outs
    \/ s.pin # VPIN_NONE /\ ~s.poll /\ ~s.fresh

Settled(s) ==
    /\ s.active = s.input
    /\ s.pin # VPIN_NONE => s.active = Actual(s.pin)
    /\ s.active => s.id \in DOMAIN d.heard /\ d.heard[s.id]

\* An analogue input holds the last value of its pin.
Measured(v) == v.kind = "ads" /\ v.state # "FAILED" => v.in = d.level \cap PinsOf(v)

\* Once the pins rest, every sensor comes to show its pin and its being active
\* is announced, every analogue input is measured, and every output that waits
\* in a device is sent: no device and no sensor is passed over for ever,
\* whatever the others do.
SensorsSettle ==
    <>[]( /\ \A k \in DOMAIN d.sens : Beyond(d.sens[k]) \/ Settled(d.sens[k])
          /\ \A i \in DOMAIN d.dev : Sent(d.dev[i]) /\ Measured(d.dev[i]) )
=============================================================================
