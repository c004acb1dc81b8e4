----------------------------- MODULE MCDevices -----------------------------
(***************************************************************************)
(* Small layouts for Devices: the devices a configuration makes and what   *)
(* users, LCN and the hardware do with them.                               *)
(***************************************************************************)
EXTENDS Devices

Ask(op, id) == [op |-> op, id |-> id]
On(op, id, on) == Ask(op, id) @@ [on |-> on]
Sense(id, pin) == Ask("S3", id) @@ [pin |-> pin]
Out(id, pin, invert, default) ==
    Ask("Z3", id) @@ [pin |-> pin, invert |-> invert, default |-> default]
Point(op, id, at) == Ask(op, id) @@ [at |-> at]
Close(op, id, closed) == Ask(op, id) @@ [closed |-> closed]
Rotate(op, id, position, activity) == Ask(op, id) @@ [position |-> position, activity |-> activity]
Set(pin, on) == [op |-> "SET", pin |-> pin, on |-> on]
Both == {TRUE, FALSE}

Plan(devices, commands, most) ==
    [devices |-> devices, commands |-> commands, most |-> most, group |-> {},
     pins |-> {}, flips |-> 0, buses |-> {}, faults |-> 0]

\* Pins of the processor, a flag and a sensor only LCN knows; a group.
Polled == [Plan(<<Device("arduino", 1, 3, 0), Device("flags", 4, 1, 0), Device("arduino", 3, 2, 0)>>,
                {Sense(1, 1), Sense(2, 4), [op |-> "SMANY", pin |-> 1, count |-> 2], Ask("S1", 1), Set(4, TRUE),
                 On("S", 7, TRUE), On("S", 7, FALSE)}, 2)
           EXCEPT !.pins = {1}, !.flips = 3, !.group = {3}]

\* Two ports: one is slow and fails.
Ports == [Plan(<<Device("gpio", 1, 2, 32), Device("gpio", 3, 1, 33), Device("gpio", 4, 1, 33)>>,
               {Sense(1, 1), Sense(3, 3), Ask("RESET", 0)}, 2)
          EXCEPT !.pins = {1, 3}, !.flips = 1, !.buses = {32, 33}, !.faults = 2]

\* An expander with a servo, and an analogue input.
Expander == [Plan(<<Device("exio", 1, 2, 40), Device("ads", 3, 1, 41)>>,
                  {Sense(1, 1), Point("TSERVO", 1, 2), Close("T2", 1, FALSE),
                   Ask("RESET", 0)}, 2)
             EXCEPT !.pins = {1, 3}, !.flips = 1, !.buses = {40, 41}, !.faults = 1]

\* Shift registers.
Shifts == [Plan(<<Device("shiftin", 1, 2, 0), Device("shiftout", 3, 2, 0)>>,
                {Sense(1, 1), Out(1, 3, TRUE, FALSE), Out(2, 4, FALSE, TRUE), On("Z2", 1, TRUE),
                 On("Z2", 1, FALSE), Ask("Z1", 2)}, 3)
           EXCEPT !.pins = {1}, !.flips = 1]

\* Outputs on the processor's pins and on a port.
Lamps == [Plan(<<Device("arduino", 1, 1, 0), Device("gpio", 2, 1, 32)>>,
               {Out(1, 1, FALSE, FALSE), Out(1, 1, TRUE, TRUE), Out(2, 2, TRUE, FALSE),
                Ask("Z1", 1)} \cup {On("Z2", 1, b) : b \in Both} \cup {On("Z2", 2, b) : b \in Both}, 3)
          EXCEPT !.buses = {32}]

\* Turnouts of every kind, also of one kind in place of another.
Junction == [Plan(<<Device("exio", 1, 1, 40), Device("arduino", 2, 1, 0)>>,
                  {Point("TSERVO", 1, 1), Point("TDCC", 1, 10), Point("TVPIN", 2, 2), Ask("T1", 1)}
                  \cup {Close("T2", i, b) : i \in {1, 2}, b \in Both}
                  \cup {Close(op, i, b) : op \in {"t", "y"}, i \in {1, 3}, b \in Both}, 3)
             EXCEPT !.buses = {40}]

\* A turntable on a device and one that takes accessory packets.
Depot == [Plan(<<Device("exio", 1, 1, 40)>>,
               {Ask("IDCC", 1), Ask("IEXTT", 2) @@ [pin |-> 1], Ask("IEXTT", 3) @@ [pin |-> 1],
                Rotate("I3", 2, 1, 0), Rotate("I3", 2, 1, 2), Rotate("I3", 2, 0, 2), Rotate("I2", 1, 1, 0),
                Rotate("I2", 1, 2, 0), Rotate("IADD", 1, 1, 0) @@ [value |-> 21],
                Rotate("IADD", 1, 1, 0) @@ [value |-> 20], Rotate("IADD", 2, 1, 0) @@ [value |-> 5]}, 4)
          EXCEPT !.buses = {40}]

MCLayouts == {Polled, Ports, Expander, Shifts, Lamps, Junction, Depot}
=============================================================================
