-------------------------------- MODULE Hal --------------------------------
(***************************************************************************)
(* The hardware abstraction layer (IODevice.cpp, the drivers IO_*.h and    *)
(* I2CManager on the Wire library) as operators on a record D of all       *)
(* devices, the lists that use them and the hardware they drive:           *)
(*                                                                         *)
(*   dev    the chain of devices, in the order of _nextDevice              *)
(*   next   _nextLoopDevice as a position in dev, 0 for NULL               *)
(*   sens   the list of sensors, first first (module Sensors)              *)
(*   level  external: the input pins that are active (0 V)                 *)
(*   shown  external: the output pins that are driven high                 *)
(*   place  external: what each servo, accessory and LCN turnout was last  *)
(*          told, by <<"pin", p>>, <<"dcc", address>> or <<"lcn", id>>     *)
(*   bus    external: the I2C addresses that answer                        *)
(*   noise  external: how many of the next transfers will fail             *)
(*                                                                         *)
(* A device is a record: its driver, VPIN range, I2C address and state;    *)
(* ready: _nextEntryTime has come; due: its own refresh time has come;     *)
(* outs, used: pins in output mode, in use; in: the inputs the driver      *)
(* holds as active; out: the outputs it holds; stage, ok, buf: where its   *)
(* asynchronous read is, its status and data.                              *)
(***************************************************************************)
EXTENDS Integers, Sequences, FiniteSets, SequencesExt, TLC, Eager

CONSTANTS MAX_I2C_RETRIES
ASSUME RetriesAssumption == MAX_I2C_RETRIES \in Nat

Null == 0
VPIN_NONE == 0

Device(kind, first, n, addr) ==
    [kind |-> kind, first |-> first, n |-> n, addr |-> addr, state |-> "DORMANT",
     ready |-> TRUE, due |-> TRUE, outs |-> {}, used |-> {}, in |-> {}, out |-> {},
     stage |-> "IDLE", ok |-> TRUE, buf |-> {}, pending |-> FALSE]

owns(v, pin) == pin >= v.first /\ pin < v.first + v.n
PinsOf(v) == v.first .. v.first + v.n - 1

\* The first device of the chain that owns the pin, or Null.
findDevice(D, pin) == SelectInSeq(D.dev, LAMBDA v : owns(v, pin))

exists(D, pin) == findDevice(D, pin) # Null
getStatus(D, pin) == IF exists(D, pin) THEN D.dev[findDevice(D, pin)].state ELSE "DORMANT"
hasCallback(D, pin) == exists(D, pin) /\ D.dev[findDevice(D, pin)].kind = "gpio"

\* No device has one of the pins or the address.
checkNoOverlap(D, first, n, addr) ==
    \A i \in DOMAIN D.dev :
        /\ (n = 0 \/ D.dev[i].n = 0 \/ PinsOf(D.dev[i]) \cap (first .. first + n - 1) = {})
        /\ (addr = 0 \/ D.dev[i].addr # addr)

-----------------------------------------------------------------------------
(* I2C over Wire: a transfer is complete when the call returns.            *)

\* A transfer that is tried that many times, until one is good.
Attempt(D, addr, times) ==
    LET dead == addr \notin D.bus
    IN  [d |-> [D EXCEPT !.noise = IF @ > times THEN @ - times ELSE 0],
         ok |-> ~dead /\ D.noise < times]

I2Cread(D, addr) == Attempt(D, addr, 1 + MAX_I2C_RETRIES)
I2Cwrite(D, addr) == Attempt(D, addr, 1 + MAX_I2C_RETRIES)
checkAddress(D, addr) == Attempt(D, addr, 1)

\* The state of device i is set to s.
SetState(D, i, s) == [D EXCEPT !.dev[i].state = s]

\* reportError: the device goes offline.
reportError(D, i) == SetState(D, i, "FAILED")

-----------------------------------------------------------------------------
(* _begin of each driver.                                                  *)

GpioBegin(D, i) ==
    LET r == checkAddress(D, D.dev[i].addr)
    IN  SetState(r.d, i, IF r.ok THEN "NORMAL" ELSE "FAILED")

\* Device found; pin counts; analogue map (the version may fail).
ExioBegin(D, i) ==
    LET a == D.dev[i].addr
        found == checkAddress(D, a)
        init == I2Cread(found.d, a)
        map == I2Cread(init.d, a)
        version == I2Cread(map.d, a)
    IN  CASE ~found.ok -> reportError(found.d, i)
          [] ~init.ok -> reportError(init.d, i)
          [] ~map.ok -> reportError(map.d, i)
          [] OTHER -> version.d

AdsBegin(D, i) ==
    LET r == checkAddress(D, D.dev[i].addr)
    IN  IF r.ok THEN [r.d EXCEPT !.dev[i].stage = "STARTSCAN"] ELSE reportError(r.d, i)

\* Shift registers: the outputs are sent.
Driven(D, v, pins) == [D EXCEPT !.shown = (@ \ PinsOf(v)) \cup pins]
loopOutput(D, i) == [Driven(D, D.dev[i], D.dev[i].out) EXCEPT !.dev[i].pending = FALSE]
ShiftBegin(D, i) ==
    LET E == SetState(D, i, "NORMAL")
    IN  IF D.dev[i].kind = "shiftout" THEN loopOutput(E, i) ELSE E

Begin(D, i) ==
    CASE D.dev[i].kind = "gpio" -> GpioBegin(D, i)
      [] D.dev[i].kind = "exio" -> ExioBegin(D, i)
      [] D.dev[i].kind = "ads" -> AdsBegin(D, i)
      [] D.dev[i].kind \in {"shiftin", "shiftout"} -> ShiftBegin(D, i)
      [] OTHER -> D    \* "arduino", "dcc", "flags"

addDevice(D, v) == Begin([D EXCEPT !.dev = Append(@, v)], Len(D.dev) + 1)

\* The create functions: nothing is made that overlaps.
create(D, v) == IF checkNoOverlap(D, v.first, v.n, v.addr) THEN addDevice(D, v) ELSE D

\* IODevice::reset: every device begins again.
reset(D) ==
    Each(LAMBDA E, i : Begin([E EXCEPT !.dev[i].state = "DORMANT", !.dev[i].ready = TRUE], i),
             D, [i \in DOMAIN D.dev |-> i])

-----------------------------------------------------------------------------
(* Pins.                                                                   *)

\* Input mode: an Arduino pin or a port pin stops driving.
ToInput(D, i, pin) ==
    [D EXCEPT !.dev[i].outs = @ \ {pin}, !.dev[i].used = @ \cup {pin}, !.shown = @ \ {pin}]

configureInput(D, pin) ==
    LET i == findDevice(D, pin)
        r == I2Cread(D, D.dev[i].addr)
    IN  CASE i = Null -> D
          [] D.dev[i].kind \in {"arduino", "gpio"} -> ToInput(D, i, pin)
          [] D.dev[i].kind = "exio" -> IF r.ok THEN r.d ELSE reportError(r.d, i)
          [] OTHER -> D

\* A pin that is an output, or not in use yet, is made an input first.
NotInput(v, pin) == pin \in v.outs \/ pin \notin v.used
ArduinoRead(D, i, pin) ==
    [d |-> IF NotInput(D.dev[i], pin) THEN ToInput(D, i, pin) ELSE D, on |-> pin \in D.level]

\* Pins that are not inputs in use read inactive.
PortInputs(v, data) == (data \cap v.used) \ v.outs
GpioRefresh(D, i) ==
    LET r == I2Cread(D, D.dev[i].addr)
    IN  [r.d EXCEPT !.dev[i].in = PortInputs(D.dev[i], IF r.ok THEN D.level ELSE @)]
GpioRead(D, i, pin) ==
    LET E == IF NotInput(D.dev[i], pin) THEN GpioRefresh(ToInput(D, i, pin), i) ELSE D
    IN  [d |-> E, on |-> pin \in E.dev[i].in]

read(D, pin) ==
    LET i == findDevice(D, pin)
    IN  CASE i = Null -> [d |-> D, on |-> FALSE]
          [] D.dev[i].kind = "arduino" -> ArduinoRead(D, i, pin)
          [] D.dev[i].kind = "gpio" -> GpioRead(D, i, pin)
          [] D.dev[i].kind = "exio" ->
                [d |-> D, on |-> D.dev[i].state # "FAILED" /\ pin \in D.dev[i].in]
          [] D.dev[i].kind \in {"shiftin", "shiftout", "flags"} ->
                [d |-> D, on |-> pin \in D.dev[i].in \cup D.dev[i].out]
          [] OTHER -> [d |-> D, on |-> FALSE]

With1(S, pin, on) == IF on THEN S \cup {pin} ELSE S \ {pin}
ToOutput(D, i, pin, on) ==
    [D EXCEPT !.dev[i].outs = @ \cup {pin}, !.dev[i].used = @ \cup {pin},
              !.dev[i].out = With1(@, pin, on)]

\* A new value is sent by the next loop.
ShiftWrite(D, i, pin, on) ==
    LET old == pin \in D.dev[i].out \cup D.dev[i].in
    IN  IF old = on THEN D
        ELSE [D EXCEPT !.dev[i].out = With1(@, pin, on), !.dev[i].in = With1(@, pin, FALSE),
                       !.dev[i].pending = TRUE]

GpioWrite(D, i, pin, on) ==
    LET E == ToOutput(D, i, pin, on)
        r == I2Cwrite(E, D.dev[i].addr)
    IN  IF r.ok THEN Driven(r.d, D.dev[i], E.dev[i].out \cap E.dev[i].outs) ELSE r.d

ExioWrite(D, i, pin, on) ==
    LET r == I2Cread(D, D.dev[i].addr)
    IN  CASE D.dev[i].state = "FAILED" -> D
          [] r.ok -> [r.d EXCEPT !.shown = With1(@, pin, on)]
          [] OTHER -> reportError(r.d, i)

\* The accessory packet of DCCAccessoryDecoder and the state it carries.
Told(D, where, value) == [D EXCEPT !.place = (where :> value) @@ @]

write(D, pin, on) ==
    LET i == findDevice(D, pin)
    IN  CASE i = Null -> D
          [] D.dev[i].kind = "arduino" ->
                [ToOutput(D, i, pin, on) EXCEPT !.shown = With1(@, pin, on)]
          [] D.dev[i].kind = "gpio" -> GpioWrite(D, i, pin, on)
          [] D.dev[i].kind = "exio" -> ExioWrite(D, i, pin, on)
          [] D.dev[i].kind \in {"shiftin", "shiftout"} -> ShiftWrite(D, i, pin, on)
          [] D.dev[i].kind = "flags" -> [D EXCEPT !.dev[i].out = With1(@, pin, on)]
          [] D.dev[i].kind = "dcc" -> Told(D, <<"dcc", pin>>, on)
          [] OTHER -> D

\* Only the expander moves servos here.
writeAnalogue(D, pin, value) ==
    LET i == findDevice(D, pin)
        r == I2Cread(D, D.dev[i].addr)
    IN  CASE i = Null \/ D.dev[i].kind # "exio" \/ D.dev[i].state = "FAILED" -> D
          [] r.ok -> Told(r.d, <<"pin", pin>>, value)
          [] OTHER -> reportError(r.d, i)

-----------------------------------------------------------------------------
(* Notification: IONotifyCallback calls Sensor::inputChangeCallback, which *)
(* updates the first sensor on the pin.                                    *)

inputChangeCallback(D, pin, on) ==
    LET s == SelectInSeq(D.sens, LAMBDA t : t.pin = pin)
    IN  IF s = Null THEN D ELSE [D EXCEPT !.sens[s].input = on]

Notify(D, v, changed, now) ==
    Each(LAMBDA E, pin : IF pin \in changed THEN inputChangeCallback(E, pin, pin \in now) ELSE E,
             D, [k \in 1 .. v.n |-> v.first + k - 1])

-----------------------------------------------------------------------------
(* _loop of each driver.                                                   *)

\* A scan that is complete is compared with the last one; the next one starts.
GpioScanned(D, i) ==
    LET v == D.dev[i]
        now == PortInputs(v, IF v.ok THEN v.buf ELSE {})
        E == [D EXCEPT !.dev[i].in = now, !.dev[i].state = IF v.ok THEN "NORMAL" ELSE "FAILED"]
    IN  IF v.state = "SCANNING" THEN Notify(E, v, (v.in \ now) \cup (now \ v.in), now) ELSE D
GpioStart(E, i) ==
    LET r == I2Cread(E, E.dev[i].addr)
    IN  IF E.dev[i].state = "NORMAL"
        THEN [r.d EXCEPT !.dev[i].state = "SCANNING", !.dev[i].ok = r.ok, !.dev[i].buf = E.level]
        ELSE E
GpioLoop(D, i) ==
    [With(GpioScanned(D, i), LAMBDA E : GpioStart(E, i)) EXCEPT !.dev[i].ready = FALSE]

\* An expander that fails to answer a scan is not taken offline.
ExioLoop(D, i) ==
    LET r == I2Cread(D, D.dev[i].addr)
        E == [r.d EXCEPT !.dev[i].stage = "DIGITAL", !.dev[i].due = FALSE, !.dev[i].ok = r.ok,
                         !.dev[i].in = IF r.ok THEN D.level \cap PinsOf(D.dev[i]) ELSE @]
    IN  IF D.dev[i].due THEN E ELSE [D EXCEPT !.dev[i].stage = "IDLE"]

\* One step of trigger, wait, read, take the value.
AdsLoop(D, i) ==
    LET r == I2Cwrite(D, D.dev[i].addr)
        To(E, stage) == [E EXCEPT !.dev[i].stage = stage, !.dev[i].ok = r.ok]
    IN  CASE ~D.dev[i].ok -> reportError(D, i)
          [] D.dev[i].stage = "STARTSCAN" -> [To(r.d, "STARTREAD") EXCEPT !.dev[i].ready = FALSE]
          [] D.dev[i].stage = "STARTREAD" -> To(r.d, "GETVALUE")
          [] OTHER -> [D EXCEPT !.dev[i].stage = "STARTSCAN", !.dev[i].in = D.level \cap PinsOf(D.dev[i])]

loopInput(D, i) ==
    IF D.dev[i].due THEN [D EXCEPT !.dev[i].due = FALSE, !.dev[i].in = D.level \cap PinsOf(D.dev[i]),
                                   !.dev[i].out = {}]
    ELSE D

DeviceLoop(D, i) ==
    CASE D.dev[i].kind = "gpio" -> GpioLoop(D, i)
      [] D.dev[i].kind = "exio" -> ExioLoop(D, i)
      [] D.dev[i].kind = "ads" -> AdsLoop(D, i)
      [] D.dev[i].kind = "shiftin" -> loopInput(D, i)
      [] D.dev[i].kind = "shiftout" -> IF D.dev[i].pending THEN loopOutput(D, i) ELSE D
      [] OTHER -> [D EXCEPT !.dev[i].ready = FALSE]

\* The positions in the order of the walk, which starts at _nextLoopDevice.
Walk(D) ==
    LET n == Len(D.dev)
        start == IF D.next = Null THEN 1 ELSE D.next
    IN  [k \in 1 .. n |-> 1 + ((start + k - 2) % n)]
Runnable(D, i) == D.dev[i].state # "FAILED" /\ D.dev[i].ready
Following(D, i) == IF i = Len(D.dev) THEN Null ELSE i + 1

\* Faulty variant: every pass starts with the first device.
ServedFirst(D, i) == [DeviceLoop(D, i) EXCEPT !.next = Null]

\* IODevice::loop serves the first device that can run, and goes on after it.
Served(D, i) == [DeviceLoop(D, i) EXCEPT !.next = Following(D, i)]
Turn(D) == SelectInSeq(Walk(D), LAMBDA i : Runnable(D, i))
loop(D) == IF Turn(D) = 0 THEN D ELSE With(Walk(D)[Turn(D)], LAMBDA i : Served(D, i))

=============================================================================
