----------------------------- MODULE CanMarklin -----------------------------
(***************************************************************************)
(* The Maerklin CAN bus (CanMarklin.cpp). The item keeps a speed and a     *)
(* direction of its own for every loco it has met. A frame is a tuple: its *)
(* number, its command and its data. Acknowledgements wait in a queue for  *)
(* a task of their own.                                                    *)
(***************************************************************************)
EXTENDS CabTable

CONSTANTS
    MaxAcks       \* depth of xQueue, 50

NewCan == [rx |-> <<>>, locos |-> <<>>, queue |-> <<>>, due |-> <<>>, acked |-> <<>>]

CanCommands ==
    {<<"speed", 1, v>> : v \in {0, 1, 2}} \cup {<<"direction", 1, d>> : d \in 0 .. 3}
      \cup {<<"function", 1, on>> : on \in BOOLEAN} \cup {<<"power", on>> : on \in BOOLEAN}
      \cup {<<"pom", 2>>, <<"stop all">>, <<"stop one", 1>>, <<"accessory">>, <<"remote">>}

\* CanMarklinLoco::findLoco.
findLoco(s, cab) ==
    IF cab \in DOMAIN s.wire.can.locos THEN s
    ELSE [s EXCEPT !.wire.can.locos = [c \in DOMAIN @ \cup {cab} |-> IF c = cab THEN [speed |-> 0, fwd |-> TRUE] ELSE @[c]]]

\* xQueueSendToBack without a wait: a full queue drops the acknowledgement.
Acknowledge(s, n) ==
    [s EXCEPT !.wire.can.due = Append(@, n),
              !.wire.can.queue = IF Len(@) < MaxAcks THEN Append(@, n) ELSE @]

CanDrive(s, cab, speed, fwd) ==
    setThrottle([s EXCEPT !.wire.can.locos[cab] = [speed |-> speed, fwd |-> fwd]], cab, speed, fwd)

\* The commands about one loco: a speed goes with the direction the bus gave last,
\* and 1 is a stop; a direction stops the loco, 0 asks for nothing and is not
\* acknowledged. Functions and CVs are not acknowledged.
LocoFrame(s, n, f) ==
    LET l == s.wire.can.locos[f[2]]
    IN CASE f[1] = "speed" -> Acknowledge(CanDrive(s, f[2], IF f[3] = 1 THEN 0 ELSE f[3], l.fwd), n)
         [] f[1] = "direction" /\ f[3] # 0 ->
              Acknowledge(CanDrive(s, f[2], 0, CASE f[3] = 1 -> TRUE [] f[3] = 2 -> FALSE [] OTHER -> ~l.fwd), n)
         [] f[1] = "function" -> setFn(s, f[2], "light", f[3])
         [] OTHER -> s

\* The system commands: the stop of one loco is for a loco that was not looked up.
SystemFrame(s, n, f) ==
    CASE f[1] = "power" -> Acknowledge([s EXCEPT !.power = f[2]], n)
      [] f[1] = "stop all" -> Acknowledge(estopAll(s), n)
      [] OTHER -> s

\* CanMarklin::loopItem: one frame.
loopItem(s) ==
    IF s.wire.can.rx = <<>> THEN s
    ELSE LET frame == Head(s.wire.can.rx)
             t == [s EXCEPT !.wire.can.rx = Tail(@)]
             f == Tail(frame)
         IN IF f[1] \in {"speed", "direction", "function", "pom"}
            THEN With(findLoco(t, f[2]), LAMBDA u : LocoFrame(u, frame[1], f))
            ELSE SystemFrame(t, frame[1], f)

\* ackTask.
ackTask(s) ==
    IF s.wire.can.queue = <<>> THEN s
    ELSE [s EXCEPT !.wire.can.acked = Append(@, Head(s.wire.can.queue)), !.wire.can.queue = Tail(@)]

\* What the bus is told was done, in the order it was done; all of it as long as the
\* queue has room.
AcksRight(s) ==
    LET told == s.wire.can.acked \o s.wire.can.queue
    IN /\ \A i, j \in DOMAIN told : i < j => told[i] < told[j]
       /\ Len(s.wire.can.due) <= MaxAcks => told = s.wire.can.due
       /\ \A i \in DOMAIN told : \E k \in DOMAIN s.wire.can.due : told[i] = s.wire.can.due[k]
=============================================================================
