----------------------------- MODULE XPressNet ------------------------------
(***************************************************************************)
(* The XpressNet bus (XpressNet.cpp): its devices are asked in turn        *)
(* whether they have a request; the device heard last is asked at several  *)
(* places of the round. A request is a tuple. s.wire.xnet.strayed says     *)
(* whether a reply was ever addressed to another device than the one that  *)
(* asked.                                                                  *)
(***************************************************************************)
EXTENDS CabTable

CONSTANTS
    Round,        \* UserOps: the devices in the order they are asked
    Priority      \* the places of the round that are for the device heard last

Buttons == {"light", "horn"}
BusDevices == {Round[i] : i \in DOMAIN Round}
NewXNet == [ti |-> 1, user |-> Round, directed |-> Round, dev |-> [d \in BusDevices |-> <<>>], cv |-> Ready,
            power |-> "off", reg |-> {}, memo |-> 0, strayed |-> FALSE]

BusRequests ==
    {<<"speed", 1, v>> : v \in {0, 1, 2}} \cup {<<"functions", c, F>> : c \in {1, 2}, F \in {{"light"}, Buttons}}
      \cup {<<"info", 1>>, <<"stop", 1>>, <<"off">>, <<"power", TRUE>>, <<"power", FALSE>>, <<"status">>,
            <<"accessory", 1>>, <<"accessory info", 2>>, <<"write", FALSE>>, <<"write", TRUE>>, <<"read">>,
            <<"result">>, <<"pom">>, <<"garbled">>, <<"unknown">>}

\* XNetsend to the device of this place of the round.
Reply(s) ==
    LET x == s.wire.xnet
    IN [s EXCEPT !.wire.xnet.strayed = @ \/ x.directed[x.ti] # x.user[x.ti]]

\* Asked again at once.
Again(s) == [s EXCEPT !.wire.xnet.ti = @ - 1]

-----------------------------------------------------------------------------
\* Functions of a group: a button is carried out when it differs from the one the bus
\* saw last, of whatever loco.
Fonction(s, cab, F) ==
    LET set(t, f) == IF (f \in t.wire.xnet.reg) = (f \in F) THEN t
                     ELSE With(setFn(t, cab, f, f \in F),
                               LAMBDA u : [u EXCEPT !.wire.xnet.reg = IF f \in F THEN @ \cup {f} ELSE @ \ {f}])
    IN Each(set, s, <<"light", "horn">>)

\* 0xE4, 0xE3, 0x91, 0x92: about one loco.
LocoRequest(s, r) ==
    CASE r[1] = "speed" -> setThrottle(s, r[2], r[3], TRUE)
      [] r[1] = "functions" -> Fonction(s, r[2], r[3])
      [] r[1] = "stop" -> setThrottle(s, r[2], 1, TRUE)
      [] r[1] = "info" -> Reply(s)

\* notifyXNetPower: the power, and what is said of it from now on.
notifyXNetPower(s, on, said) == [s EXCEPT !.power = on, !.wire.xnet.power = said]

\* 0x80, 0x21: about the whole station. The result of a read is given once; while it
\* is awaited that is said; of a write nothing is.
SystemRequest(s, r) ==
    CASE r[1] = "off" -> notifyXNetPower(s, FALSE, "stop")
      [] r[1] = "power" -> notifyXNetPower(s, r[2], IF r[2] THEN "normal" ELSE "off")
      [] r[1] = "status" -> Again(Reply(s))
      [] r[1] = "result" /\ s.wire.xnet.cv = <<"read", "ok">> ->
           Reply([s EXCEPT !.wire.xnet.cv = Ready])
      [] r[1] = "result" /\ s.wire.xnet.cv = <<"read", "waits">> -> Reply(s)
      [] OTHER -> s

\* 0x52, 0x42: the state of an accessory is that of the one moved last.
AccessoryRequest(s, r) ==
    Reply(IF r[1] = "accessory" THEN [s EXCEPT !.wire.xnet.memo = r[2]] ELSE s)

\* 0x23, 0x22, 0xE6: CVs; on the main track nothing is answered.
CvRequest(s, r) ==
    CASE r[1] = "read" -> Waits(CvSetup(s, "xnet", "read"), "xnet", "read")
      [] r[1] = "write" -> Waits(writeCVByte(s, "xnet", r[2]), "xnet", "write")
      [] OTHER -> s

\* XPressNet::Decodage.
Decodage(s, r) ==
    CASE r[1] \in {"speed", "functions", "stop", "info"} -> LocoRequest(s, r)
      [] r[1] \in {"off", "power", "status", "result"} -> SystemRequest(s, r)
      [] r[1] \in {"accessory", "accessory info"} -> AccessoryRequest(s, r)
      [] r[1] \in {"read", "write", "pom"} -> CvRequest(s, r)
      [] OTHER -> Reply(s)

-----------------------------------------------------------------------------
\* The device gets the fast places of the round.
Prefer(s) ==
    LET x == s.wire.xnet
    IN [s EXCEPT !.wire.xnet.user = [i \in DOMAIN @ |-> IF i \in Priority THEN x.user[x.ti] ELSE @[i]],
                 !.wire.xnet.directed = [i \in DOMAIN @ |-> IF i \in Priority THEN x.directed[x.ti] ELSE @[i]]]

\* XPressNet::Update: the next device is asked; a request that is garbled is refused.
Update(s) ==
    LET ti == IF s.wire.xnet.ti = Len(Round) THEN 1 ELSE s.wire.xnet.ti + 1
        d == s.wire.xnet.user[ti]
        r == s.wire.xnet.dev[d]
        t == [s EXCEPT !.wire.xnet.ti = ti, !.wire.xnet.dev[d] = <<>>]
    IN CASE r = <<>> -> t
         [] r = <<"garbled">> -> Reply(t)
         [] OTHER -> With(Prefer(t), LAMBDA u : Decodage(u, r))

\* Every device keeps its turn whoever is preferred, and replies go where the request
\* came from.
RoundRight(s) ==
    LET x == s.wire.xnet
    IN /\ {x.user[i] : i \in DOMAIN Round} = BusDevices
       /\ ~x.strayed
       /\ \A i \in DOMAIN Round : i \notin Priority => x.user[i] = Round[i]
=============================================================================
