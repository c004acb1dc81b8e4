---------------------------- MODULE Z21Throttle -----------------------------
(***************************************************************************)
(* The Z21 protocol (Z21Throttle.cpp): UDP peers hold slots of s.udp, each *)
(* with a byte buffer; a throttle of s.z21 belongs to the slot of its      *)
(* client number, is made when that slot is first seen and never deleted.  *)
(* A message on the wire is its length in two bytes, its header in two and *)
(* its data; the data are one byte here, the index of the command in       *)
(* Requests.                                                               *)
(***************************************************************************)
EXTENDS CabTable

CONSTANTS
    Z21Time,      \* Z21_TIMEOUT, in ticks
    BufSize       \* size of a CircularBuffer

ASSUME BufSizeAssumption == BufSize \in Nat \ {0}

\* The byte ring of CircularBuffer.cpp, as operators on a record of its members.
\* One byte that fills the ring is stored and reported lost.
clear == [data |-> [i \in 0 .. BufSize - 1 |-> 0], head |-> 0, tail |-> 0, full |-> FALSE, lost |-> FALSE]

GetCount(b) == IF b.full THEN BufSize ELSE (b.head - b.tail + BufSize) % BufSize

\* Faulty variant: the head is not wrapped round before it is compared.
PushUnwrapped(b, x) ==
    IF b.full THEN [b EXCEPT !.lost = TRUE]
    ELSE LET h == IF b.head = BufSize - 1 THEN b.head ELSE b.head + 1
         IN [b EXCEPT !.data[b.head] = x, !.head = h, !.full = (h = b.tail)]

Push(b, x) ==
    IF b.full THEN [b EXCEPT !.lost = TRUE]
    ELSE LET h == (b.head + 1) % BufSize
         IN [b EXCEPT !.data[b.head] = x, !.head = h, !.full = (h = b.tail)]
PushBytes(b, s) == FoldLeft(Push, b, s)

\* What is left, and what was taken. (Bytes that were taken are forgotten.)
Took(b, n) ==
    [b EXCEPT !.tail = (@ + n) % BufSize, !.full = IF n = 0 THEN @ ELSE FALSE,
              !.data = [i \in DOMAIN @ |-> IF (i - b.tail + BufSize) % BufSize < n THEN 0 ELSE @[i]]]
Peek(b, i) == b.data[(b.tail + i) % BufSize]

\* GetInt16: zero, and nothing taken, when there are fewer than two bytes.
GetInt16(b) ==
    IF GetCount(b) < 2 THEN [b |-> b, v |-> 0]
    ELSE [b |-> Took(b, 2), v |-> Peek(b, 0) + 256 * Peek(b, 1)]

\* GetBytes: nothing is taken when there are fewer.
GetBytes(b, n) ==
    IF GetCount(b) < n THEN [b |-> b, ok |-> FALSE, v |-> <<>>]
    ELSE [b |-> Took(b, n), ok |-> TRUE, v |-> [i \in 1 .. n |-> Peek(b, i - 1)]]

-----------------------------------------------------------------------------
\* The messages.

HEADER_LAN_LOGOFF == 48
HEADER_LAN_XPRESS_NET == 64
HEADER_LAN_SET_BROADCASTFLAGS == 80

\* The requests, by their data byte.
Request(op, cab, v) == [op |-> op, cab |-> cab, v |-> v]
Requests ==
    <<Request("speed", 1, 2), Request("speed", 2, 2), Request("speed", 1, 0), Request("stop", 0, 0),
      Request("function", 1, "light"), Request("info", 2, 0), Request("power", 0, FALSE),
      Request("power", 0, TRUE), Request("turnout", 0, "thrown"), Request("turnoutinfo", 0, 0),
      Request("cv", 0, 0)>>
Command(k) == <<5, 0, HEADER_LAN_XPRESS_NET, 0, k>>
Logoff == <<4, 0, HEADER_LAN_LOGOFF, 0>>
Flags(b) == <<5, 0, HEADER_LAN_SET_BROADCASTFLAGS, 0, b>>

NewThrottle(c) == [client |-> c, cabs |-> [i \in 1 .. MaxMine |-> 0], flag |-> TRUE, age |-> -1,
                   told |-> [k \in Cabs |-> Unknown]]
getOrAddThrottle(s, c) ==
    IF \E k \in DOMAIN s.z21 : s.z21[k].client = c THEN s
    ELSE [s EXCEPT !.z21 = Append(@, NewThrottle(c))]
Throttle(s, c) == CHOOSE k \in DOMAIN s.z21 : s.z21[k].client = c

-----------------------------------------------------------------------------
\* The requests that change something.

setSpeed(s, k, cab, v) ==
    LET z == getOrAddLoco(s.z21[k], cab)
        t == [s EXCEPT !.z21[k] = z]
    IN IF cab \in Mine(z) THEN setThrottle(t, cab, v, TRUE) ELSE t
setFunction(s, k, cab, f) ==
    LET z == getOrAddLoco(s.z21[k], cab)
        t == [s EXCEPT !.z21[k] = z]
    IN IF cab \in Mine(z) THEN setFn(t, cab, f, f \notin State(t, cab).fn) ELSE t
EmergencyStop(s, k) ==
    LET stop(t, i) == IF t.z21[k].cabs[i] = 0 THEN t
                      ELSE setThrottle(t, t.z21[k].cabs[i], 1, State(t, t.z21[k].cabs[i]).fwd)
    IN Each(stop, s, [i \in 1 .. MaxMine |-> i])
setTurnout(s, v) == [s EXCEPT !.turnout = v]
getTurnoutInfo(s) == [s EXCEPT !.turnout = IF @ = "none" THEN "closed" ELSE @]
cvReadProg(s, k) == IF s.rw # 0 THEN s ELSE [s EXCEPT !.rw = k]

\* What a data byte asks for; anything else is not treated.
XpressNet(s, k, b) ==
    IF b \notin DOMAIN Requests THEN s
    ELSE LET r == Requests[b]
         IN CASE r.op = "speed" -> setSpeed(s, k, r.cab, r.v)
              [] r.op = "stop" -> EmergencyStop(s, k)
              [] r.op = "function" -> setFunction(s, k, r.cab, r.v)
              [] r.op = "info" -> notifyLocoInfo(s, k, r.cab)
              [] r.op = "power" -> [s EXCEPT !.power = r.v]
              [] r.op = "turnout" -> setTurnout(s, r.v)
              [] r.op = "turnoutinfo" -> getTurnoutInfo(s)
              [] r.op = "cv" -> cvReadProg(s, k)

\* parse: one message of the buffer of slot c, for throttle k. Data that is not
\* there is whatever was on the stack: the byte 0, which no datagram of this model
\* brings together with a known header.
parse(s, k, c) ==
    LET len == GetInt16(s.udp[c + 1].buf)
        head == GetInt16(len.b)
        n == len.v - 4
        got == IF n > 0 THEN GetBytes(head.b, n) ELSE [b |-> head.b, ok |-> TRUE, v |-> <<>>]
        byte == IF got.ok /\ got.v # <<>> THEN got.v[1] ELSE 0
        t == [s EXCEPT !.udp[c + 1].buf = got.b]
    IN IF n <= 0 /\ head.v = 0 THEN t
       ELSE CASE head.v = HEADER_LAN_XPRESS_NET ->
                   [XpressNet(t, k, byte) EXCEPT !.udp[c + 1].done = Append(@, byte)]
              [] head.v = HEADER_LAN_SET_BROADCASTFLAGS ->
                   [t EXCEPT !.z21[k].flag = (byte = 1), !.udp[c + 1].done = Append(@, byte)]
              [] head.v = HEADER_LAN_LOGOFF ->
                   [t EXCEPT !.z21[k].client = -1, !.udp[c + 1].done = Append(@, 0)]
              [] OTHER -> t

\* The while loop of loop(). A throttle that has just logged off looks for its
\* buffer at client -1.
ParseAll(s, k, c) ==
    LET step(t, i) == IF GetCount(t.udp[c + 1].buf) <= 2 THEN t
                      ELSE IF t.z21[k].client = -1
                      THEN [t EXCEPT !.stray = TRUE, !.udp[c + 1].odd = TRUE]
                      ELSE parse(t, k, c)
    IN Each(step, s, [i \in 1 .. BufSize |-> i])

-----------------------------------------------------------------------------
\* loop: a slot in use has a throttle, and is given up after a time without
\* messages. A throttle that never had one does not count the time.
expire(s, c) ==
    IF ~s.udp[c + 1].inUse THEN s
    ELSE LET t == getOrAddThrottle(s, c)
             k == Throttle(t, c)
         IN [t EXCEPT !.udp[c + 1].inUse = ~(t.z21[k].age > Z21Time)]
expireAll(s) == Each(expire, s, [i \in DOMAIN s.udp |-> i - 1])

\* The slot of a peer: the one it has, the first free one, or a new one. Its buffer
\* stays as the last peer left it, and so does its throttle; power is switched on.
NewSlot(p) == [peer |-> p, inUse |-> TRUE, buf |-> clear, odd |-> FALSE, sent |-> <<>>, done |-> <<>>]
connect(s, p) ==
    LET has == {i \in DOMAIN s.udp : s.udp[i].inUse /\ s.udp[i].peer = p}
        free == {i \in DOMAIN s.udp : ~s.udp[i].inUse}
        i == IF free = {} THEN Len(s.udp) + 1 ELSE CHOOSE j \in free : \A l \in free : j <= l
        t == IF free = {} THEN [s EXCEPT !.udp = Append(@, NewSlot(p))]
             ELSE [s EXCEPT !.udp[i].peer = p, !.udp[i].inUse = TRUE]
        u == getOrAddThrottle([t EXCEPT !.power = TRUE], i - 1)
        k == Throttle(u, i - 1)
    IN IF has # {} THEN s
       ELSE [u EXCEPT !.z21[k].age = 0, !.z21[k].told = [c \in Cabs |-> Unknown]]

\* readUdpPacket and what follows, for a datagram d that says the messages said;
\* whole is false when it has bytes beside them.
receive(s, p, d, said, whole) ==
    LET t == connect(s, p)
        c == (CHOOSE i \in DOMAIN t.udp : t.udp[i].inUse /\ t.udp[i].peer = p) - 1
        u == getOrAddThrottle(t, c)
        k == Throttle(u, c)
        pushed == [u EXCEPT !.udp[c + 1].buf = PushBytes(@, d), !.z21[k].age = 0,
                            !.udp[c + 1].odd = @ \/ ~whole,
                            !.udp[c + 1].sent = said, !.udp[c + 1].done = <<>>]
    IN ParseAll(pushed, k, c)

\* Z21CvValueCallback: to the throttle that asked, wherever it belongs now.
Z21CvValueCallback(s) ==
    [s EXCEPT !.rw = 0, !.stray = @ \/ s.z21[s.rw].client = -1]
=============================================================================
