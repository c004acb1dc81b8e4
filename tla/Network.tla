------------------------------ MODULE Network ------------------------------
(***************************************************************************)
(* The network side of the command station: the WiFi server's table of     *)
(* clients (WifiESP32.cpp), the protocol each speaks                       *)
(* (CommandDistributor.cpp, Websockets.cpp) and the one ring through which *)
(* all replies and broadcasts leave (RingStream).                          *)
(*                                                                         *)
(* WifiESP::loop is one pass on the main thread: it accepts connections,   *)
(* serves each client in turn, then writes one message out; stage says how *)
(* far the pass is. Broadcasts and late replies from the other components  *)
(* come between passes, or in the middle of a command. A reply's payload   *)
(* is a number of bytes that are the tag of the message.                   *)
(***************************************************************************)
EXTENDS RingStream, FiniteSets

CONSTANTS
    Conns,        \* the connections peers make, numbered in that order
    MaxTcp,       \* MAX_NUM_TCP_CLIENTS
    Lengths,      \* lengths of the parts of replies
    MaxMessages   \* bound on commands, broadcasts and late replies

VARIABLES
    ring,         \* outboundRing
    slots,        \* the vector clients: [conn, inUse]; client i is slots[i + 1]
    type,         \* CommandDistributor::clients
    vlcd,         \* virtualLCDClient
    stash,        \* DCCEXParser's stashTarget with the connection behind it
    wifiUp,
    connected,    \* connections whose peer is there
    fresh,        \* connections not made yet
    stage,        \* how far WifiESP::loop is: 0 between passes
    due,          \* what was committed and not read yet, as [c, conn, data]
    lost,         \* a message did not fit
    torn,         \* the server was torn down once
    stray,        \* memory outside a table was touched
    messages      \* how many messages so far

vars == <<ring, slots, type, vlcd, stash, wifiUp, connected, fresh, stage, due, lost, torn,
          stray, messages>>

WEBSOCK_CLIENT_MARKER == 128
NoStash == [c |-> NO_CLIENT, conn |-> 0]
Id(c) == c % WEBSOCK_CLIENT_MARKER
Client(i) == i - 1
Conn(c) == IF Id(c) < Len(slots) THEN slots[Id(c) + 1].conn ELSE 0

Init ==
    /\ ring = Empty /\ slots = <<>> /\ type = [c \in 0 .. MaxTcp - 1 |-> "NONE_TYPE"]
    /\ vlcd = NO_CLIENT /\ stash = NoStash /\ wifiUp = TRUE
    /\ connected = {} /\ fresh = Conns /\ stage = 0 /\ due = <<>>
    /\ lost = FALSE /\ torn = FALSE /\ stray = FALSE /\ messages = 0

-----------------------------------------------------------------------------
\* Output. A step's effect on the ring is described by a record of the ring,
\* what is due, and whether something was lost.

Out == [r |-> ring, due |-> due, lost |-> lost]

\* What commit does to the record, and what it should: the data since the mark
\* becomes due, unless it is empty or did not fit.
Commit(o, data) ==
    [r |-> commit(o.r),
     due |-> IF o.r.overflow \/ data = <<>> THEN o.due
             ELSE Append(o.due, [c |-> o.r.client, conn |-> Conn(o.r.client), data |-> data]),
     lost |-> o.lost \/ o.r.overflow]
Mark(o, c) == [o EXCEPT !.r = mark(@, c)]
Say(o, data) == [o EXCEPT !.r = print(@, data)]

\* A whole message to one client.
Message(o, c, data) == Commit(Say(Mark(o, c), data), data)

Targets(ty) ==
    LET all == SelectSeq([i \in 1 .. MaxTcp |-> i - 1], LAMBDA c : type[c] = ty)
    IN IF ty = "WEBSOCKET_TYPE" THEN [i \in DOMAIN all |-> all[i] + WEBSOCK_CLIENT_MARKER]
       ELSE all

\* Faulty variant: the reply under way is not closed before a broadcast.
broadcastMixed(o, ty, data, sofar) ==
    LET Send(p, c) == Message(p, c, data) IN FoldLeft(Send, o, Targets(ty))

\* broadcastToClients: the reply under way (sofar) is committed, every client of
\* the type gets the message, and the reply is marked again.
broadcastToClients(o, ty, data, sofar) ==
    LET open == o.r.client
        closed == IF open = NO_CLIENT THEN o ELSE Commit(o, sofar)
        Send(p, c) == Message(p, c, data)
        told == FoldLeft(Send, closed, Targets(ty))
    IN IF open = NO_CLIENT THEN told ELSE Mark(told, open)

\* broadcastReply to the command clients goes to the web sockets too.
broadcastReply(o, data, sofar) ==
    LET once == broadcastToClients(o, "COMMAND_TYPE", data, sofar)
    IN broadcastToClients(once, "WEBSOCKET_TYPE", data,
                          IF o.r.client = NO_CLIENT THEN sofar ELSE <<>>)

\* getVirtualLCDSerial, the line, commitVirtualLCDSerial.
VirtualLCD(o, data, sofar) ==
    IF vlcd = NO_CLIENT THEN o ELSE
    LET open == o.r.client
        closed == IF open = NO_CLIENT THEN o ELSE Commit(o, sofar)
        told == Message(closed, vlcd, data)
    IN IF open = NO_CLIENT THEN told ELSE Mark(told, open)

Tag(n) == [i \in 1 .. n |-> 10 + messages]

\* One command of client c (with its web socket mark): part of a reply, perhaps
\* a broadcast or a line of the display, and the rest of the reply.
Reply(o, c, n, between, m) ==
    LET first == Say(Mark(o, c), Tag(n))
        mid == CASE between = "broadcast" -> broadcastReply(first, Tag(1), Tag(n))
                 [] between = "lcd" -> VirtualLCD(first, Tag(1), Tag(n))
                 [] OTHER -> first
        split == between = "broadcast" \/ (between = "lcd" /\ vlcd # NO_CLIENT)
        rest == Say(mid, Tag(m))
    IN IF rest.r.client = NO_CLIENT THEN rest
       ELSE Commit(rest, IF split THEN Tag(m) ELSE Tag(n) \o Tag(m))

\* stashCallback answered at once because the programming track is busy: the
\* late reply is marked inside the open, empty one.
ReplyAtOnce(o, c, n) == Message(Mark(o, c), c, Tag(n))

Apply(o) == ring' = o.r /\ due' = o.due /\ lost' = o.lost

-----------------------------------------------------------------------------
\* CommandDistributor::forget. It has no check of the client's number.
forget(c) ==
    /\ stray' = (stray \/ c >= MaxTcp)
    /\ type' = [type EXCEPT ![IF c < MaxTcp THEN c ELSE 0] = IF c < MaxTcp THEN "NONE_TYPE" ELSE @]
    /\ vlcd' = IF vlcd = c THEN NO_CLIENT ELSE vlcd

\* Faulty variant: the slot of a lost client is freed but its protocol is kept.
DropKeepingType(c) ==
    /\ slots' = [slots EXCEPT ![c + 1].inUse = FALSE]
    /\ UNCHANGED <<stray, type, vlcd>>

\* NetworkClient::active finds that the peer has gone.
Drop(c) ==
    /\ slots' = [slots EXCEPT ![c + 1].inUse = FALSE]
    /\ forget(c)

Gone(c) == slots[c + 1].inUse /\ slots[c + 1].conn \notin connected

\* The start of a pass: every waiting connection gets the first free slot, or a
\* new one.
Accept ==
    /\ wifiUp /\ stage = 0
    /\ \E conn \in {k \in fresh : \A l \in fresh : k <= l} \cup {0} :
         /\ fresh' = fresh \ {conn}
         /\ connected' = (connected \cup {conn}) \ {0}
         /\ LET free == {i \in DOMAIN slots : ~slots[i].inUse}
                first == CHOOSE i \in free : \A j \in free : i <= j
                new == [conn |-> conn, inUse |-> TRUE]
            IN slots' = IF conn = 0 THEN slots
                        ELSE IF free = {} THEN Append(slots, new) ELSE [slots EXCEPT ![first] = new]
    /\ stage' = 1
    /\ UNCHANGED <<ring, type, vlcd, stash, wifiUp, due, lost, torn, stray, messages>>

\* A client is gone, or has said nothing.
Serving(c) == stage = c + 1 /\ c < Len(slots)
ServeNothing(c) ==
    /\ Serving(c)
    /\ stage' = stage + 1
    /\ IF Gone(c) THEN Drop(c) ELSE UNCHANGED <<slots, type, vlcd, stray>>
    /\ UNCHANGED <<ring, stash, wifiUp, connected, fresh, due, lost, torn, messages>>

Speaks(c) ==
    /\ Serving(c) /\ slots[c + 1].inUse /\ ~Gone(c)
    /\ messages < MaxMessages /\ messages' = messages + 1
    /\ stage' = stage + 1
    /\ UNCHANGED <<slots, wifiUp, connected, fresh, torn, stray>>

\* checkConnectionString: the answer to the upgrade is a message of its own.
Upgrade(c) ==
    /\ Speaks(c) /\ c < MaxTcp /\ type[c] = "NONE_TYPE"
    /\ type' = [type EXCEPT ![c] = "WEBSOCK_CONNECTING_TYPE"]
    /\ Apply(Message(Out, c, Tag(1)))
    /\ UNCHANGED <<vlcd, stash>>

\* The protocol of a client after its next transmission.
Protocol(c, first) ==
    CASE type[c] = "NONE_TYPE" -> first
      [] type[c] = "WEBSOCK_CONNECTING_TYPE" -> "WEBSOCKET_TYPE"
      [] OTHER -> type[c]

\* parse: a command in the client's protocol. It may ask for the display's
\* lines, or for something the programming track answers later.
parse(c) ==
    /\ Speaks(c) /\ c < MaxTcp
    /\ \E first \in {"COMMAND_TYPE", "WITHROTTLE_TYPE"} : type' = [type EXCEPT ![c] = Protocol(c, first)]
    /\ LET m == IF type'[c] = "WEBSOCKET_TYPE" THEN c + WEBSOCK_CLIENT_MARKER ELSE c
       IN \/ \E n, k \in Lengths, between \in {"", "broadcast", "lcd"} :
               /\ Apply(Reply(Out, m, n, between, k))
               /\ UNCHANGED <<vlcd, stash>>
          \/ /\ type'[c] # "WITHROTTLE_TYPE"
             /\ vlcd' = m
             /\ Apply(Reply(Out, m, 1, "", 0))
             /\ UNCHANGED stash
          \/ /\ stash = NoStash
             /\ stash' = [c |-> m, conn |-> Conn(m)]
             /\ Apply(Reply(Out, m, 0, "", 0))
             /\ UNCHANGED vlcd
          \/ /\ Apply(ReplyAtOnce(Out, m, 1))
             /\ UNCHANGED <<vlcd, stash>>

\* unmask: a ping or a close is answered without the web socket mark; anything
\* else that is not text is dropped.
Control(c) ==
    /\ Speaks(c) /\ c < MaxTcp /\ type[c] \in {"WEBSOCK_CONNECTING_TYPE", "WEBSOCKET_TYPE"}
    /\ type' = [type EXCEPT ![c] = "WEBSOCKET_TYPE"]
    /\ \/ Apply(Message(Out, c, Tag(2)))
       \/ UNCHANGED <<ring, due, lost>>
    /\ UNCHANGED <<vlcd, stash>>

\* A client beyond the table is not parsed.
ParseInvalid(c) ==
    /\ Speaks(c) /\ c >= MaxTcp
    /\ UNCHANGED <<ring, type, vlcd, stash, due, lost>>

Count == Byte(ring, 1) * 256 + Byte(ring, 2)

\* The ring after its first message is read. (Bytes that were read are forgotten.)
Sent ==
    LET Was(i) == (i - ring.pr + RingLen) % RingLen < 3 + Count
    IN [ring EXCEPT !.pr = (@ + 3 + Count) % RingLen, !.overflow = FALSE,
                    !.buf = [i \in DOMAIN @ |-> IF Was(i) THEN 0 ELSE @[i]]]

\* Faulty variant: the message stays in the ring when its client is gone.
WriteKeepingUnsent ==
    /\ wifiUp /\ stage = Len(slots) + 1
    /\ stage' = 0
    /\ IF IsEmpty(ring) \/ Conn(Byte(ring, 0)) \notin connected
       THEN UNCHANGED <<ring, due, slots, type, vlcd, stray>>
       ELSE /\ ring' = Sent
            /\ due' = IF Count = 0 \/ due = <<>> THEN due ELSE Tail(due)
            /\ UNCHANGED <<slots, type, vlcd, stray>>
    /\ UNCHANGED <<stash, wifiUp, connected, fresh, lost, torn, messages>>

\* The end of a pass: one message is read and goes to the client of that number,
\* whoever that is now. The test lets the number just after the last slot pass.
Write ==
    /\ wifiUp /\ stage = Len(slots) + 1
    /\ stage' = 0
    /\ IF IsEmpty(ring) THEN UNCHANGED <<ring, due, slots, type, vlcd, stray>>
       ELSE LET c == Id(Byte(ring, 0))
            IN /\ ring' = Sent
               /\ due' = IF Count = 0 \/ due = <<>> THEN due ELSE Tail(due)
               /\ IF c < Len(slots) /\ Gone(c) THEN Drop(c)
                  ELSE /\ stray' = (stray \/ c = Len(slots))
                       /\ UNCHANGED <<slots, type, vlcd>>
    /\ UNCHANGED <<stash, wifiUp, connected, fresh, lost, torn, messages>>

-----------------------------------------------------------------------------
\* Between passes: the other components and the peers.

Elsewhere ==
    /\ messages < MaxMessages /\ messages' = messages + 1
    /\ UNCHANGED <<slots, type, vlcd, wifiUp, connected, fresh, stage, torn, stray>>

Broadcast == Elsewhere /\ stage = 0 /\ UNCHANGED stash /\ Apply(broadcastReply(Out, Tag(1), <<>>))
\* WiThrottle::loop has its turn before the message is written.
BroadcastWit ==
    /\ Elsewhere /\ stage \in {0, Len(slots) + 1} /\ UNCHANGED stash
    /\ Apply(broadcastToClients(Out, "WITHROTTLE_TYPE", Tag(2), <<>>))
Display == Elsewhere /\ stage = 0 /\ UNCHANGED stash /\ Apply(VirtualLCD(Out, Tag(1), <<>>))

\* getAsyncReplyStream, the reply, commitAsyncReplyStream.
LateReply ==
    /\ Elsewhere /\ stage = 0 /\ stash # NoStash
    /\ Apply(Message(Out, stash.c, Tag(2)))
    /\ stash' = NoStash

\* A peer goes away.
Leave(conn) ==
    /\ conn \in connected
    /\ connected' = connected \ {conn}
    /\ UNCHANGED <<ring, slots, type, vlcd, stash, wifiUp, fresh, stage, due, lost, torn, stray, messages>>

\* teardown, from the menus or a command: the locos there are are stopped, which is
\* broadcast, and the vector is emptied. The ring and the table of types stay.
teardown ==
    /\ wifiUp /\ stage = 0 /\ ~torn
    /\ wifiUp' = FALSE /\ torn' = TRUE
    /\ \E locos \in BOOLEAN : Apply(IF locos THEN broadcastReply(Out, Tag(1), <<>>) ELSE Out)
    /\ slots' = <<>> /\ connected' = {}
    /\ UNCHANGED <<type, vlcd, stash, fresh, stage, stray, messages>>
setup ==
    /\ ~wifiUp /\ wifiUp' = TRUE
    /\ UNCHANGED <<ring, slots, type, vlcd, stash, connected, fresh, stage, due, lost, torn, stray, messages>>

Clients == 0 .. Cardinality(Conns) - 1
Pass ==
    \/ Accept \/ Write
    \/ \E c \in Clients : ServeNothing(c)
Speak == \E c \in Clients : Upgrade(c) \/ parse(c) \/ Control(c) \/ ParseInvalid(c)
Next ==
    \/ Pass \/ Speak
    \/ Broadcast \/ BroadcastWit \/ Display \/ LateReply
    \/ \E conn \in Conns : Leave(conn)
    \/ teardown \/ setup

\* The pass is taken again and again, and ends: the main loop calls it for ever.
\* A server that was torn down is set up again.
Spec == Init /\ [][Next]_vars /\ WF_vars(Pass) /\ WF_vars(setup)

-----------------------------------------------------------------------------
\* Records, positions and tables keep their types.
NTypeOK ==
    /\ ring.pw \in 0 .. RingLen - 1 /\ ring.pr \in 0 .. RingLen - 1
    /\ Len(slots) <= Cardinality(Conns) /\ stage \in 0 .. Cardinality(Conns) + 1
    /\ \A c \in DOMAIN type : type[c] \in {"NONE_TYPE", "WEBSOCK_CONNECTING_TYPE", "WEBSOCKET_TYPE",
                                          "COMMAND_TYPE", "WITHROTTLE_TYPE"}
    /\ \A i \in DOMAIN slots : slots[i].conn \in Conns
    /\ messages \in 0 .. MaxMessages

\* The bytes of the ring are the messages that were committed, whole, in order and
\* for the right client, whatever broadcasts, display lines and late replies came
\* in the middle of a reply, and wherever the ring wraps; as long as every message
\* fitted.
RingIsQueue ==
    ~lost => LET Said(msg) == msg.data # <<>>
                 Plain(d) == [c |-> d.c, data |-> d.data]
             IN SelectSeq(Messages(ring), Said) = [i \in DOMAIN due |-> Plain(due[i])]

\* Between passes no reply is left open, as long as every message fitted.
NothingOpen == ~lost => ring.client = NO_CLIENT /\ ~ring.overflow

\* A slot that is free has no protocol and no display, so that the next client in
\* it is asked again who it is (forget), unless the server was torn down. A web
\* socket keeps its display: its number is marked and forget compares without.
FreeSlotIsClean ==
    ~torn => \A i \in DOMAIN slots :
                (~slots[i].inUse /\ Client(i) < MaxTcp)
                    => type[Client(i)] = "NONE_TYPE" /\ vlcd # Client(i)

\* What was committed leaves the ring: it does not stay for ever, whoever has gone.
RingDrains == []<>(due = <<>> \/ lost)

\* What the ring holds is what was said, for whom it was said.
RingRight == NTypeOK /\ RingIsQueue

\* Nothing of a finished reply or of a client that has gone is left behind.
NothingLeft == NothingOpen /\ FreeSlotIsClean
=============================================================================
