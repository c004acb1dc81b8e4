----------------------------- MODULE Throttles ------------------------------
(***************************************************************************)
(* The network throttles together: WiThrottle and Z21 sessions that drive  *)
(* the same locos, come and go, fall silent, and are told what the others  *)
(* do; and the wired clients, in configurations of their own. One step is  *)
(* one transmission, one pass of a loop, or one command from elsewhere     *)
(* (EXRAIL, box), all on the main thread.                                  *)
(***************************************************************************)
EXTENDS WiThrottle, Z21Throttle, CanMarklin, XPressNet, SerialLine

CONSTANTS
    WitClients,   \* client numbers of the WiThrottle connections
    Peers,        \* addresses of the Z21 apps
    Datagrams,    \* data bytes of the requests the apps send
    WiredClients, \* sets of wired clients: without any, the network ones are there
    MaxInputs     \* bound on transmissions and commands

VARIABLES
    st,           \* the statics of the three sources, as one record
    inputs        \* how many transmissions and commands so far

vars == <<st, inputs>>

-----------------------------------------------------------------------------
\* The wired clients: which items are there, and what a pass of the main loop does
\* with them. st.wire holds their statics.

\* EXComm::Setup: the items of the configuration, in their places, that apply to the
\* mode. SPROG is for the programming mode, or for a station that joins the tracks.
addItem(name, configured, progMode, joining) ==
    IF name \notin configured \/ (name = "sprog" /\ ~progMode /\ ~joining) THEN "" ELSE name
SetupItems(configured, progMode, joining) ==
    LET all == [i \in 1 .. 4 |-> addItem(<<"z21", "can", "sprog", "xnet">>[i], configured, progMode, joining)]
        last == {i \in 1 .. 4 : all[i] # ""}
    IN SubSeq(all, 1, IF last = {} THEN 1 ELSE CHOOSE i \in last : \A j \in last : j <= i)

\* EXCommItem::begin: the bus is told that the power is off, whatever it is.
Wire(clients, items, track) ==
    [clients |-> clients, items |-> items, cycle |-> 0, track |-> track, job |-> NoJob,
     sprog |-> NewSProg, can |-> NewCan, xnet |-> NewXNet, serial |-> NewLine]

\* An item's loop. (The apps of the Z21 have actions of their own.)
ItemLoop(s, name) ==
    CASE name = "sprog" -> loopInternal(s)
      [] name = "xnet" -> Update(s)
      [] name = "can" -> loopItem(s)
      [] OTHER -> s
AlwaysLoop == {"sprog", "xnet"}

\* EXComm::loop: the items that always loop, then one of the others in its turn.
EXComm_loop(s) ==
    LET items == s.wire.items
        cycle == IF s.wire.cycle + 1 > Len(items) THEN 1 ELSE s.wire.cycle + 1
        always(t, name) == IF name \in AlwaysLoop THEN ItemLoop(t, name) ELSE t
        inTurn(t) == IF items[cycle] \in AlwaysLoop THEN t ELSE ItemLoop(t, items[cycle])
    IN With(Each(always, [s EXCEPT !.wire.cycle = cycle], items), inTurn)

\* The wired clients in a pass of the main loop.
WiredPass(s) == With(loop2(s), EXComm_loop)

WiredRight(s) == SProgAnswers(s) /\ AcksRight(s) /\ RoundRight(s) /\ LineRight(s)

-----------------------------------------------------------------------------
\* SPROG is there in some modes only; a programming track need not be.
Wires ==
    UNION {{Wire(clients, SetupItems(clients, progMode, joining), track) :
              progMode \in (IF "sprog" \in clients THEN BOOLEAN ELSE {TRUE}),
              joining \in (IF "sprog" \in clients THEN BOOLEAN ELSE {TRUE}),
              track \in (IF clients \cap {"sprog", "xnet"} # {} THEN BOOLEAN ELSE {TRUE})} : clients \in WiredClients}

Init ==
    /\ \E wire \in Wires :
         st = [tab |-> <<>>, wit |-> <<>>, stash |-> [client |-> -1, t |-> "", alive |-> FALSE],
               udp |-> <<>>, z21 |-> <<>>, rw |-> 0, power |-> FALSE, progPower |-> FALSE, turnout |-> "none",
               forgotten |-> {}, stray |-> FALSE, wire |-> wire]
    /\ inputs = 0

Input(s) == inputs < MaxInputs /\ inputs' = inputs + 1 /\ st' = s
Fns == Momentary \cup {"light"}
Wireless == st.wire.clients = {}

-----------------------------------------------------------------------------
\* Transmissions of a WiThrottle client. A loco is acquired when there is none with
\* that letter yet, or in addition.

WitControl(c) ==
    \E h \in {Heard(st, c)} :
        \/ \E on \in BOOLEAN : Input(Heartbeat(h, c, on))
        \/ Input(sendIntro(h, c))
        \/ Input(Quit(h, c))
        \/ Input([h EXCEPT !.power = TRUE])
        \/ Input([h EXCEPT !.turnout = "thrown"])

WitLocos(c) ==
    \E h \in {Heard(st, c)}, ch \in Chars :
        \/ \E cab \in Cabs : Input(AddLoco(h, c, ch, cab))
        \/ h.stash.client = -1 /\ Input(ReadLoco(h, c, ch))
        \/ Input(RemoveLoco(h, c, ch, -1))

Has(c) == \E i \in DOMAIN st.wit : st.wit[i].client = c /\ \E k \in 1 .. MaxMine : st.wit[i].mine[k].t # ""
WitDrive(c) ==
    /\ Has(c)
    /\ \E h \in {Heard(st, c)}, ch \in Chars :
        \/ \E v \in {-1, 0, 1} : Input(Speed(h, c, ch, -1, v))
        \/ Input(Direction(h, c, ch, -1, FALSE))
        \/ \E v \in {0, 1} : Input(StopAt(h, c, ch, -1, v))
        \/ \E f \in Fns, on \in BOOLEAN : Input(Function(h, c, ch, -1, f, on))
        \/ \E on \in BOOLEAN : Input(ForceFunction(h, c, ch, -1, "light", on))
        \/ Input(Query(h, c, ch, -1))

\* The network has lost the client.
WitGone(c) == Indices(st, c) # {} /\ Input(witForget(st, c))

\* The programming track has read a loco, or none.
ReadDone ==
    /\ st.stash.client # -1
    /\ \E cab \in Cabs \cup {0} :
         st' = [getLocoCallback(st, cab) EXCEPT !.stash = [client |-> -1, t |-> "", alive |-> FALSE]]
    /\ UNCHANGED inputs

WitLoop == st' = witLoop(st) /\ st' # st /\ UNCHANGED inputs

-----------------------------------------------------------------------------
\* Datagrams of an app: one request, two, the flags, the end, or a request followed
\* by a byte too many.
Z21Message(p) ==
    \E s \in {expireAll(st)} :
        \/ \E k \in Datagrams : Input(receive(s, p, Command(k), <<k>>, TRUE))
        \/ Input(receive(s, p, Command(5) \o Command(1), <<5, 1>>, TRUE))
        \/ \E b \in {0, 1} : Input(receive(s, p, Flags(b), <<b>>, TRUE))
        \/ Input(receive(s, p, Logoff, <<0>>, TRUE))
        \/ Input(receive(s, p, Logoff \o Command(1), <<0, 1>>, TRUE))
        \/ Input(receive(s, p, Append(Command(1), 9), <<1>>, FALSE))

Z21Loop == st' = expireAll(st) /\ st' # st /\ UNCHANGED inputs
Z21ReadDone == st.rw # 0 /\ st' = Z21CvValueCallback(st) /\ UNCHANGED inputs

-----------------------------------------------------------------------------
\* What the wired clients send: a line, a frame, a request that waits for its turn,
\* characters that arrive in one piece or in two.

SProgSends == "sprog" \in st.wire.clients /\ \E line \in SProgLines : Input([st EXCEPT !.wire.sprog.rx = Append(@, line)])
CanSends ==
    "can" \in st.wire.clients /\ \E f \in CanCommands : Input([st EXCEPT !.wire.can.rx = Append(@, <<inputs>> \o f)])
BusAsks ==
    /\ "xnet" \in st.wire.clients
    /\ \E d \in BusDevices, r \in BusRequests :
         (d = 1 \/ r[1] \in {"info", "status", "read"}) /\ st.wire.xnet.dev[d] = <<>> /\ Input([st EXCEPT !.wire.xnet.dev[d] = r])
SerialSends ==
    /\ "serial" \in st.wire.clients
    /\ st.wire.serial.wire = <<>>
    /\ \E n \in {2, 10} :
         \/ \E body \in Bodies : Input(Sent(st, <<"<">> \o body \o <<">">>, n, TRUE))
         \/ \E junk \in Junk : Input(Sent(st, junk, n, FALSE))
SerialArrives == st.wire.serial.wire # <<>> /\ st' = Arrived(st) /\ UNCHANGED inputs

WiredLoop == ~Wireless /\ st' = WiredPass(st) /\ st' # st /\ UNCHANGED inputs
AckTask == st.wire.can.queue # <<>> /\ st' = ackTask(st) /\ UNCHANGED inputs

\* The programming track is asked by somebody else, or is done.
CvAsked == st.wire.clients \cap {"sprog", "xnet"} # {} /\ st.wire.track /\ Input(CvSetup(st, "other", "read"))
CvEnds == st.wire.job # NoJob /\ (\E ok \in BOOLEAN : st' = CvDone(st, ok)) /\ UNCHANGED inputs

-----------------------------------------------------------------------------
\* Commands from elsewhere, and time.
Elsewhere ==
    \/ \E cab \in Cabs : Input(setThrottle(st, cab, 2, TRUE))
    \/ \E cab \in Cabs : Known(st, cab) /\ Input(forgetLoco(st, cab))
    \/ st.tab # <<>> /\ Input(estopAll(st))

Older(age, most) == IF age < 0 \/ age > most THEN age ELSE age + 1
Tick ==
    /\ st' = [st EXCEPT
         !.wit = [i \in DOMAIN @ |-> [@[i] EXCEPT !.age = Older(@, EstopTime)]],
         !.z21 = [k \in DOMAIN @ |-> [@[k] EXCEPT !.age = Older(@, Z21Time)]]]
    /\ st' # st
    /\ UNCHANGED inputs

Next ==
    \/ Wireless /\ \E c \in WitClients : WitControl(c) \/ WitLocos(c) \/ WitDrive(c) \/ WitGone(c)
    \/ Wireless /\ \E p \in Peers : Z21Message(p)
    \/ SProgSends \/ CanSends \/ BusAsks \/ SerialSends \/ SerialArrives
    \/ WiredLoop \/ AckTask \/ CvAsked \/ CvEnds
    \/ ReadDone \/ WitLoop \/ Z21Loop \/ Z21ReadDone \/ Elsewhere \/ Tick

\* Time passes, and the main loop runs both loops for ever.
Spec == Init /\ [][Next]_vars /\ WF_vars(Tick) /\ WF_vars(WitLoop) /\ WF_vars(Z21Loop)

-----------------------------------------------------------------------------
\* One session per client and one throttle per slot, with values of their types.
ThTypeOK ==
    /\ \A i, j \in DOMAIN st.wit : st.wit[i].client = st.wit[j].client => i = j
    /\ \A i, j \in DOMAIN st.z21 : (st.z21[i].client = st.z21[j].client /\ st.z21[i].client # -1) => i = j
    /\ \A i \in DOMAIN st.wit : st.wit[i].intro \in 0 .. 5 /\ st.wit[i].age \in 0 .. EstopTime + 1
    /\ \A c \in DOMAIN st.tab : st.tab[c].speed \in 0 .. 2 /\ st.tab[c].fn \subseteq Fns
    /\ Len(SetToSeq(DOMAIN st.tab)) <= MaxSlots
    /\ st.rw \in 0 .. Len(st.z21)

\* What a throttle shows of a loco is what the table says, or the change is marked
\* to be sent, whoever made it. (A WiThrottle is not told that its loco was
\* forgotten; an app that has its broadcasts off is not told anything.)
ViewsAgree ==
    /\ \A i \in DOMAIN st.wit : \A k \in 1 .. MaxMine :
          LET e == st.wit[i].mine[k]
          IN (e.t # "" /\ ~e.pending /\ e.cab \notin st.forgotten) => e.told = State(st, e.cab)
    /\ \A k \in DOMAIN st.z21 : st.z21[k].client # -1 =>
          \A c \in Cabs : st.z21[k].told[c] \in {Unknown, State(st, c)}

\* A slot of the Z21 server that was only ever sent whole messages is in step: every
\* request of a datagram was carried out, once and in order, and nothing is left in
\* its buffer, wherever that wraps. Of the wired clients: a command line carries out
\* its commands once and in order, however they arrive; SPROG takes nothing between a
\* request for a CV and its answer; the CAN bus is told what was done in the order it
\* was done; the devices of the XpressNet bus keep their turns and get their replies.
InStep ==
    /\ \A i \in DOMAIN st.udp : ~st.udp[i].odd =>
         GetCount(st.udp[i].buf) = 0 /\ st.udp[i].done = st.udp[i].sent
    /\ WiredRight(st)

\* A session whose heartbeat ran out is not removed before every loco it had is at
\* emergency stop.
TimeoutStops ==
    [][\A i \in DOMAIN st.wit :
         LET w == st.wit[i]
         IN (inputs' = inputs /\ w.hb /\ w.age > EstopTime /\ Indices(st', w.client) = {})
              => \A k \in 1 .. MaxMine :
                   (w.mine[k].t # "" /\ Known(st', w.mine[k].cab)) => st'.tab[w.mine[k].cab].speed = 1]_vars

\* The dead man's handle: a session that asked for the heartbeat and is heard no more
\* is removed; an app that is heard no more loses its slot, unless it logged off
\* (its throttle is then a new one that counts no time).
SilentEnds ==
    /\ (\E i \in DOMAIN st.wit : st.wit[i].hb) ~> ~(\E i \in DOMAIN st.wit : st.wit[i].hb)
    /\ (\E n \in DOMAIN st.udp : st.udp[n].inUse)
         ~> ((\A n \in DOMAIN st.udp : ~st.udp[n].inUse) \/ \E k \in DOMAIN st.z21 : st.z21[k].client = -1)

\* Every throttle's picture of the locos is right or about to be corrected.
ThrottlesAgree == ThTypeOK /\ ViewsAgree

\* A throttle that falls silent does not leave a train running, and ends.
DeadMansHandle == TimeoutStops /\ SilentEnds
=============================================================================
