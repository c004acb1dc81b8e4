-------------------------------- MODULE Box --------------------------------
(***************************************************************************)
(* The LaBox: its display and buttons, its modes and the calls of the rest *)
(* of the program that reach them. A plan says what the box is and what    *)
(* its users do:                                                           *)
(*                                                                         *)
(*   behavior   progBehavior, of the motor drivers                         *)
(*   network    "sta" or "ap"; choose: select is held at the start         *)
(*   cv7        whether decoders answer                                    *)
(*   buttons    sequences of presses; cabs, speeds: driven                 *)
(*   inputs     what else happens                                          *)
(*   most       how many of these in all                                   *)
(*                                                                         *)
(* B is the record of Menus and Dashboard, left the inputs to come,        *)
(* booting whether the mode is being chosen. A pass of the display comes   *)
(* "soon", when the display is due for a "refresh", or so "late" that the  *)
(* time in the menus is up. Presses come in the passes of the main loop;   *)
(* the passes in the middle of a command see none.                         *)
(***************************************************************************)
EXTENDS Menus

CONSTANT Plans

VARIABLES plan, B, left, booting
vars == <<plan, B, left, booting>>

Times == {"soon", "refresh", "late"}

-----------------------------------------------------------------------------
(* What a menu draws.                                                      *)

menuTrainCvRead_update(X) == <<X.menu, X.step, X.cv, X.value>>
menuTrainCvWrite_update(X) ==
    <<X.menu, X.step, IF X.step = "fixCV" THEN X.cv ELSE X.wcv, IF X.step = "fixValue" THEN X.data ELSE Unchanged>>
menuTrainAddrRead_update(X) == <<X.menu, X.step, X.value>>
menuDecoderIdentification_update(X) == <<X.menu, X.step>>
menuShuttleSample_update(X) == <<X.menu, X.step, X.loco>>
menuDcDccMode_update(X) == <<X.menu, X.step>>
menuSettings_update(X) == <<X.menu, X.step>>
menuProgMode_update(X) == <<X.menu>>
menuPhysicalMes_update(X) == <<X.menu>>
menuInformation_update(X) == <<X.menu>>
menuObject_update(X) == <<X.menu, X.index>>

Visible(X) ==
    CASE X.menu = "cvRead" -> menuTrainCvRead_update(X)
      [] X.menu = "cvWrite" -> menuTrainCvWrite_update(X)
      [] X.menu = "addrRead" -> menuTrainAddrRead_update(X)
      [] X.menu = "ident" -> menuDecoderIdentification_update(X)
      [] X.menu = "shuttle" -> menuShuttleSample_update(X)
      [] X.menu = "dcMode" -> menuDcDccMode_update(X)
      [] X.menu = "settings" -> menuSettings_update(X)
      [] X.menu = "progMode" -> menuProgMode_update(X)
      [] X.menu = "physical" -> menuPhysicalMes_update(X)
      [] X.menu \in Lists -> menuObject_update(X)
      [] OTHER -> menuInformation_update(X)

UsesCV(X) == X.menu \in {"cvRead", "cvWrite"}
Fresh(X) == X.updated /\ ~(UsesCV(X) /\ X.moved)

\* What an update changes before it draws.
Settled(X) ==
    CASE UsesCV(X) -> [X EXCEPT !.moved = FALSE, !.step = IF X.moved /\ @ = "ready" THEN "fixCV" ELSE @]
      [] X.menu = "ident" -> [X EXCEPT !.step = IF @ = "error" THEN "retry"
                                               ELSE IF @ = "read8" THEN "quit" ELSE @]
      [] OTHER -> X

\* MenuManagement::update: a list always, a dialog when it has changed.
MenuManagement_update(X) ==
    IF X.menu \in Lists THEN [X EXCEPT !.drawn = Visible(X)]
    ELSE IF Fresh(X) THEN X
    ELSE With(Settled(X), LAMBDA Y : Sure([Y EXCEPT !.updated = TRUE, !.drawn = Visible(Y)], <<"menu">>))

Blank(X) == [X EXCEPT !.drawn = <<"other">>]
dashboard(X) == Blank(X)
showWifiWaiting(X) == Blank(X)

-----------------------------------------------------------------------------
(* The buttons in the menus.                                               *)

Line(X) == Entries(X.main, X.menu)
Hidden(X, i) == Line(X)[i] = "dcMode"

menuObject_eventUp(X) ==
    LET i == IF X.index > 1 THEN X.index - 1 ELSE 1
    IN  [X EXCEPT !.index = IF Hidden(X, i) THEN i - 1 ELSE i]

menuObject_eventDown(X) ==
    LET i == Smaller(X.index + 1, Len(Line(X)))
    IN  [X EXCEPT !.index = IF Hidden(X, i) THEN i + 1 ELSE i]

BtnUpPressed(X) ==
    CASE X.menu \in Lists -> menuObject_eventUp(X)
      [] X.menu = "cvRead" -> menuTrainCvRead_eventUp(X)
      [] X.menu = "cvWrite" -> menuTrainCvWrite_eventUp(X)
      [] X.menu = "addrRead" -> menuTrainAddrRead_eventUp(X)
      [] X.menu = "ident" -> menuDecoderIdentification_eventUp(X)
      [] X.menu = "shuttle" -> menuShuttleSample_eventUp(X)
      [] X.menu = "dcMode" -> menuDcDccMode_eventUp(X)
      [] X.menu = "settings" -> menuSettings_eventUp(X)
      [] OTHER -> X

BtnDownPressed(X) ==
    CASE X.menu \in Lists -> menuObject_eventDown(X)
      [] X.menu = "cvRead" -> menuTrainCvRead_eventDown(X)
      [] X.menu = "cvWrite" -> menuTrainCvWrite_eventDown(X)
      [] X.menu = "addrRead" -> menuTrainAddrRead_eventDown(X)
      [] X.menu = "ident" -> menuDecoderIdentification_eventDown(X)
      [] X.menu = "shuttle" -> menuShuttleSample_eventDown(X)
      [] X.menu = "dcMode" -> menuDcDccMode_eventDown(X)
      [] X.menu = "settings" -> menuSettings_eventDown(X)
      [] OTHER -> X

eventSelect(X) ==
    CASE X.menu = "cvRead" -> menuTrainCvRead_eventSelect(X)
      [] X.menu = "cvWrite" -> menuTrainCvWrite_eventSelect(X)
      [] X.menu = "addrRead" -> menuTrainAddrRead_eventSelect(X)
      [] X.menu = "ident" -> menuDecoderIdentification_eventSelect(X)
      [] X.menu = "progMode" -> menuProgMode_eventSelect(X)
      [] X.menu = "physical" -> menuPhysicalMes_eventSelect(X)
      [] X.menu = "shuttle" -> menuShuttleSample_eventSelect(X)
      [] X.menu = "dcMode" -> menuDcDccMode_eventSelect(X)
      [] X.menu = "settings" -> menuSettings_eventSelect(X)
      [] OTHER -> Leave(X)

\* start() of a dialog: one that programs asks for the programming mode first.
start(X, dialog) ==
    LET Y == [X EXCEPT !.menu = dialog]
    IN  CASE dialog \in Asking \cup {"progMode"} ->
                 With(ChangeMode(X, TRUE, dialog), LAMBDA Z : IF Z.restart THEN Z ELSE Open(Z, dialog))
          [] dialog = "shuttle" -> menuShuttleSample_start(Y)
          [] dialog = "physical" -> menuPhysicalMes_start(Y)
          [] dialog = "dcMode" -> menuDcDccMode_start(Y)
          [] dialog = "settings" -> menuSettings_start(Y)
          [] OTHER -> menuInformation_start(Y)

Exit(X) == [X EXCEPT !.state = "exit"]

\* Back to the list a dialog or list came from; from the first one, out.
Back(X) ==
    IF X.menu = "base" THEN Exit(X)
    ELSE [X EXCEPT !.menu = Parent(X.menu), !.index = IF X.menu \in Lists THEN 1 ELSE @]

\* A line that is an order, not a menu.
Choose(X, line) ==
    LET Y == [X EXCEPT !.index = 1]
    IN  CASE line = "events" -> [Y EXCEPT !.state = "browse"]
          [] line \in {"on", "off"} -> Exit(setMainPower(Y, line = "on"))
          [] OTHER -> [Exit(Y) EXCEPT !.view = IF line = "1" THEN 1 ELSE IF line = "2" THEN 2 ELSE 3]

SelectLine(X) ==
    LET line == Line(X)[X.index]
    IN  CASE line = "back" -> Back(X)
          [] line \in Lists -> [X EXCEPT !.menu = line, !.index = 1]
          [] line \in Dialogs -> start(X, line)
          [] OTHER -> Choose(X, line)

\* In programming mode the dialog stays, whatever it asks for.
BtnSelectPressed(X) ==
    IF X.menu \in Lists THEN SelectLine(X)
    ELSE With(eventSelect([X EXCEPT !.leave = FALSE]),
              LAMBDA Y : IF Y.leave /\ ~Y.progMode /\ ~Y.restart THEN Back(Y) ELSE Y)

-----------------------------------------------------------------------------
(* The state machine of the display.                                       *)

Quiet(X) == [X EXCEPT !.event = "none"]
Go(X, state) == Quiet([X EXCEPT !.state = state])

\* The view of the DC train opens with what its throttle says.
ShowDcTrain(X) ==
    setTrainState(Go(X, "trains"), DcCab, Order(ForwardOf(X, DcCab)), SpeedOf(X, DcCab))

Timeout(X, when) ==
    IF ~X.progMode /\ ~X.stopTime /\ X.state = "menu" /\ when = "late" THEN Exit(X) ELSE X

Dispatch(X) ==
    CASE X.state = "dashboard" /\ X.event \in {"up", "down"} /\ X.main = "DC" ->
             IF X.shown = "on" THEN ShowDcTrain(X) ELSE X
      [] X.state = "dashboard" /\ X.event = "down" -> Go(X, "browse")
      [] X.state \in {"dashboard", "trains", "noWifi"} /\ X.event = "sel" -> Go(X, "menu")
      [] X.state = "browse" /\ X.event = "sel" -> Go(X, "dashboard")
      [] OTHER -> X

\* The view of one train drives the DC train, a step at a time; the order has
\* a pass of the display in its middle.
DriveDC(X) ==
    LET speed == SpeedOf(X, DcCab)
        forward == ForwardOf(X, DcCab)
    IN  CASE X.event = "up" -> HmiInterfaceLoop(Drive(X, DcCab, Smaller(speed + 1, Half - 1), forward))
          [] X.event = "down" -> HmiInterfaceLoop(Drive(X, DcCab, IF speed > 0 THEN speed - 1 ELSE 0, forward))
          [] X.event = "double" -> HmiInterfaceLoop(Drive(X, DcCab, speed, ~forward))
          [] OTHER -> X

TrainsView(X) ==
    IF X.stopTrains THEN X
    ELSE Quiet(Blank(IF X.view = 1 /\ X.main = "DC" THEN DriveDC(X) ELSE X))

\* The list of events is the same whatever the button.
BrowseEventLst(X) == Blank(Quiet(X))

ParametersMenu(X) ==
    With(CASE X.event = "up" -> BtnUpPressed(X)
           [] X.event = "down" -> BtnDownPressed(X)
           [] X.event = "sel" -> BtnSelectPressed(X)
           [] OTHER -> X,
         LAMBDA Y : MenuManagement_update(Quiet(Y)))

Act(X, when) ==
    LET idle == X.event = "none" /\ when = "soon"
    IN  CASE X.state = "dashboard" -> dashboard(X)
          [] X.state = "wifiWaiting" -> showWifiWaiting(X)
          [] X.state = "trains" -> IF when = "soon" THEN X ELSE TrainsView(X)
          [] X.state = "menu" -> IF idle THEN X ELSE ParametersMenu(X)
          [] X.state \in {"browse", "noWifi"} -> IF idle THEN X ELSE BrowseEventLst(X)
          [] OTHER -> With(MenuManagement_resetMenu(X), LAMBDA Y : [Y EXCEPT !.state = Home(Y)])

\* Nothing while the programming manager works.
stateMachine(X, when) ==
    IF X.ack # "none" THEN X
    ELSE With(Timeout(X, when), LAMBDA Y : With(Dispatch(Y), LAMBDA Z : Act(Z, when)))

\* hmi::update.
update(X, button, when) ==
    With(HmiInterfaceLoop(X), LAMBDA Y :
         stateMachine(IF button = "none" THEN Y ELSE [Y EXCEPT !.event = button], when))
Pass(X, when) == update(X, "none", when)

-----------------------------------------------------------------------------
(* Starts, and the network.                                                *)

\* What is set when the processor starts.
Off(eeprom) ==
    [queue |-> <<>>, state |-> "dashboard", shown |-> "off", trains |-> hmi_trains, view |-> TrainsInView,
     main |-> "DCC", progMode |-> FALSE, cv |-> 0, base |-> 0, data |-> 0, baseData |-> 0,
     editing |-> TRUE, moved |-> FALSE, table |-> <<>>, on |-> FALSE, dc |-> LaboxDC_begin,
     memo |-> memoDC, sure |-> {<<"power">>},
     menu |-> "base", index |-> 1, step |-> "none", value |-> Unchanged, wcv |-> 0, loco |-> 0,
     task |-> "none", updated |-> FALSE, drawn |-> <<"other">>, stopTime |-> FALSE,
     stopTrains |-> FALSE, behavior |-> plan.behavior, progType |-> "MAIN", silent |-> FALSE,
     joined |-> plan.behavior = "Joining", memoOn |-> FALSE, eeprom |-> eeprom, restart |-> FALSE, ack |-> "none",
     taken |-> FALSE, cv7 |-> plan.cv7, leave |-> FALSE, chosen |-> FALSE, wifi |-> FALSE,
     event |-> "none"]

\* WifiESP::setup: the display is told unless the mode is programming.
Announce(X, when) ==
    IF X.progMode THEN [X EXCEPT !.wifi = TRUE]
    ELSE Pass(WifiConnected([X EXCEPT !.wifi = TRUE]), when)

Station(X, found, when) ==
    With(IF X.progMode \/ X.silent THEN X ELSE Pass(WifiStartConnection(X), when), LAMBDA Y :
         IF found THEN Announce(Y, when)
         ELSE With(IF X.progMode THEN Y ELSE Pass(WifiEndConnection(Y), when),
                   LAMBDA Z : Announce(Z, when)))

WifiESP_setup(X, found, when) ==
    With(teardown(X), LAMBDA Y : IF plan.network = "sta" THEN Station(Y, found, when) ELSE Announce(Y, when))

LaboxDC_start(X) ==
    [X EXCEPT !.view = 1, !.table = (DcCab :> [speed |-> 0, forward |-> TRUE]) @@ @]

\* The rest of the set up once the display has begun.
Begin(X, found) ==
    With(LaboxModes_begin(WifiESP_setup(X, found, "refresh")),
         LAMBDA Y : IF Y.main = "DC" THEN LaboxDC_start(Y) ELSE Y)

-----------------------------------------------------------------------------
(* Actions.                                                                *)

Init ==
    /\ plan \in Plans
    /\ B = [Off("MAIN") EXCEPT !.restart = TRUE]
    /\ left = plan.most
    /\ booting = FALSE

Take == left > 0 /\ left' = left - 1
Running == ~B.restart /\ ~booting
Become(X) == \E Y \in {X} : B' = Y

\* The processor starts: with the up button held, in main mode; with select
\* held, it asks for the mode first.
Reboot(found) ==
    /\ B.restart
    /\ \E X \in {GetStartingMode(Off(B.eeprom))} :
          IF plan.choose /\ ~X.progMode
          THEN /\ Become(menuDcDccMode_start([X EXCEPT !.state = "menu", !.menu = "dcMode"]))
               /\ booting' = TRUE
          ELSE Become(Begin(X, found)) /\ UNCHANGED booting
    /\ UNCHANGED <<plan, left>>

HoldUp ==
    /\ B.restart
    /\ "up held" \in plan.inputs
    /\ Take
    /\ B' = [B EXCEPT !.eeprom = "MAIN"]
    /\ UNCHANGED <<plan, booting>>

\* The mode is chosen: the menus are made anew for it.
Chosen(found) ==
    /\ booting /\ B.chosen
    /\ booting' = FALSE
    /\ Become(Begin(MenuManagement_resetMenu([B EXCEPT !.chosen = FALSE]), found))
    /\ UNCHANGED <<plan, left>>

\* A pass of the main loop, or of the loop that waits for the mode; passes with
\* a press each.
Loop(presses, when) ==
    /\ ~B.restart /\ ~B.chosen
    /\ IF presses = <<>> THEN UNCHANGED left ELSE Take
    /\ Become(IF presses = <<>> THEN Pass(B, when)
              ELSE Each(LAMBDA X, button : IF X.restart \/ X.chosen THEN X ELSE update(X, button, when),
                        B, presses))
    /\ UNCHANGED <<plan, booting>>

Command(X) ==
    /\ Running
    /\ Take
    /\ Become(X)
    /\ UNCHANGED <<plan, booting>>

Drives(cab, speed, forward, when) == Command(Pass(Drive(B, cab, speed, forward), when))
Functions(cab, on, when) == "function" \in plan.inputs /\ Command(Pass(Function(B, cab, on), when))
Forgets(cab, when) == "forget" \in plan.inputs /\ Known(B, cab) /\ Command(Pass(forgetLoco(B, cab), when))
Stops == "estop" \in plan.inputs /\ Command(estopAll(B))
Powers(on) == "power" \in plan.inputs /\ Command(setMainPower(B, on))
Connects(found, when) == "wifi" \in plan.inputs /\ Command(WifiESP_setup(B, found, when))
Disconnects == "wifi" \in plan.inputs /\ Command(teardown(B))

\* The programming manager answers.
Answers(ok) ==
    /\ Running
    /\ B.ack # "none"
    /\ Become(Answer(B, ok))
    /\ UNCHANGED <<plan, left, booting>>

\* A client's job for the manager takes the place of the one it works on.
Takes ==
    /\ "job" \in plan.inputs
    /\ B.ack \in Asking
    /\ Command([B EXCEPT !.ack = "other", !.taken = TRUE])

PowerCut ==
    /\ "cut" \in plan.inputs
    /\ Take
    /\ ~B.restart
    /\ B' = [B EXCEPT !.restart = TRUE]
    /\ booting' = FALSE
    /\ UNCHANGED plan

Next ==
    \/ \E found \in BOOLEAN : Reboot(found) \/ Chosen(found)
    \/ HoldUp
    \/ \E when \in Times : \E presses \in plan.buttons \cup {<<>>} : Loop(presses, when)
    \/ \E cab \in plan.cabs, speed \in plan.speeds, forward \in BOOLEAN, when \in Times :
          Drives(cab, speed, forward, when)
    \/ \E cab \in plan.cabs, on \in BOOLEAN, when \in Times : Functions(cab, on, when)
    \/ \E cab \in plan.cabs, when \in Times : Forgets(cab, when)
    \/ Stops
    \/ \E on \in BOOLEAN : Powers(on)
    \/ \E found \in BOOLEAN, when \in Times : Connects(found, when)
    \/ Disconnects
    \/ \E ok \in BOOLEAN : Answers(ok)
    \/ Takes
    \/ PowerCut

\* The main loop runs, time passes, jobs of the manager end and a start ends.
Fairness ==
    /\ WF_vars(Loop(<<>>, "late"))
    /\ WF_vars(\E ok \in BOOLEAN : Answers(ok))
    /\ WF_vars(\E found \in BOOLEAN : Reboot(found) \/ Chosen(found))

Spec == Init /\ [][Next]_vars /\ Fairness

-----------------------------------------------------------------------------
(* Properties.                                                             *)

Shape ==
    /\ B.state \in {"dashboard", "trains", "menu", "browse", "noWifi", "wifiWaiting", "exit"}
    /\ B.shown \in {"on", "off"}
    /\ Len(B.queue) <= Room
    /\ {B.cv, B.data} \subseteq 0..Top
    /\ B.index \in 1..Len(Entries(B.main, "base"))

\* The list has a train once, and is shown only with power and a train in it.
TrainsSound ==
    /\ \A i, j \in 1..NbTrains : B.trains[i].addr = B.trains[j].addr /\ i # j => B.trains[i].addr = 0
    /\ B.state = "trains" => B.shown = "on" /\ B.trains[1].addr > 0

\* The mode is that of the dialog, and the time is held by the dialogs that
\* hold it only: a flag left set would keep the menus open for ever.
ModesSound ==
    /\ B.progMode <=> B.menu \in Asking \cup {"progMode"}
    /\ B.stopTime => B.menu \in Holding
    /\ B.menu \in {"physical", "dcMode"} => B.stopTime
    /\ B.behavior = "Joining" => (B.joined <=> ~B.progMode)

\* A dialog waits only for a job of its own; after a start in any mode, the
\* next one is in main mode.
WaitsSound ==
    /\ B.menu \in Asking /\ B.step \in {"reading", "writing"} => B.ack = B.menu \/ B.taken
    /\ B.behavior = "Reboot" /\ ~booting => B.eeprom = "MAIN"

\* The types of the state; the list of trains, the modes of the box
\* (LaboxModes.cpp) and its dialogs agree after any presses, orders, network
\* events and restarts.
BoxSound == Shape /\ (Running => TrainsSound /\ ModesSound /\ WaitsSound)

Truthful(t) ==
    t.addr > 0 /\ <<"train", t.addr>> \in B.sure =>
        /\ t.speed = SpeedOf(B, t.addr)
        /\ t.speed > 0 => t.mode = Order(ForwardOf(B, t.addr))

\* Once the events are handled, a train in the list has the speed and direction
\* of the loco table, the power shown is that of the track, the DC bridge follows
\* its throttle, and a dialog is drawn as it is (hmi.Interface.cpp, hmi.cpp, the
\* menus' update). Not so, until its next speed is told, for a train whose event
\* found no room or came without power, that an order without a speed moved to the
\* head, that the emergency stop of all stopped, or whose change in DC mode was
\* taken for a repeat of what another cab was told; nor for the power shown after
\* a lost event or one of the network.
ShowsTruth ==
    Running =>
        /\ B.queue = <<>> =>
              /\ \A i \in 1..NbTrains : Truthful(B.trains[i])
              /\ <<"power">> \in B.sure => (B.shown = "on" <=> B.on)
        /\ <<"dc">> \in B.sure => B.dc.forward = ForwardOf(B, DcCab) /\ B.dc.speed = SpeedOf(B, DcCab)
        /\ B.state = "menu" /\ B.menu \in Dialogs /\ <<"menu">> \in B.sure /\ Fresh(B) => B.drawn = Visible(B)

Resting ==
    /\ B.ack = "none" /\ B.queue = <<>>
    /\ B.menu \in Asking => B.step \notin {"reading", "writing"}
    /\ B.state = "menu" => B.progMode \/ B.stopTime
    /\ B.state \notin {"exit", "wifiWaiting"}

\* When the users stop, the box comes to rest: events handled, answers in, the
\* menus closed but for a dialog that holds them open (hmi::stateMachine). A
\* dialog whose job was taken may wait for ever.
BoxRests == <>[](booting \/ B.taken \/ (~B.restart /\ Resting))
=============================================================================
