------------------------------- MODULE Menus -------------------------------
(***************************************************************************)
(* The menus of the box (menuobject.cpp, menumanagement.cpp), its dialogs  *)
(* (the other menu*.cpp) and the modes of LaboxModes.cpp, as operators on  *)
(* the record B of module Dashboard, whose fields they add to:             *)
(*                                                                         *)
(*   menu, index  activeMenu, and the line selected in the list it is or   *)
(*                was opened from                                          *)
(*   step         where the dialog is; value: the CV or address read       *)
(*   wcv          the CV to write; loco: of the shuttle; task: its task    *)
(*   updated      the dialog is drawn as it is; drawn: what is drawn       *)
(*   stopTime, stopTrains   stopTimeOutRefresh, stopTrainsViewRefresh      *)
(*   behavior     progBehavior; progType: progModeType; silent             *)
(*   joined       the programming track is used as main; memoOn: its power *)
(*   eeprom       the mode to start in; restart: the processor restarts    *)
(*   ack          the dialog the programming manager works for; "none"     *)
(*   taken        another client's job took the manager over               *)
(*   cv7          whether the decoder answers for CV 7                     *)
(*   leave        what eventSelect returns: MENUEXIT or not                *)
(*                                                                         *)
(* What a list or a dialog says is left out but for what can go stale; a   *)
(* CV written is not one of the box itself.                                *)
(***************************************************************************)
EXTENDS Dashboard

\* The tree of the constructor, with the <back> begin adds to each list; dcMode
\* has no caption and does not show.
DccEntries == <<"addrRead", "cvRead", "cvWrite", "ident", "progMode", "trainView">>
Entries(main, list) ==
    CASE list = "base" -> <<"onOff">> \o (IF main = "DCC" THEN DccEntries ELSE <<>>)
                          \o <<"shuttle", "physical", "settings", "events", "info", "dcMode", "back">>
      [] list = "onOff" -> <<"on", "off", "back">>
      [] list = "trainView" -> <<"1", "2", "3", "back">>
      [] OTHER -> <<"about", "wifiInfo", "back">>

Lists == {"base", "onOff", "trainView", "info"}
Asking == {"addrRead", "cvRead", "cvWrite", "ident"}     \* dialogs that program
Holding == {"progMode", "physical", "dcMode"}            \* dialogs without time-out
Dialogs == Asking \cup Holding \cup {"shuttle", "settings", "about", "wifiInfo"}
Parent(menu) == IF menu \in {"about", "wifiInfo"} THEN "info" ELSE "base"

MenuManagement_resetMenu(B) == [B EXCEPT !.menu = "base", !.index = 1]

Redraw(B) == [B EXCEPT !.updated = FALSE]
Step(B, step) == Redraw([B EXCEPT !.step = step])
Leave(B) == [B EXCEPT !.leave = TRUE]
Smaller(a, b) == IF a < b THEN a ELSE b

-----------------------------------------------------------------------------
(* Modes.                                                                  *)

\* The next start is in main mode, whatever the type asked for.
SetNextMode(B) == IF B.behavior = "Reboot" THEN [B EXCEPT !.eeprom = "MAIN"] ELSE B

Restart(B, type) == [B EXCEPT !.eeprom = type, !.restart = TRUE]

\* What a dialog does when it opens, once the mode is right. The question for
\* CV 7 is waited for; the one for CV 8 is not.
readCV(B, dialog) == [B EXCEPT !.ack = dialog]

menuTrainAddrRead_start(B) == readCV(Step([B EXCEPT !.value = 0], "reading"), "addrRead")
menuTrainCvRead_start(B) ==
    Step([B EXCEPT !.editing = TRUE], IF B.cv > 0 THEN "fixCV" ELSE "ready")
menuTrainCvWrite_start(B) ==
    Step([B EXCEPT !.editing = TRUE], IF B.cv > 0 THEN "fixCV" ELSE "ready")
menuDecoderIdentification_start(B) ==
    IF B.cv7 THEN readCV(Step(B, "reading"), "ident") ELSE Step(B, "error")
menuProgMode_start(B) == Redraw([B EXCEPT !.stopTime = TRUE, !.stopTrains = TRUE])

Open(B, dialog) ==
    LET E == [B EXCEPT !.menu = dialog]
    IN  CASE dialog = "addrRead" -> menuTrainAddrRead_start(E)
          [] dialog = "cvRead" -> menuTrainCvRead_start(E)
          [] dialog = "cvWrite" -> menuTrainCvWrite_start(E)
          [] dialog = "ident" -> menuDecoderIdentification_start(E)
          [] OTHER -> menuProgMode_start(E)

setJoin(B, joined) == [B EXCEPT !.joined = joined]

\* In the programming mode after a restart the dialog it was made for opens.
StartProgMode(B, force) ==
    IF B.progMode /\ ~force THEN B
    ELSE LET E == [B EXCEPT !.progMode = TRUE]
             F == IF B.behavior = "Joining" THEN setJoin([E EXCEPT !.memoOn = B.on], FALSE) ELSE E
         IN  IF B.progType = "progMode" \/ (B.behavior = "Reboot" /\ B.progType \in Asking)
             THEN Open([F EXCEPT !.state = "menu"], B.progType) ELSE F

\* The power the track had comes back.
StartMainMode(B, force) ==
    IF (~B.progMode /\ ~force) \/ B.progType = "progMode" THEN B
    ELSE LET E == [B EXCEPT !.progMode = FALSE]
         IN  IF B.behavior = "Joining" THEN setMainPower(setJoin(E, TRUE), B.memoOn) ELSE E

ChangeMode(B, prog, type) ==
    IF B.progMode = prog THEN B
    ELSE IF B.behavior = "Reboot" THEN Restart(SetNextMode(B), type)
    ELSE IF prog \/ B.progType = "progMode" THEN StartProgMode(B, FALSE)
    ELSE StartMainMode(B, FALSE)

BackToMain(B) == ChangeMode(B, FALSE, "silent")

\* GetStartingMode.
GetStartingMode(B) ==
    [B EXCEPT !.progType = IF B.eeprom = "silent" THEN "MAIN" ELSE B.eeprom,
              !.progMode = B.eeprom \notin {"MAIN", "silent"},
              !.silent = B.eeprom \notin {"MAIN", "progMode"}]

\* LaboxModes::begin.
LaboxModes_begin(B) ==
    IF B.main = "DC" THEN B
    ELSE LET E == SetNextMode([B EXCEPT !.memoOn = FALSE,
                       !.progType = IF B.behavior = "ProgOnly" THEN "progMode" ELSE @])
         IN  IF B.behavior = "ProgOnly" \/ B.progMode THEN StartProgMode(E, TRUE)
             ELSE StartMainMode(E, TRUE)

-----------------------------------------------------------------------------
(* The dialogs that program: their buttons and the answers they wait for.  *)

\* At the largest value nothing is drawn again, so a value read stays in view.
RedrawBelow(B, v) == IF v < Top THEN Redraw(B) ELSE Unsure(B, {<<"menu">>})
CVUp(B) == RedrawBelow([B EXCEPT !.cv = Smaller(@ + 1, Top), !.step = "fixCV"], B.cv)
CVDown(B) == IF B.cv > 1 THEN Redraw([B EXCEPT !.cv = @ - 1, !.step = "fixCV"])
             ELSE Redraw([B EXCEPT !.cv = 0, !.step = "ready"])
Fixing(B) == B.step \in {"ready", "fixCV"}

AskCV(B) == readCV(Step([B EXCEPT !.value = Unchanged], "reading"), "cvRead")

menuTrainCvRead_eventUp(B) ==
    CASE Fixing(B) -> [CVUp(B) EXCEPT !.value = Unchanged]
      [] B.step = "fail" -> AskCV(B)
      [] B.step = "ok" -> Step(B, "fixCV")
      [] OTHER -> B

menuTrainCvRead_eventDown(B) ==
    CASE Fixing(B) -> [CVDown(B) EXCEPT !.value = Unchanged]
      [] B.step = "fail" -> Step(B, "fixCV")
      [] OTHER -> B

menuTrainCvRead_eventSelect(B) ==
    CASE B.step = "fixCV" -> AskCV(B)
      [] B.step = "reading" -> Leave(B)
      [] OTHER -> Leave(BackToMain(B))

\* Faulty variant: the answer is kept, not drawn.
cvValueCallbackSilent(B, ok) ==
    [B EXCEPT !.step = IF ok THEN "ok" ELSE "fail", !.value = IF ok THEN 1 ELSE Unchanged]
cvValueCallback(B, ok) ==
    Step([B EXCEPT !.value = IF ok THEN 1 ELSE Unchanged], IF ok THEN "ok" ELSE "fail")

Write(B) == readCV(Step(B, "writing"), "cvWrite")

menuTrainCvWrite_eventUp(B) ==
    CASE Fixing(B) -> CVUp(B)
      [] B.step = "fixValue" -> RedrawBelow([B EXCEPT !.data = Smaller(@ + 1, Top)], B.data)
      [] B.step = "fail" -> Write(B)
      [] B.step = "ok" -> [Step(B, "fixCV") EXCEPT !.editing = TRUE]
      [] OTHER -> B

menuTrainCvWrite_eventDown(B) ==
    CASE Fixing(B) -> CVDown(B)
      [] B.step = "fixValue" /\ B.data > 0 -> Redraw([B EXCEPT !.data = @ - 1])
      [] B.step = "fail" -> [Step(B, "fixCV") EXCEPT !.editing = TRUE]
      [] OTHER -> B

menuTrainCvWrite_eventSelect(B) ==
    CASE B.step = "fixCV" -> [Step(B, "fixValue") EXCEPT !.wcv = B.cv, !.editing = FALSE]
      [] B.step = "fixValue" -> [Write(B) EXCEPT !.editing = TRUE]
      [] B.step = "writing" -> Leave(B)
      [] OTHER -> Leave(BackToMain(B))

cvWriteValueCallback(B, ok) == Step(B, IF ok THEN "ok" ELSE "fail")

\* An address of 0 is none: only a positive one is an answer.
menuTrainAddrRead_eventUp(B) == IF B.step = "quit" THEN Step(B, "retry") ELSE B
menuTrainAddrRead_eventDown(B) == IF B.step = "retry" THEN Step(B, "quit") ELSE B
menuTrainAddrRead_eventSelect(B) ==
    Leave(CASE B.step = "quit" -> BackToMain(B)
            [] B.step = "retry" -> menuTrainAddrRead_start(B)
            [] OTHER -> B)
locoIdCallback(B, ok) ==
    Step([B EXCEPT !.value = IF ok THEN 1 ELSE Unchanged], IF ok THEN "quit" ELSE "retry")

menuDecoderIdentification_eventUp(B) == IF B.step = "quit" THEN Step(B, "retry") ELSE B
menuDecoderIdentification_eventDown(B) == IF B.step = "retry" THEN Step(B, "quit") ELSE B
menuDecoderIdentification_eventSelect(B) ==
    Leave(CASE B.step = "quit" -> BackToMain(B)
            [] B.step = "retry" -> menuDecoderIdentification_start(B)
            [] OTHER -> B)
cvValueIdentCallback(B, ok) == Step(B, IF ok THEN "read8" ELSE "error")

\* The manager is done: the answer goes to the dialog that asked.
Answer(B, ok) ==
    LET E == [B EXCEPT !.ack = "none"]
    IN  CASE B.ack = "cvRead" -> cvValueCallback(E, ok)
          [] B.ack = "cvWrite" -> cvWriteValueCallback(E, ok)
          [] B.ack = "addrRead" -> locoIdCallback(E, ok)
          [] B.ack = "ident" -> cvValueIdentCallback(E, ok)
          [] OTHER -> E

-----------------------------------------------------------------------------
(* The other dialogs.                                                      *)

menuProgMode_eventSelect(B) ==
    Leave(BackToMain([B EXCEPT !.stopTime = FALSE, !.stopTrains = FALSE]))

menuPhysicalMes_start(B) == Redraw([B EXCEPT !.stopTime = TRUE, !.stopTrains = TRUE])
menuPhysicalMes_eventSelect(B) == Leave([B EXCEPT !.stopTime = FALSE, !.stopTrains = FALSE])

menuInformation_start(B) == Redraw(B)

\* The shuttle: a task of EXRAIL for a loco. Stopping it stops the loco, which
\* tells the display (the state machine is held off meanwhile).
menuShuttleSample_start(B) ==
    LET loco == IF B.task = "none" /\ B.main = "DC" THEN DcCab ELSE B.loco
    IN  Step([B EXCEPT !.loco = loco],
             IF B.task # "none" THEN "stop" ELSE IF loco > 0 THEN "fixCV" ELSE "ready")

menuShuttleSample_eventUp(B) ==
    CASE Fixing(B) -> Step([B EXCEPT !.loco = IF B.main = "DCC" THEN Smaller(@ + 1, 1) ELSE @], "fixCV")
      [] B.step = "quit" -> Step(B, "stop")
      [] OTHER -> B

menuShuttleSample_eventDown(B) ==
    CASE Fixing(B) -> IF B.main = "DCC" /\ B.loco <= 1 THEN Step([B EXCEPT !.loco = 0], "ready")
                      ELSE Step(B, "fixCV")
      [] B.step = "stop" -> Step(B, "quit")
      [] OTHER -> B

menuShuttleSample_eventSelect(B) ==
    CASE B.step = "fixCV" -> Step([setMainPower(B, TRUE) EXCEPT !.task = "running"], "stop")
      [] B.step = "stop" ->
             Step([HmiInterfaceLoop(Drive(B, B.loco, 0, ForwardOf(B, B.loco))) EXCEPT !.task = "none"], "quit")
      [] OTHER -> Leave(B)

menuDcDccMode_start(B) ==
    Step([B EXCEPT !.stopTime = TRUE], IF B.main = "DC" THEN "dc" ELSE "dcc")
menuDcDccMode_eventUp(B) == IF B.step = "dc" THEN Step(B, "dcc") ELSE B
menuDcDccMode_eventDown(B) == IF B.step = "dcc" THEN Step(B, "dc") ELSE B
menuDcDccMode_eventSelect(B) ==
    Leave([B EXCEPT !.main = IF B.step = "dc" THEN "DC" ELSE "DCC", !.stopTime = FALSE, !.chosen = TRUE])

\* Railcom is compiled out: its line is reached in DCC mode and does nothing,
\* not even move on.
menuSettings_start(B) == Step(B, "exit")
menuSettings_eventUp(B) ==
    IF B.step # "exit" THEN Redraw(B) ELSE Step(B, IF B.main = "DCC" THEN "railcom" ELSE "wifi")
menuSettings_eventDown(B) ==
    IF B.step # "wifi" THEN Redraw(B) ELSE Step(B, IF B.main = "DCC" THEN "railcom" ELSE "exit")

\* The locos stop first: in DC mode the order is one for cab 0.
teardown(B) ==
    IF ~B.wifi THEN B
    ELSE LET E == [B EXCEPT !.wifi = FALSE]
         IN  IF B.main = "DCC" THEN estopAll(E) ELSE HmiInterfaceLoop(Drive(E, 0, 0, TRUE))

\* The button is still pressed for the display's pass in the middle of the
\* set up: with an event queued before, this dialog takes it once more.
menuSettings_eventSelect(B) ==
    IF B.step # "wifi" THEN Leave(B)
    ELSE IF B.wifi THEN Redraw(teardown(B))
    ELSE LET E == HmiInterfaceLoop(WifiConnected([B EXCEPT !.wifi = TRUE]))
         IN  Redraw(IF E.state = "menu" THEN teardown(E)
                    ELSE IF E.state = "dashboard" THEN [E EXCEPT !.state = "menu", !.event = "none"]
                    ELSE E)
=============================================================================
