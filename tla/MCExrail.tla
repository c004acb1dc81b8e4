------------------------------ MODULE MCExrail ------------------------------
(***************************************************************************)
(* Small layouts for Exrail, as the macros of EXRAILMacros.h would lay     *)
(* them out in flash.                                                      *)
(***************************************************************************)
EXTENDS Exrail

I(op, n, m) == [op |-> op, n |-> n, m |-> m]
O(op) == I(op, 0, 0)
NoLamps == [s \in {1} |-> [RED |-> 0, AMBER |-> 0, GREEN |-> 0]]
NoZones == [s \in {} |-> {}]

\* Two trains that share a section.
Trains ==
    [code |-> <<O("AUTOSTART"), I("SETLOCO", 1, 0), I("FOLLOW", 1, 0),
                O("AUTOSTART"), I("SETLOCO", 2, 0),
                I("SEQUENCE", 1, 0), I("RESERVE", 1, 0), I("FWD", 30, 0), I("AT", 1, 0),
                I("FREE", 1, 0), I("SPEED", 0, 0), I("FOLLOW", 1, 0), O("ENDEXRAIL")>>,
     lamps |-> NoLamps, dccx |-> {}, zones |-> [s \in {1} |-> 8 .. 10], maxCommands |-> 2]

\* A signal whose handlers blink its lamps, and turnouts that change it.
Scenery ==
    [code |-> <<O("AUTOSTART"), I("BLINK", 1, 0), I("GREEN", 1, 0), I("THROW", 1, 0),
                I("TOGGLE_TURNOUT", 1, 0), I("SET", 1, 2), O("ENDTASK"),
                I("ONRED", 1, 0), I("BLINK", 2, 0), O("ENDTASK"),
                I("ONGREEN", 1, 0), O("DELAY"), I("AMBER", 1, 0), O("ENDTASK"),
                I("ONTHROW", 1, 0), I("RED", 1, 0), I("CLOSE", 2, 0), O("ENDTASK"), O("ENDEXRAIL")>>,
     lamps |-> [s \in {1} |-> [RED |-> 1, AMBER |-> 0, GREEN |-> 2]], dccx |-> {}, zones |-> NoZones, maxCommands |-> 1]

\* Nested IFs, calls that overflow the stack, a stash and speeds.
Control ==
    [code |-> <<O("AUTOSTART"), I("SETLOCO", 1, 0), I("IFRESERVE", 1, 0), I("FWD", 30, 0),
                I("IF", 1, 0), I("SPEEDUP", 10, 0), O("ELSE"), I("SLOWDOWN", 29, 0), O("ENDIF"),
                I("FREE", 1, 0), O("ELSE"), O("INVERT_DIRECTION"), O("ENDIF"), I("STASH", 1, 0),
                I("PICKUP_STASH", 1, 0), I("SEQUENCE", 1, 0), I("CALL", 1, 0), O("ENDEXRAIL")>>,
     lamps |-> NoLamps, dccx |-> {}, zones |-> [s \in {1} |-> 4 .. 10], maxCommands |-> 2]

\* Two tasks that read the loco on the programming track, and hand it on.
Reading ==
    [code |-> <<O("AUTOSTART"), O("JOIN"), O("AUTOSTART"), O("READ_LOCO1"), O("READ_LOCO2"),
                I("REV", 20, 0), I("IFLOCO", 0, 0), O("ENDTASK"), O("ENDIF"),
                I("START_SEND", 1, 0), I("FOLLOW", 9, 0),
                I("ROUTE", 1, 0), O("SAVE_SPEED"), I("SPEED_REL", 50, 0), O("RESTORE_SPEED"),
                O("ESTOPALL"), O("FORGET"), I("START_SHARED", 9, 0), O("ENDTASK"), O("ENDEXRAIL")>>,
     lamps |-> NoLamps, dccx |-> {}, zones |-> NoZones, maxCommands |-> 1]

\* A task pauses the others.
Paused ==
    [code |-> <<O("AUTOSTART"), I("SETLOCO", 1, 0), I("FWD", 30, 0), O("PAUSE"), O("DELAY"),
                O("RESUME"), I("SPEED", 0, 0), O("ENDTASK"),
                O("AUTOSTART"), I("SENDLOCO", 2, 1), I("START", 1, 0), O("RETURN"),
                I("SEQUENCE", 1, 0), I("FWD", 20, 0), O("WAITFOR"), O("KILLALL"), O("ENDEXRAIL")>>,
     lamps |-> NoLamps, dccx |-> {}, zones |-> NoZones, maxCommands |-> 1]

\* Timeouts, signals and power to wait for; sensors that start tasks.
Waiting ==
    [code |-> <<O("AUTOSTART"), I("SETLOCO", 2, 0), I("FWD", 9, 0), I("WAIT_WHILE_RED", 1, 0),
                O("ATTIMEOUT1"), I("ATTIMEOUT2", 1, 0), O("IFTIMEOUT"), O("POWEROFF"), O("ENDIF"),
                I("AFTER", 1, 0), O("AFTEROVERLOAD"), O("AT_ANALOGUE"), O("ENDTASK"),
                I("ONSENSOR", 1, 0), O("POWERON"), I("GREEN", 1, 0), O("ENDTASK"),
                I("ONBUTTON", 2, 0), I("LATCH", 1, 0), O("ENDEXRAIL")>>,
     lamps |-> NoLamps, dccx |-> {}, zones |-> NoZones, maxCommands |-> 1]

\* Handlers of block and other events, and the rest of the conditions.
Blocks ==
    [code |-> <<I("ONBLOCKENTER", 1, 0), I("IFSIGNAL", 1, "RED"), I("SPEED", 0, 0), O("ELSE"),
                I("SPEED", 15, 0), O("ENDIF"), I("IF_ROUTE", 1, 2), I("ROUTE_STATE", 1, 0), O("ENDIF"),
                I("RANDOM_FOLLOW", 1, 2), I("ROUTE", 1, 0), I("ROUTE_STATE", 1, 2), O("ENDTASK"),
                I("ONBLOCKEXIT", 1, 0), I("IFCLOSED", 1, 0), O("FREEALL"), O("CLEAR_ALL_STASH"), O("CLEAR_ANY_STASH"),
                I("CLEAR_STASH", 1, 0), O("ENDIF"), O("ENDTASK"),
                I("ONEVENT", 1, 0), I("UNLATCH", 1, 0), O("ENDEXRAIL")>>,
     lamps |-> NoLamps, dccx |-> {}, zones |-> NoZones, maxCommands |-> 2]

\* An aspect signal, another loco's throttle, tracks, and lists of pins.
Aspects ==
    [code |-> <<O("AUTOSTART"), I("SETLOCO", 1, 0), I("XFWD", 1, 20), I("ASPECT", 1, 3), I("IF_ALL", 1, 2),
                O("FUNCTION"), O("ELSE"), I("XREV", 1, 9), O("ENDIF"), I("IF_ANY", 1, -2),
                I("SET_POWER", 0, 0), O("ENDIF"), O("SET_TRACK"), I("SET_POWER", 1, 0), O("WAITFORTT"),
                I("NEOPIXEL", -1, 0), O("ENDTASK"),
                I("ONGREEN", 1, 0), O("DELAY"), I("ASPECT", 1, 1), O("ENDTASK"), O("ENDEXRAIL")>>,
     lamps |-> [s \in {1} |-> [RED |-> 1, AMBER |-> 2, GREEN |-> 3]], dccx |-> {1}, zones |-> NoZones,
     maxCommands |-> 2]

\* Events of an LCC adapter.
Lcc ==
    [code |-> <<O("AUTOSTART"), O("LCC"), O("ENDTASK"),
                O("ONLCC"), I("THROW", 1, 0), O("ENDTASK"),
                O("ONLCC"), I("CLOSE", 1, 0), O("ACON"), O("ENDTASK"), O("ENDEXRAIL")>>,
     lamps |-> NoLamps, dccx |-> {}, zones |-> NoZones, maxCommands |-> 4]

MCPrograms == {Lcc, Trains, Scenery, Control, Reading, Paused, Waiting, Blocks, Aspects}
=============================================================================
