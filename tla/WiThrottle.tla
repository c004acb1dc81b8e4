----------------------------- MODULE WiThrottle -----------------------------
(***************************************************************************)
(* The sessions of the WiThrottle protocol (WiThrottle.cpp). s.wit is the  *)
(* list from firstThrottle, newest first; a session is deleted by Q, by    *)
(* its heartbeat, or when the network drops its client. Speeds are DCC     *)
(* steps: 0 stop, 1 emergency stop. The wording of the replies is left     *)
(* out; what they tell about a loco is kept in the entry's told.           *)
(***************************************************************************)
EXTENDS CabTable

CONSTANTS
    Chars,        \* throttle letters of the client
    Momentary,    \* functions that go off on release
    EstopTime     \* ESTOP_SECONDS, in ticks

NoEntry == [t |-> "", cab |-> 0, pending |-> FALSE, told |-> Unknown]
NewSession(c) == [client |-> c, hb |-> FALSE, age |-> 0, intro |-> 0,
                  mine |-> [i \in 1 .. MaxMine |-> NoEntry]]

Indices(s, c) == {i \in DOMAIN s.wit : s.wit[i].client = c}
getThrottle(s, c) == IF Indices(s, c) # {} THEN s ELSE [s EXCEPT !.wit = <<NewSession(c)>> \o @]
At(s, c) == CHOOSE i \in Indices(s, c) : \A j \in Indices(s, c) : i <= j

\* The destructor: the session leaves the list; a read that was asked by it keeps
\* the pointer.
Delete(s, i) ==
    [s EXCEPT !.wit = RemoveAt(@, i),
              !.stash.alive = @ /\ s.stash.client # s.wit[i].client]
witForget(s, c) == IF Indices(s, c) = {} THEN s ELSE Delete(s, At(s, c))

\* The start of parse: the heartbeat, and one more part of the lists a new client
\* is sent: turnouts, roster, routes and the slower heartbeat.
Heard(s, c) ==
    LET t == getThrottle(s, c)
        i == At(t, c)
    IN [t EXCEPT !.wit[i].age = 0, !.wit[i].intro = IF @ \in 1 .. 4 THEN @ + 1 ELSE @]

\* LOOPLOCOS: the entries of a throttle letter, for one loco or for all (-1).
Selected(m, ch, cab) == SelectSeq([i \in DOMAIN m |-> i],
    LAMBDA i : m[i].t # "" /\ (m[i].t = ch \/ ch = "*") /\ (cab = -1 \/ m[i].cab = cab))
SelectedCabs(s, c, ch, cab) ==
    LET m == s.wit[At(s, c)].mine IN [k \in DOMAIN Selected(m, ch, cab) |-> m[Selected(m, ch, cab)[k]].cab]

sendIntro(s, c) == [s EXCEPT !.wit[At(s, c)].intro = IF @ = 0 THEN 1 ELSE @]
Heartbeat(s, c, on) == [s EXCEPT !.wit[At(s, c)].hb = on]

\* multithrottle '+': the loco takes the first free entry, if the table and the
\* session have room; its functions are sent with it, speed and direction wait.
AddLoco(s, c, ch, cab) ==
    LET t == getSlot(s, cab)
        i == At(t, c)
        free == {k \in 1 .. MaxMine : t.wit[i].mine[k].t = ""}
        new == [t |-> ch, cab |-> cab, pending |-> TRUE, told |-> [Unknown EXCEPT !.fn = State(t, cab).fn]]
    IN IF ~Known(t, cab) \/ free = {} THEN t
       ELSE [t EXCEPT !.wit[i].mine[CHOOSE k \in free : \A l \in free : k <= l] = new]

\* multithrottle '+*': the read of the programming track answers later.
ReadLoco(s, c, ch) == [s EXCEPT !.stash = [client |-> c, t |-> ch, alive |-> TRUE]]

RemoveLoco(s, c, ch, cab) ==
    LET i == At(s, c)
        gone == ToSet(Selected(s.wit[i].mine, ch, cab))
    IN [s EXCEPT !.wit[i].mine = [k \in DOMAIN @ |-> IF k \in gone THEN [@[k] EXCEPT !.t = ""] ELSE @[k]]]

\* locoAction, loco by loco.
WiTToDCCSpeed(v) == CASE v = 0 -> 0 [] v = -1 -> 1 [] OTHER -> v + 1
Speed(s, c, ch, cab, v) ==
    LET one(t, k) == setThrottle(t, k, WiTToDCCSpeed(v), State(t, k).fwd)
    IN Each(one, s, SelectedCabs(s, c, ch, cab))
Direction(s, c, ch, cab, fwd) ==
    LET one(t, k) == setThrottle(t, k, State(t, k).speed, fwd)
    IN Each(one, s, SelectedCabs(s, c, ch, cab))
StopAt(s, c, ch, cab, speed) ==
    LET one(t, k) == setThrottle(t, k, speed, State(t, k).fwd)
    IN Each(one, s, SelectedCabs(s, c, ch, cab))
Function(s, c, ch, cab, f, pressed) ==
    LET one(t, k) == IF f \in Momentary THEN setFn(t, k, f, pressed)
                     ELSE IF pressed THEN changeFn(t, k, f) ELSE t
    IN Each(one, s, SelectedCabs(s, c, ch, cab))
ForceFunction(s, c, ch, cab, f, on) ==
    LET one(t, k) == setFn(t, k, f, on) IN Each(one, s, SelectedCabs(s, c, ch, cab))
Query(s, c, ch, cab) ==
    LET i == At(s, c)
        asked == ToSet(Selected(s.wit[i].mine, ch, cab))
    IN [s EXCEPT !.wit[i].mine = [k \in DOMAIN @ |-> IF k \in asked THEN [@[k] EXCEPT !.pending = TRUE] ELSE @[k]]]

Quit(s, c) == Delete(s, At(s, c))

\* getLocoCallback: the loco read is added to the session that asked, and the tracks
\* are joined and powered. A session that is gone is written to all the same.
getLocoCallback(s, cab) ==
    LET added == IF s.stash.alive THEN AddLoco(s, s.stash.client, s.stash.t, cab)
                 ELSE [getSlot(s, cab) EXCEPT !.stray = TRUE]
    IN IF cab = 0 THEN s ELSE [added EXCEPT !.power = TRUE]

-----------------------------------------------------------------------------
\* checkHeartbeat, when the time is up: the locos are stopped, the session deleted.
\* loop then reads nextThrottle from the deleted object.
\* Faulty variant: the first loco is stopped only.
TimeUpOne(s, i) ==
    LET m == s.wit[i].mine
        sel == Selected(m, "*", -1)
    IN [Delete(IF sel = <<>> THEN s ELSE setThrottle(s, m[sel[1]].cab, 1, State(s, m[sel[1]].cab).fwd), i)
          EXCEPT !.stray = TRUE]

TimeUp(s, i) ==
    LET m == s.wit[i].mine
        stop(t, k) == setThrottle(t, m[k].cab, 1, State(t, m[k].cab).fwd)
    IN [Delete(Each(stop, s, Selected(m, "*", -1)), i) EXCEPT !.stray = TRUE]

\* Otherwise what is pending is sent: speed, direction and the functions that
\* changed.
SendPending(s, i) ==
    LET send(e) == IF e.t # "" /\ e.pending THEN [e EXCEPT !.pending = FALSE, !.told = State(s, e.cab)] ELSE e
    IN [s EXCEPT !.wit[i].mine = [k \in DOMAIN @ |-> send(@[k])]]

checkHeartbeat(s, c) ==
    IF Indices(s, c) = {} THEN s
    ELSE LET i == At(s, c)
         IN IF s.wit[i].hb /\ s.wit[i].age > EstopTime THEN TimeUp(s, i) ELSE SendPending(s, i)
witLoop(s) == Each(checkHeartbeat, s, [i \in DOMAIN s.wit |-> s.wit[i].client])
=============================================================================
