------------------------------ MODULE DCCLoco -------------------------------
(***************************************************************************)
(* Driving locos: the throttle, function, emergency stop and forget        *)
(* commands of DCC.cpp and the reminder loop, on top of the loco table     *)
(* with its consists (module LocoTable) and the packet queues (DCCQueue),  *)
(* down to what the decoders hear over a track that loses packets.         *)
(*                                                                         *)
(* The mode is DCC and momentum is off, so that a reminder takes a loco    *)
(* straight to its target.  LoopStates has two states per function group:  *)
(* a round of speed reminders and a round of that group's functions.       *)
(***************************************************************************)
EXTENDS LocoTable

CONSTANTS
    W16, W32,      \* the widths of module DCCQueue
    Orders,        \* <<speed, direction>> as the throttles write them, stops included
    MaxCommands    \* how many commands arrive

\* Addresses fit a uint16_t and functions come in five groups.
ASSUME DrivingAssumption ==
    /\ W16 \in Nat \ {0} /\ W32 \in Nat /\ W16 <= W32
    /\ Locos \subseteq 1 .. W16 - 1
    /\ Groups \subseteq 1 .. 5 /\ Groups # {}

VARIABLES
    q,                \* the packet queues
    nextLocoReminder, \* the slot the reminder loop resumes from
    loopStatus,
    estopIsLocked,
    heard,            \* the last speed code and functions each decoder obeyed
    commands          \* commands so far

vars == <<tb, crashed, q, nextLocoReminder, loopStatus, estopIsLocked, heard, commands>>

Queue == INSTANCE DCCQueue

LoopStates == 0..(2 * Cardinality(Groups) - 1)

DInit ==
    /\ TInit /\ q = Queue!NoQueue
    /\ nextLocoReminder = Null /\ loopStatus = 0
    /\ estopIsLocked = FALSE
    /\ heard = [speed |-> [l \in Locos |-> Stopped],
                fn |-> [l \in Locos |-> [g \in Groups |-> "off"]]]
    /\ commands = 0

-----------------------------------------------------------------------------
(* Speed packets.                                                          *)

\* A speed code for the loco in slot o, or for all locos when o is Null.
setThrottleDCC(Q, T, o, code) ==
    LET cab == IF o = Null THEN 0 ELSE T.slot[o].loco
        own == IF o # Null /\ T.slot[o].consistReverse THEN Reversed(code) ELSE code
        sent == IF estopIsLocked THEN SameDirection(own, 1) ELSE own
        packet == Queue!SpeedPacket(cab, sent)
    IN  IF Speed(sent) = 1 THEN Queue!scheduleEstopPacket(Q, packet, 4, cab)
                           ELSE Queue!scheduleDCCSpeedPacket(Q, packet, 0, cab)

\* Faulty variant: the followers are not sent the speed.
throttleLeadOnly(Q, T, o, code) ==
    [t |-> [T EXCEPT !.slot[o].speedCode = code], q |-> setThrottleDCC(Q, T, o, code)]

\* One loco of a consist, acc.t and acc.q the table and the queues so far.
throttleOne(acc, m, code) ==
    [t |-> [acc.t EXCEPT !.slot[m].speedCode = code],
     q |-> setThrottleDCC(acc.q, acc.t, m, code)]

\* The lead's speed code goes to every member of its consist.
setThrottle2(Q, T, o, code) ==
    LET ms == Members(T, o)
        sent[k \in 0 .. Len(ms)] ==
            IF k = 0 THEN [t |-> T, q |-> Q] ELSE throttleOne(sent[k - 1], ms[k], code)
    IN  sent[Len(ms)]

\* setThrottle for a loco: the table and the queues afterwards.
setThrottle(Q, T, cab, code) ==
    LET got == getSlot(T, cab)
        o == got.obj
        followers == Range(Members(got.t, o)) \ {o}
        aimed == [got.t EXCEPT !.slot = [x \in Objs |->
                    IF x = o THEN [@[x] EXCEPT !.targetSpeed = code]
                    ELSE IF x \in followers
                    THEN [@[x] EXCEPT !.targetSpeed =
                             IF got.t.slot[x].consistReverse THEN Reversed(code) ELSE code]
                    ELSE @[x]]]
        ignored == \/ o = Null
                   \/ isConsistFollower(got.t, o)
                   \/ got.t.slot[o].targetSpeed = code
    IN  IF ignored THEN [t |-> got.t, q |-> Q] ELSE setThrottle2(Q, aimed, o, code)

-----------------------------------------------------------------------------
(* The commands.                                                           *)

Counted == commands < MaxCommands /\ commands' = commands + 1

\* A command that leaves the structure of the table alone but for new slots.
Command(r) ==
    /\ Counted /\ ~crashed
    /\ tb' = r.t /\ q' = r.q
    /\ UNCHANGED <<crashed, nextLocoReminder, loopStatus, heard>>

SetThrottle(l, code) ==
    /\ \E r \in {setThrottle(q, tb, l, code)} : Command(r)
    /\ UNCHANGED estopIsLocked

\* A function up to F28 changes the table only; the reminders send it.
SetFn(l, g, v) ==
    LET got == getSlot(tb, l)
        o == got.obj
        changed == [got.t EXCEPT !.slot[o].functions[g] = v,
                                 !.slot[o].groupFlags = @ \cup {g}]
    IN  /\ Command([q |-> q, t |-> IF o = Null THEN got.t
                                  ELSE IF got.t.slot[o].functions[g] = v THEN got.t
                                  ELSE changed])
        /\ UNCHANGED estopIsLocked

\* EXRAIL's SAVE_SPEED and RESTORE_SPEED.
SaveSpeed(l) ==
    LET o == findSlot(tb, l)
    IN  /\ o # Null
        /\ Command([q |-> q, t |-> [tb EXCEPT !.slot[o].savedSpeedCode = tb.slot[o].targetSpeed]])
        /\ UNCHANGED estopIsLocked

RestoreSpeed(l) ==
    LET o == findSlot(tb, l)
    IN  /\ o # Null
        /\ SetThrottle(l, tb.slot[o].savedSpeedCode)

\* The object after o on the list, or Null.
After(T, o) ==
    LET at == CHOOSE i \in DOMAIN T.chain : T.chain[i] = o
    IN  IF at = Len(T.chain) THEN Null ELSE T.chain[at + 1]

\* Where the reminder loop resumes when the loco in slot o goes.
Resumes(o) == nextLocoReminder' = IF nextLocoReminder = o THEN After(tb, o) ELSE nextLocoReminder

\* Faulty variant: the loco is forgotten as it is, still running.
ForgetRunning(l) ==
    /\ Counted /\ Forget(l) /\ Resumes(findSlot(tb, l))
    /\ UNCHANGED <<q, loopStatus, estopIsLocked, heard>>

ForgetLoco(l) ==
    /\ Counted /\ Forget(l) /\ Resumes(findSlot(tb, l))
    /\ q' = setThrottleDCC(q, tb, findSlot(tb, l), 1)
    /\ UNCHANGED <<loopStatus, estopIsLocked, heard>>

\* Faulty variant: the reminder loop keeps its pointer and is not told.
ForgetAllKeepsPointer ==
    /\ Counted /\ ~crashed
    /\ tb' = [forgetAll(tb) EXCEPT !.chainModified = FALSE]
    /\ q' = setThrottleDCC(q, tb, Null, 1)
    /\ UNCHANGED <<crashed, nextLocoReminder, loopStatus, estopIsLocked, heard>>

ForgetAllLocos ==
    /\ Counted /\ ForgetAll
    /\ q' = setThrottleDCC(q, tb, Null, 1)
    /\ nextLocoReminder' = Null
    /\ UNCHANGED <<loopStatus, estopIsLocked, heard>>

\* Broadcast, and every loco's target becomes emergency stop in the
\* direction it had.
EstopAll ==
    LET stop(x) == SameDirection(tb.slot[x].targetSpeed, 1)
    IN  /\ Command([q |-> setThrottleDCC(q, tb, Null, 1),
                    t |-> [tb EXCEPT !.slot = [x \in Objs |->
                             IF x \in Range(tb.chain)
                             THEN [@[x] EXCEPT !.speedCode = stop(x), !.targetSpeed = stop(x)]
                             ELSE @[x]]]])
        /\ UNCHANGED estopIsLocked

\* The lock is set before the broadcast is queued; the table is untouched.
EstopLock(lock) ==
    /\ estopIsLocked # lock
    /\ estopIsLocked' = lock
    /\ Command([t |-> tb, q |-> IF lock
                  THEN Queue!scheduleEstopPacket(q, Queue!SpeedPacket(0, 1), 4, 0) ELSE q])

\* The commands that build and break consists.
Consists ==
    /\ Counted
    /\ \/ \E p \in Params : ConsistCommand(p)
       \/ \E l, k \in Locos, r \in BOOLEAN : BuildConsist(l, k, r)
       \/ \E l \in Locos : BreakConsist(l)
    /\ UNCHANGED <<q, nextLocoReminder, loopStatus, estopIsLocked, heard>>

-----------------------------------------------------------------------------
(* The parser of the commands above.                                       *)

Refused == -1

\* `<t cab speed direction>` counts -1 as an emergency stop, 0 as stop and from 1
\* up as speeds: the speed code it means, or Refused.
ThrottleCode(cab, tspeed, direction) ==
    LET dcc == CASE tspeed < 0 -> 1 [] tspeed = 0 -> 0 [] OTHER -> tspeed + 1
    IN  IF tspeed \in -1 .. HALF - 2 /\ direction \in {0, 1} /\ (cab = 0 => dcc <= 1)
        THEN direction * HALF + dcc ELSE Refused

\* Cab 0 is everyone, for an emergency stop; to stop it is no loco.
ThrottleCommand(cab, order) ==
    LET code == ThrottleCode(cab, order[1], order[2])
    IN  /\ code # Refused
        /\ IF cab # 0 THEN SetThrottle(cab, code) ELSE Speed(code) = 1 /\ EstopAll

\* `<!>`, `<!P>` and `<!R>`.
StopCommand(p) ==
    CASE p = "P" -> EstopLock(TRUE) [] p = "R" -> EstopLock(FALSE) [] OTHER -> EstopAll

\* `<- cab>`, and `<- 0>` for all of them.
ForgetCommand(cab) == IF cab = 0 THEN ForgetAllLocos ELSE ForgetLoco(cab)

-----------------------------------------------------------------------------
(* The reminder loop.                                                      *)

\* Whether issueReminder sends something for slot o in a loop state.
Reminds(T, o, status) ==
    IF status % 2 = 0 THEN ~isConsistFollower(T, o)
    ELSE (status + 1) \div 2 \in T.slot[o].groupFlags

\* With momentum off a speed reminder takes the loco to its target.
issueReminder(Q, T, o, status) ==
    LET g == (status + 1) \div 2
        loco == T.slot[o].loco
    IN  IF status % 2 = 0 THEN setThrottle2(Q, T, o, T.slot[o].targetSpeed)
        ELSE [t |-> T, q |-> Queue!scheduleDCCFunctionPacket(Q,
                 Queue!Packet(loco, Queue!FnKind(g), T.slot[o].functions[g]), loco, g)]

\* One reminder is queued, for the next loco that needs one; at the end of
\* the list, or when the list has changed, the next loop state starts.
issueReminders(Q, T) ==
    LET restart == T.chainModified \/ nextLocoReminder = Null
        T1 == IF restart THEN [T EXCEPT !.chainModified = FALSE] ELSE T
        status == IF restart /\ T.chain # <<>>
                  THEN (loopStatus + 1) % Cardinality(LoopStates) ELSE loopStatus
        first == IF restart THEN 1
                 ELSE CHOOSE i \in DOMAIN T.chain : T.chain[i] = nextLocoReminder
        due == {i \in first..Len(T.chain) : Reminds(T, T.chain[i], status)}
        o == T.chain[CHOOSE i \in due : \A j \in due : i <= j]
        r == issueReminder(Q, T1, o, status)
    IN  IF due = {} THEN [q |-> Q, t |-> T1, status |-> status, next |-> Null]
        ELSE [q |-> r.q, t |-> r.t, status |-> status, next |-> After(T, o)]

\* DCC::loop with the transmitter free: the packet sent and the new state.
loop ==
    LET now == 0
        pending == Queue!scheduleNext(q, FALSE, now)
        rem == issueReminders(q, tb)
        forced == Queue!scheduleNext(rem.q, TRUE, now)
    IN  IF pending.ok
        THEN [packet |-> pending.packet, q |-> pending.q, t |-> tb,
              status |-> loopStatus, next |-> nextLocoReminder]
        ELSE [packet |-> forced.packet, q |-> forced.q, t |-> rem.t,
              status |-> rem.status, next |-> rem.next]

Addressed(p) == IF p.kind = "idle" THEN {}
                ELSE IF p.to = 0 THEN Locos ELSE {p.to}

\* The decoders in `by` receive the packet (external).
Obey(h, p, by) ==
    [speed |-> [l \in Locos |-> IF l \in by /\ p.kind = "speed" THEN p.val ELSE h.speed[l]],
     fn |-> [l \in Locos |-> [g \in Groups |->
                IF l \in by /\ p.kind = Queue!FnKind(g) THEN p.val ELSE h.fn[l][g]]]]

Loop(l, kind) ==
    /\ ~crashed
    /\ \E n \in {loop} :
        /\ tb' = n.t /\ q' = n.q
        /\ loopStatus' = n.status /\ nextLocoReminder' = n.next
        /\ \E by \in SUBSET Addressed(n.packet) :
              /\ l = 0 \/ (l \in by /\ n.packet.kind = kind)
              /\ heard' = Obey(heard, n.packet, by)
    /\ UNCHANGED <<crashed, estopIsLocked, commands>>

DNext ==
    \/ \E l \in Locos :
          \/ \E g \in Groups, v \in {"on", "off"} : SetFn(l, g, v)
          \/ SaveSpeed(l) \/ RestoreSpeed(l)
    \/ \E cab \in Locos \cup {0} :
          ForgetCommand(cab) \/ \E order \in Orders : ThrottleCommand(cab, order)
    \/ \E p \in {"P", "R", "none"} : StopCommand(p)
    \/ Consists
    \/ Loop(0, "any")

DSafety == DInit /\ [][DNext]_vars

Kinds == {"speed"} \cup {Queue!FnKind(g) : g \in Groups}

\* When a pass of the loop changes something, and when it may be heard by l.
Moves == LET n == loop
         IN  \/ <<n.t, n.q, n.status, n.next>> # <<tb, q, loopStatus, nextLocoReminder>>
             \/ Obey(heard, n.packet, Addressed(n.packet)) # heard
Sends(l, k) == Moves /\ loop.packet.kind = k /\ l \in Addressed(loop.packet)

\* The main loop runs for ever, and a decoder that is sent one kind of
\* packet again and again receives it again and again: weak and strong
\* fairness, with ENABLED written out.
DSpec ==
    /\ DSafety
    /\ []<>~Moves \/ []<><<Loop(0, "any")>>_vars
    /\ \A l \in Locos : \A k \in Kinds : <>[]~Sends(l, k) \/ []<><<Loop(l, k)>>_vars

-----------------------------------------------------------------------------
(* Properties.                                                             *)

\* Speed codes fit a byte's range and the reminder loop is in a loop state.
DTypeOK ==
    /\ \A o \in Objs : /\ tb.slot[o].speedCode \in Codes
                        /\ tb.slot[o].targetSpeed \in Codes
                        /\ tb.slot[o].groupFlags \subseteq Groups
    /\ nextLocoReminder \in Objs \cup {Null}
    /\ loopStatus \in LoopStates /\ estopIsLocked \in BOOLEAN
    /\ heard.speed \in [Locos -> Codes]

\* The note in issueReminders: "chainModified is set whenever a loco is
\* added or removed so we dont accidentally follow a stale pointer".
NoStalePointer ==
    (~tb.chainModified /\ nextLocoReminder # Null) => nextLocoReminder \in InChain

QueuedSpeeds == {q.high[i].packet : i \in DOMAIN q.high}

\* "While locked, no loco can be moved": from the moment the lock is set
\* only emergency stops are left to transmit, whatever was queued before
\* and whatever the throttles, the reminders and EXRAIL ask for.
LockStopsAll == estopIsLocked => \A p \in QueuedSpeeds : Speed(p.val) = 1

\* A loco that has been forgotten is not driven any more: the only speed
\* packets still queued for it are emergency stops.
ForgottenIsStopped ==
    \A p \in QueuedSpeeds :
        (p.to # 0 /\ findSlot(tb, p.to) = Null) => Speed(p.val) = 1

\* What the decoder of slot o should be doing.
Wanted(o) ==
    LET lead == tb.slot[Lead(tb, o)].targetSpeed
        own == IF tb.slot[o].consistReverse THEN Reversed(lead) ELSE lead
    IN  IF estopIsLocked THEN SameDirection(own, 1) ELSE own

\* The reminders repair every loss: once commands stop arriving, each
\* decoder comes to obey what the table says of its loco (its lead's speed
\* in its own direction, emergency stop while locked, the previous speed
\* after an unlock, every function it was ever sent) and stays there.
RemindersConverge ==
    <>[](\A o \in InChain :
            /\ heard.speed[tb.slot[o].loco] = Wanted(o)
            /\ \A g \in tb.slot[o].groupFlags :
                  heard.fn[tb.slot[o].loco][g] = tb.slot[o].functions[g])

\* The reminder loop's state is sound: it never follows a stale pointer.
RemindersSound == DTypeOK /\ NoStalePointer

\* What is stopped for good stays stopped: nothing queued earlier, no reminder and
\* no late throttle moves a locked or forgotten loco.
StopsHold == LockStopsAll /\ ForgottenIsStopped
=============================================================================
