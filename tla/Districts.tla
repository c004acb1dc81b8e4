------------------------------ MODULE Districts ------------------------------
(***************************************************************************)
(* The power districts in operation: the commands that change tracks       *)
(* (<=t mode>, <1 ...>, <0 ...>, <C PROGBOOST>), the overload mechanism,   *)
(* and the throttle, emergency stop and reminder code of DCC.cpp as far as *)
(* it drives DC tracks. All of it runs in the main loop, so each command   *)
(* is one step.  The consists of module LocoSlot are kept as who follows   *)
(* whom: a consist's speed does not depend on the order of its locos.      *)
(* Speed codes are 0 (stop), 1 (emergency stop) and 2..TopSpeed (moving);  *)
(* the direction bit is left out.                                          *)
(***************************************************************************)
EXTENDS TrackManager

CONSTANTS
    Cabs,        \* loco addresses a DC track may be given
    Mods,        \* the modifiers commands add to a mode
    Usages,      \* what users do: the cabs they drive and give to DC tracks, and the
                 \* kinds and the modifiers of the modes they command
    TopSpeed     \* largest speed code

ASSUME DistrictsAssumption ==
    /\ Cabs \subseteq Nat \ {0}
    /\ Mods \subseteq Modifiers
    /\ TopSpeed \in Nat \ {0, 1}
    /\ Usages \subseteq [cabs : SUBSET Cabs, kinds : SUBSET Kinds, mods : SUBSET Mods]

VARIABLES
    usage,       \* the one that is played
    tm,          \* the record of TrackManager
    known,       \* cabs that have a slot in the loco table
    target,      \* LocoSlot::targetSpeed
    speed,       \* LocoSlot::speedCode
    lead,        \* the loco a follower's consistLead is, 0 for all other locos
    locked,      \* DCC::estopIsLocked
    astray       \* history: locos whose speed changed and no DC track was told

vars == <<usage, tm, known, target, speed, lead, locked, astray>>
locoVars == <<usage, known, target, speed, lead, locked, astray>>

SpeedCodes == 0 .. TopSpeed

\* DCC::getLocoSpeedByte: 128 (stopped, forward) for a cab without a slot.
LocoSpeedByte == [c \in Cabs \cup {0} |-> IF c \in known THEN speed[c] ELSE 0]

Init ==
    /\ usage \in Usages
    /\ tm = Setup([c \in Cabs \cup {0} |-> 0])
    /\ known = {}
    /\ target = [c \in Cabs |-> 0]
    /\ speed = [c \in Cabs |-> 0]
    /\ lead = [c \in Cabs |-> 0]
    /\ locked = FALSE
    /\ astray = {}

-----------------------------------------------------------------------------
\* Track commands: parseEqualSign, and the cases '1', '0', 'C' of the parser.

\* <=t MAIN>, <=t PROG>, <=t NONE>, <=t EXT> and their _INV, _AUTO forms.
CmdMode(t, md) ==
    /\ md.kind # "DC"
    /\ md.mods # {} => md.kind = "MAIN"
    /\ tm' = SetTrackMode(tm, LocoSpeedByte, t, md, 0)
    /\ UNCHANGED locoVars

\* <=t DC cab> and <=t DCX cab>.
CmdDC(t, mods, cab) ==
    /\ mods \subseteq {"INV"}
    /\ tm' = SetTrackMode(tm, LocoSpeedByte, t, [kind |-> "DC", mods |-> mods], cab)
    /\ UNCHANGED locoVars

\* <=t INV> and <=t AUTO>: the current mode with one more modifier. The cab
\* is not passed on, so setTrackMode gets its default address 0.
CmdModifier(t, m) ==
    /\ tm' = SetTrackMode(tm, LocoSpeedByte, t,
                          [tm.mode[t] EXCEPT !.mods = @ \cup {m}], 0)
    /\ UNCHANGED locoVars

CmdPowerOn(kinds) ==           \* <1> and <1 MAIN>
    /\ kinds \in {TRACK_ALL, {"MAIN"}}
    /\ tm' = SetTrackPower(tm, LocoSpeedByte, kinds, "ON")
    /\ UNCHANGED locoVars

CmdJoin ==                     \* <1 JOIN>
    /\ tm' = SetTrackPower(Join(tm), LocoSpeedByte, {"MAIN", "PROG"}, "ON")
    /\ UNCHANGED locoVars

CmdProgOn ==                   \* <1 PROG>
    /\ tm' = SetTrackPower(Unjoin(tm), LocoSpeedByte, {"PROG"}, "ON")
    /\ UNCHANGED locoVars

CmdTrackOn(t) ==               \* <1 t>
    /\ tm' = SetOnePower(tm, LocoSpeedByte, t, "ON")
    /\ UNCHANGED locoVars

CmdPowerOff(kinds) ==          \* <0> and <0 MAIN>
    /\ kinds \in {TRACK_ALL, {"MAIN"}}
    /\ tm' = SetTrackPower(Unjoin(tm), LocoSpeedByte, kinds, "OFF")
    /\ UNCHANGED locoVars

CmdProgOff ==                  \* <0 PROG>
    /\ tm' = SetTrackPower([Unjoin(tm) EXCEPT !.boosted = FALSE],
                           LocoSpeedByte, {"PROG"}, "OFF")
    /\ UNCHANGED locoVars

CmdTrackOff(t) ==              \* <0 t>
    /\ tm' = SetOnePower(Unjoin(tm), LocoSpeedByte, t, "OFF")
    /\ UNCHANGED locoVars

CmdProgBoost ==                \* <C PROGBOOST>
    /\ tm' = [tm EXCEPT !.boosted = TRUE]
    /\ UNCHANGED locoVars

\* checkPowerOverload, as the state changes it may make (timing: MotorDriver).
OverloadSteps == {<<"ON", "ALERT">>, <<"ALERT", "ON">>,
                  <<"ALERT", "OVERLOAD">>, <<"OVERLOAD", "ALERT">>}

CheckPowerOverload(t) ==
    /\ \E step \in OverloadSteps :
          /\ tm.power[t] = step[1]
          /\ tm' = [tm EXCEPT !.power[t] = step[2]]
    /\ UNCHANGED locoVars

-----------------------------------------------------------------------------
\* DCC.cpp and DCCConsist.cpp: throttles, stops, reminders and consists.

Followers(cab) == {c \in Cabs : lead[c] = cab}
Train(cab) == {cab} \cup Followers(cab)
InConsist(cab) == lead[cab] # 0 \/ Followers(cab) # {}

\* The speeds that a stop and an emergency stop give a DC track are the same.
SameSpeed(a, b) == a = b \/ (a <= 1 /\ b <= 1)

\* setThrottle2 gives cab and its followers the speed code s; only the DC tracks of
\* cab itself are told, and nobody while the emergency stop is locked.
Drive(cab, s, told) ==
    LET tell == told /\ ~locked
    IN  /\ speed' = [c \in Cabs |-> IF c \in Train(cab) THEN s ELSE speed[c]]
        /\ tm' = IF tell THEN SetDCSignal(tm, cab, s) ELSE tm
        /\ astray' = (astray \cup {c \in Train(cab) : ~SameSpeed(s, speed[c])})
                       \ (IF tell THEN {cab} ELSE {})

\* setThrottle: a follower's throttle is ignored, and so is a target already set.
\* With momentum only the targets are set and reminders do the rest, unless it is
\* an emergency stop.
SetThrottle(cab, s, momentum) ==
    /\ known' = known \cup {cab}
    /\ IF lead[cab] # 0 \/ s = target[cab]
       THEN UNCHANGED <<tm, target, speed, astray>>
       ELSE /\ target' = [c \in Cabs |-> IF c \in Train(cab) THEN s ELSE target[c]]
            /\ IF momentum /\ s # 1
               THEN UNCHANGED <<tm, speed, astray>>
               ELSE Drive(cab, s, TRUE)
    /\ UNCHANGED <<usage, lead, locked>>

\* issueReminder: the speed moves some notches towards the target.
Between(a, b) == {s \in SpeedCodes : (a < s /\ s <= b) \/ (b <= s /\ s < a)}

\* Faulty variant: the reminder loop leaves DC tracks to setThrottle.
RemindDCCOnly(cab) ==
    /\ cab \in known /\ lead[cab] = 0
    /\ \E s \in Between(speed[cab], target[cab]) :
          speed' = [c \in Cabs |-> IF c \in Train(cab) THEN s ELSE speed[c]]
    /\ UNCHANGED <<usage, tm, known, target, lead, locked, astray>>

\* Followers are not reminded themselves.  A loco that keeps its speed has it
\* repeated, to its followers too, and no DC track is told.
Remind(cab) ==
    /\ cab \in known /\ lead[cab] = 0
    /\ \/ \E s \in Between(speed[cab], target[cab]) : Drive(cab, s, TRUE)
       \/ Drive(cab, speed[cab], FALSE)
    /\ UNCHANGED <<usage, known, target, lead, locked>>

EstopAll ==
    /\ tm' = SetDCSignal(tm, 0, 1)
    /\ target' = [c \in Cabs |-> IF c \in known THEN 1 ELSE target[c]]
    /\ speed' = [c \in Cabs |-> IF c \in known THEN 1 ELSE speed[c]]
    /\ astray' = {}
    /\ UNCHANGED <<usage, known, lead, locked>>

EstopLock(lock) ==
    /\ locked # lock
    /\ locked' = lock
    /\ IF lock
       THEN /\ tm' = SetDCSignal(tm, 0, 1)
            /\ astray' = {c \in Cabs : ~SameSpeed(1, speed[c])}
       ELSE UNCHANGED <<tm, astray>>
    /\ UNCHANGED <<usage, known, target, speed, lead>>

\* The leads once the consist of cab, if it is in one, is no more.
Unchained(cab) ==
    LET first == IF lead[cab] = 0 THEN cab ELSE lead[cab]
    IN  [c \in Cabs |-> IF c \in Train(first) THEN 0 ELSE lead[c]]

\* forgetLoco: the slot goes; the estop packet it queues is for DCC tracks.
ForgetLoco(cab) ==
    /\ cab \in known
    /\ known' = known \ {cab}
    /\ target' = [target EXCEPT ![cab] = 0]
    /\ speed' = [speed EXCEPT ![cab] = 0]
    /\ lead' = Unchained(cab)
    /\ astray' = astray \cup {c \in {cab} : ~SameSpeed(0, speed[c])}
    /\ UNCHANGED <<usage, tm, locked>>

ForgetAllLocos ==
    /\ known' = {}
    /\ target' = [c \in Cabs |-> 0]
    /\ speed' = [c \in Cabs |-> 0]
    /\ lead' = [c \in Cabs |-> 0]
    /\ astray' = astray \cup {c \in Cabs : ~SameSpeed(0, speed[c])}
    /\ UNCHANGED <<usage, tm, locked>>

\* `<^ cab c ...>`: the consist cab leads is no more; if none of the locos is in
\* another one, those of others follow cab.  Nobody's speed changes.
ConsistCommand(cab, others) ==
    LET loose == IF lead[cab] = 0 THEN Unchained(cab) ELSE lead
        taken == \E c \in {cab} \cup others :
                    loose[c] # 0 \/ \E d \in Cabs : loose[d] = c
    IN  /\ cab \notin others
        /\ IF others = {} \/ taken
           THEN lead' = loose /\ known' = known
           ELSE /\ lead' = [c \in Cabs |-> IF c \in others THEN cab ELSE loose[c]]
                /\ known' = known \cup {cab} \cup others
        /\ UNCHANGED <<usage, tm, target, speed, locked, astray>>

\* EXRAIL's BUILD_CONSIST: c joins the consist of cab, if it is in none.
BuildConsist(cab, c) ==
    /\ cab # c
    /\ known' = known \cup {cab, c}
    /\ lead' = IF InConsist(c) THEN lead
               ELSE [lead EXCEPT ![c] = IF lead[cab] = 0 THEN cab ELSE lead[cab]]
    /\ UNCHANGED <<usage, tm, target, speed, locked, astray>>

BreakConsist(cab) ==
    /\ lead' = Unchained(cab)
    /\ UNCHANGED <<usage, tm, known, target, speed, locked, astray>>

-----------------------------------------------------------------------------
ModeCommand ==
    \E t \in Tracks :
        \/ \E md \in [kind : usage.kinds, mods : SUBSET usage.mods] : CmdMode(t, md)
        \/ /\ "DC" \in usage.kinds
           /\ \E mods \in SUBSET usage.mods, cab \in usage.cabs : CmdDC(t, mods, cab)
        \/ \E m \in usage.mods : CmdModifier(t, m)

TrackCommand ==
    \/ ModeCommand
    \/ \E t \in Tracks : CmdTrackOn(t) \/ CmdTrackOff(t)
    \/ \E kinds \in {TRACK_ALL, {"MAIN"}} : CmdPowerOn(kinds) \/ CmdPowerOff(kinds)
    \/ "PROG" \in usage.kinds /\ (CmdJoin \/ CmdProgOn \/ CmdProgOff \/ CmdProgBoost)

Reminders == \E cab \in usage.cabs : Remind(cab)

LocoCommand ==
    \/ \E cab \in usage.cabs :
          \/ \E s \in SpeedCodes, mom \in BOOLEAN : SetThrottle(cab, s, mom)
          \/ ForgetLoco(cab) \/ BreakConsist(cab)
          \/ \E others \in SUBSET usage.cabs : ConsistCommand(cab, others)
          \/ \E c \in usage.cabs : BuildConsist(cab, c)
    \/ EstopAll \/ ForgetAllLocos
    \/ \E lock \in BOOLEAN : EstopLock(lock)

Next ==
    \/ TrackCommand
    \/ LocoCommand
    \/ Reminders
    \/ \E t \in Tracks : CheckPowerOverload(t)

Spec == Init /\ [][Next]_vars

-----------------------------------------------------------------------------
TMRecords ==
    [mode : [Tracks -> Modes], isProg : [Tracks -> BOOLEAN],
     power : [Tracks -> PowerModes], brake : [Tracks -> BOOLEAN],
     dcSig : [Tracks -> SpeedCodes \cup {Detached}],
     dcAddr : [Tracks -> Cabs \cup {0}],
     temp : Tracks \cup {NoTrack}, sync : BOOLEAN, boosted : BOOLEAN]

\* Type correctness.
TypeOK ==
    /\ usage \in Usages
    /\ tm \in TMRecords
    /\ known \subseteq Cabs
    /\ target \in [Cabs -> SpeedCodes]
    /\ speed \in [Cabs -> SpeedCodes]
    /\ lead \in [Cabs -> Cabs \cup {0}]
    /\ locked \in BOOLEAN
    /\ astray \subseteq Cabs

\* However tracks are switched, joined and unjoined, at most one is the
\* programming track, and exactly that one's driver knows it
\* (MotorDriver::isProgTrack decides who clears the reset counter).
OneProgTrack(r) ==
    /\ \A t, u \in Tracks : Kind(r, t) = "PROG" /\ Kind(r, u) = "PROG" => t = u
    /\ \A t \in Tracks : r.isProg[t] <=> Kind(r, t) = "PROG"

OneProg == OneProgTrack(tm)

\* A track without a use is never powered, whichever way it lost its use: by
\* command, or because another track (or an unjoin) took PROG from it.
UnusedTracksDead(r) == \A t \in Tracks : Kind(r, t) = "NONE" => r.power[t] = "OFF"

UnusedIsDead == UnusedTracksDead(tm)

\* setTrackMode "must clear any side effects of its previous state, otherwise
\* trains run away or just dont move": a DCC track carries no DC signal, no cab
\* and no brake, and a DC track always carries a DC signal.
SideEffectsCleared(r) ==
    \A t \in Tracks :
        /\ Kind(r, t) \in {"MAIN", "PROG", "EXT"} => ~r.brake[t]
        /\ Kind(r, t) # "DC" => r.dcSig[t] = Detached /\ r.dcAddr[t] = 0
        /\ Kind(r, t) = "DC" => r.dcSig[t] # Detached

NoSideEffects == SideEffectsCleared(tm)

\* The join flag is set exactly while a track is remembered to be given back.
JoinRecorded(r) == r.sync <=> r.temp # NoTrack

JoinRemembered == JoinRecorded(tm)

\* The DC signal of a track is the speed of its cab, with or without momentum and
\* whatever tracks, powers, consists and stops were commanded meanwhile.  Astray go
\* only locos that move at another speed than before while they follow a lead, are
\* locked or forgotten; the next speed of their own, or a stop of all, brings the
\* track back.
DCFollowsThrottle ==
    \A t \in Tracks : Kind(tm, t) = "DC" /\ tm.dcAddr[t] \notin astray =>
        SameSpeed(tm.dcSig[t], LocoSpeedByte[tm.dcAddr[t]])

\* The records of the tracks agree with one another under every command: one PROG
\* track, no power without a use, and a join that can be undone.
TracksAgree == OneProg /\ UnusedIsDead /\ JoinRemembered
=============================================================================
