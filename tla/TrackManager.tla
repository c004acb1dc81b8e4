---------------------------- MODULE TrackManager ----------------------------
(***************************************************************************)
(* The tracks of the command station (TrackManager.cpp with the state it   *)
(* keeps in each MotorDriver), as operators on one record tm:              *)
(*   mode    track -> [kind, mods]    MotorDriver::trackMode               *)
(*   isProg  track -> BOOLEAN         MotorDriver::isProgTrack             *)
(*   power   track -> power state     MotorDriver::powerMode               *)
(*   brake   track -> BOOLEAN         level of the brake pin               *)
(*   dcSig   track -> speed code      PWM on the brake pin, or Detached    *)
(*   dcAddr  track -> cab, 0 if none  TrackManager::trackDCAddr            *)
(*   temp    the joined track         TrackManager::tempProgTrack          *)
(*   sync    BOOLEAN                  TrackManager::progTrackSyncMain      *)
(*   boosted BOOLEAN                  TrackManager::progTrackBoosted       *)
(* The build is the LaBox one: ESP32, no booster input, LaboxModes in DCC  *)
(* mode. A mode is one kind and a set of modifiers, which is what the bits *)
(* of TRACK_MODE mean.                                                     *)
(***************************************************************************)
EXTENDS Integers

CONSTANTS
    NTracks,     \* lastTrack + 1
    CanBrake     \* the tracks whose driver has a brake pin

ASSUME TracksAssumption ==
    /\ NTracks \in Nat \ {0}
    /\ CanBrake \subseteq 0 .. NTracks - 1

Tracks == 0 .. NTracks - 1

\* tempProgTrack when no track is joined (MAX_TRACKS + 1 in the code).
NoTrack == -1

\* No PWM on the brake pin.
Detached == -1

Kinds == {"NONE", "MAIN", "PROG", "DC", "EXT"}
Modifiers == {"INV", "AUTO"}
Modes == [kind : Kinds, mods : SUBSET Modifiers]
Plain(kind) == [kind |-> kind, mods |-> {}]

PowerModes == {"OFF", "ON", "ALERT", "OVERLOAD"}
TRACK_ALL == {"MAIN", "PROG", "DC", "EXT"}

Kind(tm, t) == tm.mode[t].kind
ProgTracks(tm) == {t \in Tracks : Kind(tm, t) = "PROG"}

\* addTrack on every driver: power off, mode NONE.
Added ==
    [mode    |-> [t \in Tracks |-> Plain("NONE")],
     isProg  |-> [t \in Tracks |-> FALSE],
     power   |-> [t \in Tracks |-> "OFF"],
     brake   |-> [t \in Tracks |-> FALSE],
     dcSig   |-> [t \in Tracks |-> Detached],
     dcAddr  |-> [t \in Tracks |-> 0],
     temp    |-> NoTrack,
     sync    |-> FALSE,
     boosted |-> FALSE]

-----------------------------------------------------------------------------

\* MotorDriver::setBrake: a driver without a brake pin ignores it.
SetBrake(tm, ts, on) ==
    [tm EXCEPT !.brake = [t \in Tracks |->
                            IF t \in ts \cap CanBrake THEN on ELSE @[t]]]

\* applyDCSpeed on the DC tracks of ts; spd is DCC::getLocoSpeedByte.
ApplyDCSpeed(tm, spd, ts) ==
    [tm EXCEPT !.dcSig = [t \in Tracks |->
        IF t \in ts \cap CanBrake /\ Kind(tm, t) = "DC"
        THEN spd[tm.dcAddr[t]] ELSE @[t]]]

\* TrackManager::setDCSignal(cab, speed): cab 0 addresses every DC track.
SetDCSignal(tm, cab, s) ==
    [tm EXCEPT !.dcSig = [t \in Tracks |->
        IF t \in CanBrake /\ Kind(tm, t) = "DC" /\ cab \in {0, tm.dcAddr[t]}
        THEN s ELSE @[t]]]

\* Faulty variant: the previous PROG track keeps its mode.
RevokedNone(tm, t, md) == {}

\* Tracks that lose PROG because t becomes the one PROG track.
Revoked(tm, t, md) ==
    IF md.kind = "PROG" THEN ProgTracks(tm) \ {t} ELSE {}

\* Taking the joined track away from MAIN (and not giving it back to PROG)
\* undoes the join.
Unsync(tm, t, md) ==
    tm.temp = t /\ Kind(tm, t) = "MAIN" /\ md.kind # "PROG"

\* Faulty variant: the DC signal of the previous mode stays attached.
ClearDCForgetsDetach(tm, t, md, addr) ==
    [tm EXCEPT !.brake[t] = @ /\ md.kind = "DC",
               !.dcAddr[t] = IF md.kind = "DC" THEN addr ELSE 0]

\* "We must clear any side effects of its previous state": a track that is not
\* DC loses PWM, brake and cab address.
ClearDC(tm, t, md, addr) ==
    [tm EXCEPT !.brake[t]  = @ /\ md.kind = "DC",
               !.dcSig[t]  = IF md.kind = "DC" THEN @ ELSE Detached,
               !.dcAddr[t] = IF md.kind = "DC" THEN addr ELSE 0]

\* setTrackMode up to applyDCSpeed, for a track and a mode it accepts.
Retrack(tm, t, md, addr, offAtChange) ==
    LET revoked == Revoked(tm, t, md)
        unsync  == Unsync(tm, t, md)
        off     == revoked \cup (IF offAtChange /\ md # tm.mode[t] THEN {t} ELSE {})
    IN [ClearDC(tm, t, md, addr) EXCEPT
          !.mode   = [u \in Tracks |-> IF u = t THEN md
                                       ELSE IF u \in revoked THEN Plain("NONE") ELSE @[u]],
          !.isProg = [u \in Tracks |-> IF u = t THEN md.kind = "PROG"
                                       ELSE @[u] /\ u \notin revoked],
          !.power  = [u \in Tracks |-> IF u \in off THEN "OFF" ELSE @[u]],
          !.temp   = IF unsync THEN NoTrack ELSE @,
          !.sync   = @ /\ ~unsync]

\* setTrackMode refuses a missing track, and DC without a brake pin.
Accepts(t, md) == t \in Tracks /\ (md.kind = "DC" => t \in CanBrake)

SetTrackMode(tm, spd, t, md, addr) ==
    IF Accepts(t, md)
    THEN ApplyDCSpeed(Retrack(tm, t, md, addr, TRUE), spd, {t})
    ELSE tm

\* Setup: the first two tracks (which may be missing) default to MAIN, PROG.
Setup(spd) ==
    SetTrackMode(SetTrackMode(Added, spd, 0, Plain("MAIN"), 0),
                 spd, 1, Plain("PROG"), 0)

\* setJoin(true): the PROG track becomes a MAIN track and is remembered;
\* without a PROG track nothing changes.
Join(tm) ==
    IF ProgTracks(tm) = {} THEN tm
    ELSE LET t == CHOOSE u \in ProgTracks(tm) : \A v \in ProgTracks(tm) : u <= v
         IN [Retrack([tm EXCEPT !.temp = t], t, Plain("MAIN"), 0, FALSE)
               EXCEPT !.sync = TRUE]

\* setJoin(false): the remembered track becomes the PROG track again.
Unjoin(tm) ==
    LET back == IF tm.temp = NoTrack THEN tm
                ELSE Retrack(tm, tm.temp, Plain("PROG"), 0, FALSE)
    IN [back EXCEPT !.temp = NoTrack, !.sync = FALSE]

-----------------------------------------------------------------------------

\* The part both setTrackPower overloads share: what is done to the tracks ts
\* that are switched to pm. DC starts braked at the throttle's speed, DCC runs
\* with the brake off.
Switch(tm, spd, ts, pm) ==
    LET dc    == {t \in ts : Kind(tm, t) = "DC"}
        ready == IF pm # "ON" THEN tm
                 ELSE ApplyDCSpeed(SetBrake(SetBrake(tm, dc, TRUE), ts \ dc, FALSE),
                                   spd, dc)
    IN [ready EXCEPT !.power = [t \in Tracks |-> IF t \in ts THEN pm ELSE @[t]]]

\* setTrackPower(kinds, pm): every track of those kinds.
SetTrackPower(tm, spd, kinds, pm) ==
    Switch(tm, spd, {t \in Tracks : Kind(tm, t) \in kinds}, pm)

\* setTrackPower(pm, t): an unused track is braked and forced off.
SetOnePower(tm, spd, t, pm) ==
    IF Kind(tm, t) = "NONE"
    THEN [SetBrake(tm, {t}, TRUE) EXCEPT !.power[t] = "OFF"]
    ELSE Switch(tm, spd, {t}, pm)
=============================================================================
