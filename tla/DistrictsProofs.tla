--------------------------- MODULE DistrictsProofs ---------------------------
(***************************************************************************)
(* Proofs about Districts for any number of tracks, any set of cabs and    *)
(* modifiers and any speed range.                                          *)
(*                                                                         *)
(* The operators of TrackManager take a record to a record, so the         *)
(* argument is about records: Sound(r) says that r is a good state of the  *)
(* tracks, each operator preserves it, and each action applies operators.  *)
(***************************************************************************)
EXTENDS Districts, TLAPS

\* What every operator preserves.
Sound(r) ==
    /\ r \in TMRecords
    /\ OneProgTrack(r)
    /\ UnusedTracksDead(r)
    /\ SideEffectsCleared(r)
    /\ JoinRecorded(r)

\* The speeds DC signals are read from.
SpeedMaps == [Cabs \cup {0} -> SpeedCodes]

\* The inductive invariant.
IInv ==
    /\ Sound(tm)
    /\ usage \in Usages
    /\ known \subseteq Cabs
    /\ target \in [Cabs -> SpeedCodes]
    /\ speed \in [Cabs -> SpeedCodes]
    /\ lead \in [Cabs -> Cabs \cup {0}]
    /\ locked \in BOOLEAN
    /\ astray \subseteq Cabs

\* Tracks are numbers from 0, so NoTrack and Detached are none of them.
LEMMA Numbers == /\ Tracks \subseteq Nat
                 /\ NoTrack \notin Tracks
                 /\ SpeedCodes \subseteq Nat
                 /\ 0 \in SpeedCodes /\ 1 \in SpeedCodes
                 /\ Detached \notin SpeedCodes
  BY TracksAssumption, DistrictsAssumption
     DEF Tracks, NoTrack, Detached, SpeedCodes

\* What Retrack does to each field.
LEMMA RetrackFields ==
  ASSUME NEW r \in TMRecords, NEW t \in Tracks, NEW md \in Modes,
         NEW addr \in Cabs \cup {0}, NEW off \in BOOLEAN,
         NEW n, n = Retrack(r, t, md, addr, off)
  PROVE  /\ n \in TMRecords
         /\ \A u \in Tracks : n.mode[u] = IF u = t THEN md
               ELSE IF u \in Revoked(r, t, md) THEN Plain("NONE") ELSE r.mode[u]
         /\ \A u \in Tracks : n.isProg[u] <=>
               IF u = t THEN md.kind = "PROG"
               ELSE r.isProg[u] /\ u \notin Revoked(r, t, md)
         /\ \A u \in Revoked(r, t, md) : n.power[u] = "OFF"
         /\ off /\ md # r.mode[t] => n.power[t] = "OFF"
         /\ \A u \in Tracks : n.power[u] = r.power[u] \/ n.power[u] = "OFF"
         /\ \A u \in Tracks \ {t} : n.brake[u] = r.brake[u] /\ n.dcSig[u] = r.dcSig[u]
                                    /\ n.dcAddr[u] = r.dcAddr[u]
         /\ md.kind # "DC" => ~n.brake[t] /\ n.dcSig[t] = Detached /\ n.dcAddr[t] = 0
         /\ md.kind = "DC" => n.dcAddr[t] = addr
         /\ n.temp = IF Unsync(r, t, md) THEN NoTrack ELSE r.temp
         /\ n.sync <=> (r.sync /\ ~Unsync(r, t, md))
         /\ n.boosted = r.boosted
<1> DEFINE revoked == Revoked(r, t, md)
           offs == revoked \cup (IF off /\ md # r.mode[t] THEN {t} ELSE {})
           c == ClearDC(r, t, md, addr)
<1>1. revoked \subseteq Tracks \ {t}
  BY DEF Revoked, ProgTracks
<1>2. Plain("NONE") \in Modes
  BY DEF Plain, Modes, Kinds
<1>3. /\ c \in TMRecords
      /\ c.mode = r.mode /\ c.isProg = r.isProg /\ c.power = r.power
      /\ c.temp = r.temp /\ c.sync = r.sync /\ c.boosted = r.boosted
      /\ c.brake = [r.brake EXCEPT ![t] = @ /\ md.kind = "DC"]
      /\ c.dcSig = [r.dcSig EXCEPT ![t] = IF md.kind = "DC" THEN @ ELSE Detached]
      /\ c.dcAddr = [r.dcAddr EXCEPT ![t] = IF md.kind = "DC" THEN addr ELSE 0]
  BY DEF ClearDC, TMRecords
<1> HIDE DEF c, revoked
<1>4. n = [c EXCEPT
          !.mode   = [u \in Tracks |-> IF u = t THEN md
                                       ELSE IF u \in revoked THEN Plain("NONE") ELSE @[u]],
          !.isProg = [u \in Tracks |-> IF u = t THEN md.kind = "PROG"
                                       ELSE @[u] /\ u \notin revoked],
          !.power  = [u \in Tracks |-> IF u \in offs THEN "OFF" ELSE @[u]],
          !.temp   = IF Unsync(r, t, md) THEN NoTrack ELSE @,
          !.sync   = @ /\ ~Unsync(r, t, md)]
  BY DEF Retrack, c, revoked
<1>5. /\ n.mode = [u \in Tracks |-> IF u = t THEN md
                       ELSE IF u \in revoked THEN Plain("NONE") ELSE c.mode[u]]
      /\ n.isProg = [u \in Tracks |-> IF u = t THEN md.kind = "PROG"
                       ELSE c.isProg[u] /\ u \notin revoked]
      /\ n.power = [u \in Tracks |-> IF u \in offs THEN "OFF" ELSE c.power[u]]
      /\ n.temp = IF Unsync(r, t, md) THEN NoTrack ELSE c.temp
      /\ n.sync = (c.sync /\ ~Unsync(r, t, md))
      /\ n.boosted = c.boosted /\ n.brake = c.brake
      /\ n.dcSig = c.dcSig /\ n.dcAddr = c.dcAddr
  <2> DEFINE mode == [u \in Tracks |-> IF u = t THEN md
                          ELSE IF u \in revoked THEN Plain("NONE") ELSE c.mode[u]]
             isProg == [u \in Tracks |-> IF u = t THEN md.kind = "PROG"
                          ELSE c.isProg[u] /\ u \notin revoked]
             power == [u \in Tracks |-> IF u \in offs THEN "OFF" ELSE c.power[u]]
             temp == IF Unsync(r, t, md) THEN NoTrack ELSE c.temp
             sync == c.sync /\ ~Unsync(r, t, md)
  <2>1. n = [c EXCEPT !.mode = mode, !.isProg = isProg, !.power = power,
                      !.temp = temp, !.sync = sync]
    BY <1>4, Zenon
  <2>2. c \in TMRecords
    BY <1>3
  <2> HIDE DEF mode, isProg, power, temp, sync
  <2>3. /\ n.mode = mode /\ n.isProg = isProg /\ n.power = power
        /\ n.temp = temp /\ n.sync = sync
        /\ n.boosted = c.boosted /\ n.brake = c.brake
        /\ n.dcSig = c.dcSig /\ n.dcAddr = c.dcAddr
    <3>1. c = [mode |-> c.mode, isProg |-> c.isProg, power |-> c.power, brake |-> c.brake,
               dcSig |-> c.dcSig, dcAddr |-> c.dcAddr, temp |-> c.temp, sync |-> c.sync,
               boosted |-> c.boosted]
      BY <2>2 DEF TMRecords
    <3>2. n = [mode |-> mode, isProg |-> isProg, power |-> power, brake |-> c.brake,
               dcSig |-> c.dcSig, dcAddr |-> c.dcAddr, temp |-> temp, sync |-> sync,
               boosted |-> c.boosted]
      BY <2>1, <3>1
    <3>3. QED
      BY <3>2
  <2>4. QED
    BY <2>3, Zenon DEF mode, isProg, power, temp, sync
<1>6. n \in TMRecords
  <2>1. n.mode \in [Tracks -> Modes]
    BY <1>2, <1>3, <1>5 DEF TMRecords
  <2>2. n.power \in [Tracks -> PowerModes]
    BY <1>3, <1>5 DEF TMRecords, PowerModes
  <2>3. n.isProg \in [Tracks -> BOOLEAN]
    <3> DEFINE B(u) == IF u = t THEN md.kind = "PROG" ELSE c.isProg[u] /\ u \notin revoked
    <3>1. n.isProg = [u \in Tracks |-> B(u)]
      BY <1>5, Zenon
    <3>2. \A u \in Tracks : B(u) \in BOOLEAN
      <4> TAKE u \in Tracks
      <4>1. (md.kind = "PROG") \in BOOLEAN /\ (c.isProg[u] /\ u \notin revoked) \in BOOLEAN
        OBVIOUS
      <4>2. QED
        BY <4>1, Zenon
    <3> HIDE DEF B
    <3>3. QED
      BY <3>1, <3>2
  <2>4. n.temp \in Tracks \cup {NoTrack} /\ n.sync \in BOOLEAN
    BY <1>3, <1>5 DEF TMRecords
  <2>5. n = [mode |-> n.mode, isProg |-> n.isProg, power |-> n.power,
             brake |-> n.brake, dcSig |-> n.dcSig, dcAddr |-> n.dcAddr,
             temp |-> n.temp, sync |-> n.sync, boosted |-> n.boosted]
    BY <1>3, <1>4 DEF TMRecords
  <2>6. QED
    BY <1>3, <1>5, <2>1, <2>2, <2>3, <2>4, <2>5 DEF TMRecords
<1>7. QED
  <2>1. offs \subseteq Tracks /\ t \notin revoked
    BY <1>1
  <2>2. \A u \in Tracks : n.mode[u] = IF u = t THEN md
               ELSE IF u \in revoked THEN Plain("NONE") ELSE r.mode[u]
    BY <1>3, <1>5
  <2>6. \A u \in Tracks : n.isProg[u] <=>
               IF u = t THEN md.kind = "PROG" ELSE r.isProg[u] /\ u \notin revoked
    BY <1>3, <1>5, Zenon
  <2>3. /\ \A u \in revoked : n.power[u] = "OFF"
        /\ off /\ md # r.mode[t] => n.power[t] = "OFF"
        /\ \A u \in Tracks : n.power[u] = r.power[u] \/ n.power[u] = "OFF"
    BY <1>1, <1>3, <1>5
  <2>4. /\ \A u \in Tracks \ {t} : n.brake[u] = r.brake[u] /\ n.dcSig[u] = r.dcSig[u]
                                    /\ n.dcAddr[u] = r.dcAddr[u]
        /\ md.kind # "DC" => ~n.brake[t] /\ n.dcSig[t] = Detached /\ n.dcAddr[t] = 0
        /\ md.kind = "DC" => n.dcAddr[t] = addr
    BY <1>3, <1>5 DEF TMRecords
  <2>5. QED
    BY <1>3, <1>5, <1>6, <2>2, <2>3, <2>4, <2>6 DEF revoked

\* Setting a DCC mode (or none) on any track keeps the tracks sound, whether
\* or not the power is left on: if it is left on the new mode is not NONE.
LEMMA RetrackSound ==
  ASSUME NEW r, Sound(r), NEW t \in Tracks, NEW md \in Modes,
         NEW addr \in Cabs \cup {0}, NEW off \in BOOLEAN,
         off \/ md.kind # "NONE"
  PROVE  LET n == Retrack(r, t, md, addr, off)
         IN /\ n \in TMRecords
            /\ OneProgTrack(n) /\ UnusedTracksDead(n) /\ JoinRecorded(n)
            /\ md.kind # "DC" => SideEffectsCleared(n)
            /\ \A u \in Tracks \ {t} :
                  /\ Kind(n, u) \in {"MAIN", "PROG", "EXT"} => ~n.brake[u]
                  /\ Kind(n, u) # "DC" => n.dcSig[u] = Detached /\ n.dcAddr[u] = 0
                  /\ Kind(n, u) = "DC" => n.dcSig[u] # Detached
            /\ n.mode[t] = md
            /\ n.dcAddr[t] \in Cabs \cup {0}
<1> DEFINE n == Retrack(r, t, md, addr, off)
           revoked == Revoked(r, t, md)
<1>1. r \in TMRecords
  BY DEF Sound
<1>2. /\ n \in TMRecords
      /\ \A u \in Tracks : n.mode[u] = IF u = t THEN md
            ELSE IF u \in revoked THEN Plain("NONE") ELSE r.mode[u]
      /\ \A u \in Tracks : n.isProg[u] <=>
            IF u = t THEN md.kind = "PROG" ELSE r.isProg[u] /\ u \notin revoked
      /\ \A u \in revoked : n.power[u] = "OFF"
      /\ off /\ md # r.mode[t] => n.power[t] = "OFF"
      /\ \A u \in Tracks : n.power[u] = r.power[u] \/ n.power[u] = "OFF"
      /\ \A u \in Tracks \ {t} : n.brake[u] = r.brake[u] /\ n.dcSig[u] = r.dcSig[u]
                                 /\ n.dcAddr[u] = r.dcAddr[u]
      /\ md.kind # "DC" => ~n.brake[t] /\ n.dcSig[t] = Detached /\ n.dcAddr[t] = 0
      /\ n.temp = IF Unsync(r, t, md) THEN NoTrack ELSE r.temp
      /\ n.sync <=> (r.sync /\ ~Unsync(r, t, md))
  BY <1>1, RetrackFields
<1> HIDE DEF n, revoked
<1>3. \A u \in Tracks \ {t} : Kind(n, u) = IF u \in revoked THEN "NONE" ELSE Kind(r, u)
  BY <1>2 DEF Kind, Plain
<1>4. Kind(n, t) = md.kind /\ n.mode[t] = md
  BY <1>2 DEF Kind
<1>5. md.kind = "PROG" => \A u \in Tracks \ {t} : Kind(n, u) # "PROG"
  BY <1>3 DEF revoked, Revoked, ProgTracks
<1>6. \A u \in revoked : Kind(r, u) = "PROG"
  BY DEF revoked, Revoked, ProgTracks
<1>7. OneProgTrack(n)
  <2>1. ASSUME NEW a \in Tracks, NEW b \in Tracks,
               Kind(n, a) = "PROG", Kind(n, b) = "PROG"
        PROVE  a = b
    <3>1. \A u \in Tracks \ {t} : Kind(n, u) = "PROG" => Kind(r, u) = "PROG"
      BY <1>3
    <3>2. CASE md.kind = "PROG"
      BY <2>1, <3>2, <1>5
    <3>3. CASE md.kind # "PROG"
      BY <2>1, <3>1, <3>3, <1>4 DEF Sound, OneProgTrack
    <3>4. QED
      BY <3>2, <3>3
  <2>2. \A u \in Tracks : n.isProg[u] <=> Kind(n, u) = "PROG"
    <3>1. \A u \in Tracks : r.isProg[u] <=> Kind(r, u) = "PROG"
      BY DEF Sound, OneProgTrack
    <3>2. QED
      BY <1>2, <1>3, <1>4, <3>1
  <2>3. QED
    BY <2>1, <2>2 DEF OneProgTrack
<1>8. UnusedTracksDead(n)
  <2>1. ASSUME NEW u \in Tracks, Kind(n, u) = "NONE"
        PROVE  n.power[u] = "OFF"
    <3>1. \A v \in Tracks : Kind(r, v) = "NONE" => r.power[v] = "OFF"
      BY DEF Sound, UnusedTracksDead
    <3>2. CASE u = t
      BY <1>2, <1>4, <2>1, <3>1, <3>2 DEF Kind
    <3>3. CASE u # t
      BY <1>2, <1>3, <2>1, <3>1, <3>3
    <3>4. QED
      BY <3>2, <3>3
  <2>2. QED
    BY <2>1 DEF UnusedTracksDead
<1>9. JoinRecorded(n)
  <2>1. r.sync <=> r.temp # NoTrack
    BY DEF Sound, JoinRecorded
  <2>2. n.sync <=> n.temp # NoTrack
    BY <1>2, <2>1
  <2>3. QED
    BY <2>2 DEF JoinRecorded
<1>10. \A u \in Tracks \ {t} :
          /\ Kind(n, u) \in {"MAIN", "PROG", "EXT"} => ~n.brake[u]
          /\ Kind(n, u) # "DC" => n.dcSig[u] = Detached /\ n.dcAddr[u] = 0
          /\ Kind(n, u) = "DC" => n.dcSig[u] # Detached
  <2> TAKE u \in Tracks \ {t}
  <2>1. /\ Kind(r, u) \in {"MAIN", "PROG", "EXT"} => ~r.brake[u]
        /\ Kind(r, u) # "DC" => r.dcSig[u] = Detached /\ r.dcAddr[u] = 0
        /\ Kind(r, u) = "DC" => r.dcSig[u] # Detached
    BY DEF Sound, SideEffectsCleared
  <2>2. n.brake[u] = r.brake[u] /\ n.dcSig[u] = r.dcSig[u] /\ n.dcAddr[u] = r.dcAddr[u]
    BY <1>2
  <2>3. CASE u \in revoked
    BY <1>3, <1>6, <2>1, <2>2, <2>3
  <2>4. CASE u \notin revoked
    BY <1>3, <2>1, <2>2, <2>4
  <2>5. QED
    BY <2>3, <2>4
<1>11. md.kind # "DC" => SideEffectsCleared(n)
  BY <1>2, <1>4, <1>10 DEF SideEffectsCleared
<1>12. n.dcAddr[t] \in Cabs \cup {0}
  BY <1>2 DEF TMRecords
<1>13. QED
  BY <1>2, <1>4, <1>7, <1>8, <1>9, <1>10, <1>11, <1>12 DEF n

\* setTrackMode keeps the tracks sound, DC included.
LEMMA SetTrackModeSound ==
  ASSUME NEW r, Sound(r), NEW spd \in SpeedMaps, NEW t, NEW md \in Modes,
         NEW addr \in Cabs \cup {0}
  PROVE  Sound(SetTrackMode(r, spd, t, md, addr))
<1>1. CASE ~Accepts(t, md)
  BY <1>1 DEF SetTrackMode
<1>2. CASE Accepts(t, md)
  <2> DEFINE n == Retrack(r, t, md, addr, TRUE)
             m == SetTrackMode(r, spd, t, md, addr)
  <2>1. t \in Tracks /\ (md.kind = "DC" => t \in CanBrake)
    BY <1>2 DEF Accepts
  <2>2. /\ n \in TMRecords
        /\ OneProgTrack(n) /\ UnusedTracksDead(n) /\ JoinRecorded(n)
        /\ md.kind # "DC" => SideEffectsCleared(n)
        /\ \A u \in Tracks \ {t} :
              /\ Kind(n, u) \in {"MAIN", "PROG", "EXT"} => ~n.brake[u]
              /\ Kind(n, u) # "DC" => n.dcSig[u] = Detached /\ n.dcAddr[u] = 0
              /\ Kind(n, u) = "DC" => n.dcSig[u] # Detached
        /\ n.mode[t] = md
        /\ n.dcAddr[t] \in Cabs \cup {0}
    BY <2>1, RetrackSound
  <2> HIDE DEF n
  <2>3. m = ApplyDCSpeed(n, spd, {t})
    BY <1>2 DEF SetTrackMode, n
  <2> HIDE DEF m
  <2>4. /\ m \in TMRecords
        /\ m.mode = n.mode /\ m.isProg = n.isProg /\ m.power = n.power
        /\ m.brake = n.brake /\ m.dcAddr = n.dcAddr
        /\ m.temp = n.temp /\ m.sync = n.sync
        /\ \A u \in Tracks \ {t} : m.dcSig[u] = n.dcSig[u]
        /\ m.dcSig[t] = IF md.kind = "DC" THEN spd[n.dcAddr[t]] ELSE n.dcSig[t]
    BY <2>1, <2>2, <2>3 DEF ApplyDCSpeed, Kind, TMRecords, SpeedMaps
  <2>5. \A u \in Tracks : Kind(m, u) = Kind(n, u)
    BY <2>4 DEF Kind
  <2>6. OneProgTrack(m) /\ UnusedTracksDead(m) /\ JoinRecorded(m)
    BY <2>2, <2>4, <2>5 DEF OneProgTrack, UnusedTracksDead, JoinRecorded
  <2>7. SideEffectsCleared(m)
    <3>1. CASE md.kind # "DC"
      BY <2>1, <2>2, <2>4, <2>5, <3>1 DEF SideEffectsCleared
    <3>2. CASE md.kind = "DC"
      <4>1. Kind(m, t) = "DC" /\ m.dcSig[t] # Detached
        BY <2>1, <2>2, <2>4, <2>5, <3>2, Numbers DEF Kind, SpeedMaps
      <4>2. \A u \in Tracks \ {t} :
              /\ Kind(m, u) \in {"MAIN", "PROG", "EXT"} => ~m.brake[u]
              /\ Kind(m, u) # "DC" => m.dcSig[u] = Detached /\ m.dcAddr[u] = 0
              /\ Kind(m, u) = "DC" => m.dcSig[u] # Detached
        BY <2>2, <2>4, <2>5
      <4>3. QED
        BY <4>1, <4>2 DEF SideEffectsCleared
    <3>3. QED
      BY <3>1, <3>2
  <2>8. QED
    BY <2>4, <2>6, <2>7 DEF Sound, m
<1>3. QED
  BY <1>1, <1>2

\* setJoin keeps the tracks sound in both directions.
LEMMA JoinSound ==
  ASSUME NEW r, Sound(r)
  PROVE  Sound(Join(r))
<1>1. CASE ProgTracks(r) = {}
  BY <1>1 DEF Join
<1>2. CASE ProgTracks(r) # {}
  <2> DEFINE md == Plain("MAIN")
             t == CHOOSE u \in ProgTracks(r) : \A v \in ProgTracks(r) : u <= v
             e == [r EXCEPT !.temp = t]
             n == Retrack(e, t, md, 0, FALSE)
             j == [n EXCEPT !.sync = TRUE]
  <2>1. PICK p \in Tracks : ProgTracks(r) = {p}
    <3>1. PICK p \in Tracks : Kind(r, p) = "PROG"
      BY <1>2 DEF ProgTracks
    <3>2. \A u \in Tracks : Kind(r, u) = "PROG" => u = p
      BY <3>1 DEF Sound, OneProgTrack
    <3>3. ProgTracks(r) = {p}
      BY <3>1, <3>2 DEF ProgTracks
    <3>4. QED
      BY <3>3
  <2>2. t = p /\ Kind(r, t) = "PROG"
    BY <2>1, Numbers DEF ProgTracks
  <2> HIDE DEF t
  <2>3. md \in Modes /\ md.kind = "MAIN" /\ t \in Tracks
    BY <2>1, <2>2 DEF Plain, Modes, Kinds
  <2> HIDE DEF md
  <2>4. /\ e \in TMRecords /\ e.temp = t
        /\ e.mode = r.mode /\ e.isProg = r.isProg /\ e.power = r.power
        /\ e.brake = r.brake /\ e.dcSig = r.dcSig /\ e.dcAddr = r.dcAddr
        /\ e.sync = r.sync
    BY <2>2 DEF Sound, TMRecords
  <2> HIDE DEF e
  <2>5. \A u \in Tracks : Kind(e, u) = Kind(r, u)
    BY <2>4 DEF Kind
  <2>6. /\ n \in TMRecords
        /\ \A u \in Tracks : n.mode[u] = IF u = t THEN md
              ELSE IF u \in Revoked(e, t, md) THEN Plain("NONE") ELSE e.mode[u]
        /\ \A u \in Tracks : n.isProg[u] <=>
              IF u = t THEN md.kind = "PROG"
              ELSE e.isProg[u] /\ u \notin Revoked(e, t, md)
        /\ \A u \in Tracks : n.power[u] = e.power[u] \/ n.power[u] = "OFF"
        /\ \A u \in Tracks \ {t} : n.brake[u] = e.brake[u] /\ n.dcSig[u] = e.dcSig[u]
                                   /\ n.dcAddr[u] = e.dcAddr[u]
        /\ md.kind # "DC" =>
              ~n.brake[t] /\ n.dcSig[t] = Detached /\ n.dcAddr[t] = 0
        /\ n.temp = IF Unsync(e, t, md) THEN NoTrack ELSE e.temp
    <3>1. PICK addr \in Cabs \cup {0} : addr = 0
      OBVIOUS
    <3>2. PICK off \in BOOLEAN : off = FALSE
      OBVIOUS
    <3>3. n = Retrack(e, t, md, addr, off)
      BY <3>1, <3>2
    <3> HIDE DEF n
    <3>4. QED
      BY <2>3, <2>4, <3>3, RetrackFields, SMTT(60)
  <2> HIDE DEF n
  <2>7. Revoked(e, t, md) = {} /\ ~Unsync(e, t, md)
    BY <2>2, <2>3, <2>5 DEF Revoked, Unsync
  <2>8. /\ j \in TMRecords /\ j.sync = TRUE /\ j.temp = t
        /\ j.mode = n.mode /\ j.isProg = n.isProg /\ j.power = n.power
        /\ j.brake = n.brake /\ j.dcSig = n.dcSig /\ j.dcAddr = n.dcAddr
    BY <2>4, <2>6, <2>7 DEF TMRecords
  <2>9. j = Join(r)
    BY <1>2 DEF Join, t, e, n, md
  <2> HIDE DEF j
  <2>10. Kind(j, t) = "MAIN" /\ \A u \in Tracks \ {t} : Kind(j, u) = Kind(r, u)
    BY <2>2, <2>3, <2>4, <2>6, <2>7, <2>8 DEF Kind
  <2>11. OneProgTrack(j)
    <3>1. \A u \in Tracks : Kind(j, u) # "PROG"
      BY <2>1, <2>2, <2>10 DEF ProgTracks
    <3>2. \A u \in Tracks : ~j.isProg[u]
      <4>1. \A u \in Tracks \ {t} : ~r.isProg[u]
        BY <2>1, <2>2 DEF ProgTracks, Sound, OneProgTrack
      <4>2. QED
        BY <2>2, <2>3, <2>4, <2>6, <2>7, <2>8, <4>1
    <3>3. QED
      BY <3>1, <3>2 DEF OneProgTrack
  <2>12. UnusedTracksDead(j)
    BY <2>2, <2>4, <2>6, <2>8, <2>10 DEF Sound, UnusedTracksDead
  <2>13. SideEffectsCleared(j)
    <3>1. \A u \in Tracks \ {t} :
            /\ Kind(j, u) \in {"MAIN", "PROG", "EXT"} => ~j.brake[u]
            /\ Kind(j, u) # "DC" => j.dcSig[u] = Detached /\ j.dcAddr[u] = 0
            /\ Kind(j, u) = "DC" => j.dcSig[u] # Detached
      BY <2>4, <2>6, <2>8, <2>10 DEF Sound, SideEffectsCleared
    <3>2. QED
      BY <2>3, <2>6, <2>8, <2>10, <3>1 DEF SideEffectsCleared
  <2>14. JoinRecorded(j)
    BY <2>2, <2>8, Numbers DEF JoinRecorded
  <2>15. QED
    BY <2>8, <2>9, <2>11, <2>12, <2>13, <2>14 DEF Sound
<1>3. QED
  BY <1>1, <1>2

LEMMA UnjoinSound ==
  ASSUME NEW r, Sound(r)
  PROVE  Sound(Unjoin(r))
<1> DEFINE back == IF r.temp = NoTrack THEN r
                   ELSE Retrack(r, r.temp, Plain("PROG"), 0, FALSE)
           j == [back EXCEPT !.temp = NoTrack, !.sync = FALSE]
<1>1. Plain("PROG") \in Modes /\ Plain("PROG").kind = "PROG"
  BY DEF Plain, Modes, Kinds
<1>2. /\ back \in TMRecords
      /\ OneProgTrack(back) /\ UnusedTracksDead(back) /\ SideEffectsCleared(back)
  <2>1. CASE r.temp = NoTrack
    BY <2>1 DEF Sound
  <2>2. CASE r.temp # NoTrack
    <3>1. r.temp \in Tracks
      BY <2>2 DEF Sound, TMRecords
    <3>2. QED
      BY <1>1, <2>2, <3>1, RetrackSound
  <2>3. QED
    BY <2>1, <2>2
<1> HIDE DEF back
<1>3. /\ j \in TMRecords /\ j.sync = FALSE /\ j.temp = NoTrack
      /\ j.mode = back.mode /\ j.isProg = back.isProg /\ j.power = back.power
      /\ j.brake = back.brake /\ j.dcSig = back.dcSig /\ j.dcAddr = back.dcAddr
  BY <1>2 DEF TMRecords
<1>4. j = Unjoin(r)
  BY DEF Unjoin, back
<1> HIDE DEF j
<1>5. \A u \in Tracks : Kind(j, u) = Kind(back, u)
  BY <1>3 DEF Kind
<1>6. OneProgTrack(j) /\ UnusedTracksDead(j) /\ JoinRecorded(j)
  BY <1>2, <1>3, <1>5 DEF OneProgTrack, UnusedTracksDead, JoinRecorded
<1>7. SideEffectsCleared(j)
  BY <1>2, <1>3, <1>5 DEF SideEffectsCleared
<1>8. QED
  BY <1>3, <1>4, <1>6, <1>7 DEF Sound

\* What does not touch modes and the join keeps the tracks sound if it keeps
\* unused tracks off, DCC tracks unbraked and DC signals where they belong.
LEMMA SameModesSound ==
  ASSUME NEW r, Sound(r), NEW n \in TMRecords,
         n.mode = r.mode, n.isProg = r.isProg, n.dcAddr = r.dcAddr,
         n.temp = r.temp, n.sync = r.sync,
         \A u \in Tracks : Kind(r, u) = "NONE" => n.power[u] = "OFF",
         \A u \in Tracks : Kind(r, u) \in {"MAIN", "PROG", "EXT"} => ~n.brake[u],
         \A u \in Tracks : n.dcSig[u] = r.dcSig[u]
                          \/ (Kind(r, u) = "DC" /\ n.dcSig[u] \in SpeedCodes)
  PROVE  Sound(n)
<1>1. \A u \in Tracks : Kind(n, u) = Kind(r, u)
  BY DEF Kind
<1>2. OneProgTrack(n)
  BY <1>1 DEF Sound, OneProgTrack
<1>3. UnusedTracksDead(n)
  BY <1>1 DEF UnusedTracksDead
<1>4. JoinRecorded(n)
  BY DEF Sound, JoinRecorded
<1>5. SideEffectsCleared(n)
  <2> SUFFICES ASSUME NEW u \in Tracks
               PROVE  /\ Kind(n, u) \in {"MAIN", "PROG", "EXT"} => ~n.brake[u]
                      /\ Kind(n, u) # "DC" => n.dcSig[u] = Detached /\ n.dcAddr[u] = 0
                      /\ Kind(n, u) = "DC" => n.dcSig[u] # Detached
    BY DEF SideEffectsCleared
  <2>1. /\ Kind(r, u) # "DC" => r.dcSig[u] = Detached /\ r.dcAddr[u] = 0
        /\ Kind(r, u) = "DC" => r.dcSig[u] # Detached
    BY DEF Sound, SideEffectsCleared
  <2>2. QED
    BY <1>1, <2>1, Numbers
<1>6. QED
  BY <1>2, <1>3, <1>4, <1>5 DEF Sound

\* A DC signal keeps the tracks sound, whoever sends it.
LEMMA SetDCSignalSound ==
  ASSUME NEW r, Sound(r), NEW cab, NEW s \in SpeedCodes
  PROVE  Sound(SetDCSignal(r, cab, s))
<1> DEFINE n == SetDCSignal(r, cab, s)
<1>1. r \in TMRecords
  BY DEF Sound
<1>2. /\ n \in TMRecords
      /\ n.mode = r.mode /\ n.isProg = r.isProg /\ n.dcAddr = r.dcAddr
      /\ n.temp = r.temp /\ n.sync = r.sync
      /\ n.power = r.power /\ n.brake = r.brake
      /\ \A u \in Tracks : n.dcSig[u] = r.dcSig[u]
                          \/ (Kind(r, u) = "DC" /\ n.dcSig[u] \in SpeedCodes)
  BY <1>1 DEF SetDCSignal, TMRecords
<1> HIDE DEF n
<1>3. /\ \A u \in Tracks : Kind(r, u) = "NONE" => n.power[u] = "OFF"
      /\ \A u \in Tracks : Kind(r, u) \in {"MAIN", "PROG", "EXT"} => ~n.brake[u]
  BY <1>2 DEF Sound, UnusedTracksDead, SideEffectsCleared
<1>4. Sound(n)
  BY <1>2, <1>3, SameModesSound
<1>5. QED
  BY <1>4 DEF n

\* Switching tracks that are in use keeps the tracks sound.
LEMMA SwitchSound ==
  ASSUME NEW r, Sound(r), NEW spd \in SpeedMaps, NEW ts \in SUBSET Tracks,
         \A t \in ts : Kind(r, t) # "NONE",
         NEW pm \in {"ON", "OFF"}
  PROVE  Sound(Switch(r, spd, ts, pm))
<1> DEFINE dc == {t \in ts : Kind(r, t) = "DC"}
           a == SetBrake(r, dc, TRUE)
           b == SetBrake(a, ts \ dc, FALSE)
           c == ApplyDCSpeed(b, spd, dc)
           ready == IF pm # "ON" THEN r ELSE c
           n == [ready EXCEPT !.power = [t \in Tracks |-> IF t \in ts THEN pm ELSE @[t]]]
<1>1. r \in TMRecords
  BY DEF Sound
<1>2. dc \subseteq Tracks /\ \A u \in dc : Kind(r, u) = "DC"
  OBVIOUS
<1> HIDE DEF dc
<1>3. /\ a \in TMRecords
      /\ a.mode = r.mode /\ a.isProg = r.isProg /\ a.dcAddr = r.dcAddr
      /\ a.temp = r.temp /\ a.sync = r.sync /\ a.power = r.power /\ a.dcSig = r.dcSig
      /\ \A u \in Tracks \ dc : a.brake[u] = r.brake[u]
  BY <1>1 DEF SetBrake, TMRecords
<1> HIDE DEF a
<1>4. /\ b \in TMRecords
      /\ b.mode = r.mode /\ b.isProg = r.isProg /\ b.dcAddr = r.dcAddr
      /\ b.temp = r.temp /\ b.sync = r.sync /\ b.power = r.power /\ b.dcSig = r.dcSig
      /\ \A u \in Tracks \ dc : b.brake[u] = a.brake[u] \/ b.brake[u] = FALSE
  BY <1>3 DEF SetBrake, TMRecords
<1> HIDE DEF b
<1>5. /\ c \in TMRecords
      /\ c.mode = r.mode /\ c.isProg = r.isProg /\ c.dcAddr = r.dcAddr
      /\ c.temp = r.temp /\ c.sync = r.sync /\ c.power = r.power /\ c.brake = b.brake
      /\ \A u \in Tracks : c.dcSig[u] = r.dcSig[u]
                          \/ (Kind(r, u) = "DC" /\ c.dcSig[u] \in SpeedCodes)
  BY <1>2, <1>4 DEF ApplyDCSpeed, TMRecords, Kind, SpeedMaps
<1> HIDE DEF c
<1>6. \A u \in Tracks : Kind(r, u) \in {"MAIN", "PROG", "EXT"} => ~r.brake[u]
  BY DEF Sound, SideEffectsCleared
<1>7. \A u \in Tracks : Kind(r, u) \in {"MAIN", "PROG", "EXT"} => ~c.brake[u]
  BY <1>2, <1>3, <1>4, <1>5, <1>6
<1>8. /\ ready \in TMRecords
      /\ ready.mode = r.mode /\ ready.isProg = r.isProg /\ ready.dcAddr = r.dcAddr
      /\ ready.temp = r.temp /\ ready.sync = r.sync /\ ready.power = r.power
      /\ \A u \in Tracks : Kind(r, u) \in {"MAIN", "PROG", "EXT"} => ~ready.brake[u]
      /\ \A u \in Tracks : ready.dcSig[u] = r.dcSig[u]
                          \/ (Kind(r, u) = "DC" /\ ready.dcSig[u] \in SpeedCodes)
  BY <1>1, <1>5, <1>6, <1>7
<1> HIDE DEF ready
<1>9. /\ n \in TMRecords
      /\ n.mode = r.mode /\ n.isProg = r.isProg /\ n.dcAddr = r.dcAddr
      /\ n.temp = r.temp /\ n.sync = r.sync
      /\ n.brake = ready.brake /\ n.dcSig = ready.dcSig
      /\ \A u \in Tracks : n.power[u] = IF u \in ts THEN pm ELSE r.power[u]
  BY <1>8 DEF TMRecords, PowerModes
<1>10. n = Switch(r, spd, ts, pm)
  BY DEF Switch, ready, c, b, a, dc
<1> HIDE DEF n
<1>11. \A u \in Tracks : Kind(r, u) = "NONE" => n.power[u] = "OFF"
  BY <1>9 DEF Sound, UnusedTracksDead
<1>12. Sound(n)
  BY <1>8, <1>9, <1>11, SameModesSound
<1>13. QED
  BY <1>10, <1>12

\* Both forms of setTrackPower keep the tracks sound.
LEMMA SetTrackPowerSound ==
  ASSUME NEW r, Sound(r), NEW spd \in SpeedMaps, NEW kinds, "NONE" \notin kinds,
         NEW pm \in {"ON", "OFF"}
  PROVE  Sound(SetTrackPower(r, spd, kinds, pm))
<1> DEFINE ts == {t \in Tracks : Kind(r, t) \in kinds}
<1>1. ts \in SUBSET Tracks /\ \A t \in ts : Kind(r, t) # "NONE"
  OBVIOUS
<1> HIDE DEF ts
<1>2. Sound(Switch(r, spd, ts, pm))
  BY <1>1, SwitchSound
<1>3. QED
  BY <1>2 DEF SetTrackPower, ts

LEMMA SetOnePowerSound ==
  ASSUME NEW r, Sound(r), NEW spd \in SpeedMaps, NEW t \in Tracks,
         NEW pm \in {"ON", "OFF"}
  PROVE  Sound(SetOnePower(r, spd, t, pm))
<1>1. CASE Kind(r, t) # "NONE"
  <2>1. {t} \in SUBSET Tracks /\ \A u \in {t} : Kind(r, u) # "NONE"
    BY <1>1
  <2>2. Sound(Switch(r, spd, {t}, pm))
    BY <2>1, SwitchSound
  <2>3. QED
    BY <1>1, <2>2 DEF SetOnePower
<1>2. CASE Kind(r, t) = "NONE"
  <2> DEFINE a == SetBrake(r, {t}, TRUE)
             n == [a EXCEPT !.power[t] = "OFF"]
  <2>1. r \in TMRecords
    BY DEF Sound
  <2>2. /\ a \in TMRecords
        /\ a.mode = r.mode /\ a.isProg = r.isProg /\ a.dcAddr = r.dcAddr
        /\ a.temp = r.temp /\ a.sync = r.sync /\ a.power = r.power /\ a.dcSig = r.dcSig
        /\ \A u \in Tracks \ {t} : a.brake[u] = r.brake[u]
    BY <2>1 DEF SetBrake, TMRecords
  <2> HIDE DEF a
  <2>3. /\ n \in TMRecords
        /\ n.mode = r.mode /\ n.isProg = r.isProg /\ n.dcAddr = r.dcAddr
        /\ n.temp = r.temp /\ n.sync = r.sync /\ n.dcSig = r.dcSig
        /\ n.brake = a.brake
        /\ \A u \in Tracks : n.power[u] = IF u = t THEN "OFF" ELSE r.power[u]
    BY <2>2 DEF TMRecords, PowerModes
  <2>4. n = SetOnePower(r, spd, t, pm)
    BY <1>2 DEF SetOnePower, a
  <2> HIDE DEF n
  <2>5. \A u \in Tracks : Kind(r, u) = "NONE" => n.power[u] = "OFF"
    BY <2>3 DEF Sound, UnusedTracksDead
  <2>6. \A u \in Tracks : Kind(r, u) \in {"MAIN", "PROG", "EXT"} => ~n.brake[u]
    BY <1>2, <2>2, <2>3 DEF Sound, SideEffectsCleared
  <2>7. Sound(n)
    BY <2>3, <2>5, <2>6, SameModesSound
  <2>8. QED
    BY <2>4, <2>7
<1>3. QED
  BY <1>1, <1>2

\* The mechanism that reacts to overloads never touches a track that is off.
LEMMA OverloadSound ==
  ASSUME Sound(tm), NEW t \in Tracks, CheckPowerOverload(t)
  PROVE  Sound(tm')
<1>1. PICK step \in OverloadSteps :
         /\ tm.power[t] = step[1]
         /\ tm' = [tm EXCEPT !.power[t] = step[2]]
  BY DEF CheckPowerOverload
<1>2. step[1] # "OFF" /\ step[2] \in PowerModes
  BY DEF OverloadSteps, PowerModes
<1>3. tm \in TMRecords
  BY DEF Sound
<1>4. /\ tm' \in TMRecords
      /\ tm'.mode = tm.mode /\ tm'.isProg = tm.isProg /\ tm'.dcAddr = tm.dcAddr
      /\ tm'.temp = tm.temp /\ tm'.sync = tm.sync
      /\ tm'.brake = tm.brake /\ tm'.dcSig = tm.dcSig
      /\ \A u \in Tracks \ {t} : tm'.power[u] = tm.power[u]
  BY <1>1, <1>2, <1>3 DEF TMRecords
<1>5. \A u \in Tracks : Kind(tm, u) = "NONE" => tm'.power[u] = "OFF"
  BY <1>1, <1>2, <1>4 DEF Sound, UnusedTracksDead
<1>6. \A u \in Tracks : Kind(tm, u) \in {"MAIN", "PROG", "EXT"} => ~tm'.brake[u]
  BY <1>4 DEF Sound, SideEffectsCleared
<1>7. QED
  BY <1>4, <1>5, <1>6, SameModesSound

\* Setting or clearing the boost changes nothing else.
LEMMA BoostSound ==
  ASSUME NEW r, Sound(r), NEW on \in BOOLEAN
  PROVE  Sound([r EXCEPT !.boosted = on])
<1> DEFINE n == [r EXCEPT !.boosted = on]
<1>1. r \in TMRecords
  BY DEF Sound
<1>2. /\ n \in TMRecords
      /\ n.mode = r.mode /\ n.isProg = r.isProg /\ n.dcAddr = r.dcAddr
      /\ n.temp = r.temp /\ n.sync = r.sync /\ n.power = r.power
      /\ n.brake = r.brake /\ n.dcSig = r.dcSig
  BY <1>1 DEF TMRecords
<1> HIDE DEF n
<1>3. /\ \A u \in Tracks : Kind(r, u) = "NONE" => n.power[u] = "OFF"
      /\ \A u \in Tracks : Kind(r, u) \in {"MAIN", "PROG", "EXT"} => ~n.brake[u]
  BY <1>2 DEF Sound, UnusedTracksDead, SideEffectsCleared
<1>4. Sound(n)
  BY <1>2, <1>3, SameModesSound
<1>5. QED
  BY <1>4 DEF n

\* Tracks without a mode, as addTrack leaves them, are sound.
LEMMA AddedSound == Sound(Added)
<1>1. Added \in TMRecords
  BY DEF Added, TMRecords, PowerModes, Plain, Modes, Kinds
<1>2. \A t \in Tracks : Kind(Added, t) = "NONE"
  BY DEF Kind, Added, Plain
<1>3. OneProgTrack(Added) /\ UnusedTracksDead(Added)
  BY <1>2 DEF OneProgTrack, UnusedTracksDead, Added
<1>4. SideEffectsCleared(Added)
  BY <1>2 DEF SideEffectsCleared, Added
<1>5. JoinRecorded(Added)
  BY DEF JoinRecorded, Added
<1>6. QED
  BY <1>1, <1>3, <1>4, <1>5 DEF Sound

\* Users name cabs, kinds and modifiers that there are.
LEMMA Users ==
  ASSUME usage \in Usages
  PROVE  usage.cabs \subseteq Cabs /\ usage.kinds \subseteq Kinds /\ usage.mods \subseteq Mods
<1>1. usage \in [cabs : SUBSET Cabs, kinds : SUBSET Kinds, mods : SUBSET Mods]
  BY DistrictsAssumption
<1>2. QED
  BY <1>1

\* The tracks as Setup leaves them are sound.
LEMMA InitIInv == Init => IInv
<1> SUFFICES ASSUME Init PROVE IInv
  OBVIOUS
<1> DEFINE spd == [c \in Cabs \cup {0} |-> 0]
           first == SetTrackMode(Added, spd, 0, Plain("MAIN"), 0)
           second == SetTrackMode(first, spd, 1, Plain("PROG"), 0)
<1>1. spd \in SpeedMaps
  BY Numbers DEF SpeedMaps
<1> HIDE DEF spd
<1>2. Plain("MAIN") \in Modes /\ Plain("PROG") \in Modes /\ Plain("NONE") \in Modes
  BY DEF Plain, Modes, Kinds
<1>3. Sound(Added)
  BY AddedSound
<1>4. PICK addr \in Cabs \cup {0} : addr = 0
  OBVIOUS
<1>5. Sound(first)
  BY <1>1, <1>2, <1>3, <1>4, SetTrackModeSound
<1> HIDE DEF first
<1>6. Sound(second)
  BY <1>1, <1>2, <1>4, <1>5, SetTrackModeSound
<1>7. tm = second
  BY DEF Init, Setup, second, first, spd
<1>8. QED
  BY <1>6, <1>7, Numbers DEF Init, IInv

\* Every command, overload step and reminder preserves the invariant.
LEMMA NextIInv == IInv /\ [Next]_vars => IInv'
<1> SUFFICES ASSUME IInv, [Next]_vars PROVE IInv'
  OBVIOUS
<1>1. Sound(tm) /\ LocoSpeedByte \in SpeedMaps
  BY Numbers DEF IInv, LocoSpeedByte, SpeedMaps
<1>2. PICK zero \in Cabs \cup {0} : zero = 0
  OBVIOUS
<1>3. CASE TrackCommand
  <2>1. Sound(tm') /\ UNCHANGED locoVars
    <3>0. usage.cabs \subseteq Cabs /\ usage.kinds \subseteq Kinds /\ usage.mods \subseteq Mods
      BY Users DEF IInv
    <3>1. ASSUME NEW t \in Tracks, NEW md \in [kind : Kinds, mods : SUBSET Mods],
                 CmdMode(t, md)
          PROVE  Sound(tm') /\ UNCHANGED locoVars
      <4>1. md \in Modes
        BY DistrictsAssumption DEF Modes
      <4>2. QED
        BY <1>1, <1>2, <3>1, <4>1, SetTrackModeSound DEF CmdMode
    <3>2. ASSUME NEW t \in Tracks, NEW mods \in SUBSET Mods, NEW cab \in Cabs,
                 CmdDC(t, mods, cab)
          PROVE  Sound(tm') /\ UNCHANGED locoVars
      <4>1. [kind |-> "DC", mods |-> mods] \in Modes
        BY DistrictsAssumption DEF Modes, Kinds
      <4>2. QED
        BY <1>1, <3>2, <4>1, SetTrackModeSound DEF CmdDC
    <3>3. ASSUME NEW t \in Tracks, NEW m \in Mods, CmdModifier(t, m)
          PROVE  Sound(tm') /\ UNCHANGED locoVars
      <4>1. [tm.mode[t] EXCEPT !.mods = @ \cup {m}] \in Modes
        BY <1>1, DistrictsAssumption DEF Sound, TMRecords, Modes
      <4>2. QED
        BY <1>1, <1>2, <3>3, <4>1, SetTrackModeSound DEF CmdModifier
    <3>4. ASSUME NEW t \in Tracks, CmdTrackOn(t)
          PROVE  Sound(tm') /\ UNCHANGED locoVars
      BY <1>1, <3>4, SetOnePowerSound DEF CmdTrackOn
    <3>5. ASSUME NEW t \in Tracks, CmdTrackOff(t)
          PROVE  Sound(tm') /\ UNCHANGED locoVars
      BY <1>1, <3>5, UnjoinSound, SetOnePowerSound DEF CmdTrackOff
    <3>6. ASSUME NEW kinds \in {TRACK_ALL, {"MAIN"}}, CmdPowerOn(kinds)
          PROVE  Sound(tm') /\ UNCHANGED locoVars
      <4>1. "NONE" \notin kinds
        BY DEF TRACK_ALL
      <4>2. QED
        BY <1>1, <3>6, <4>1, SetTrackPowerSound DEF CmdPowerOn
    <3>7. ASSUME NEW kinds \in {TRACK_ALL, {"MAIN"}}, CmdPowerOff(kinds)
          PROVE  Sound(tm') /\ UNCHANGED locoVars
      <4>1. "NONE" \notin kinds
        BY DEF TRACK_ALL
      <4>2. QED
        BY <1>1, <3>7, <4>1, UnjoinSound, SetTrackPowerSound DEF CmdPowerOff
    <3>8. CASE CmdJoin
      <4>1. "NONE" \notin {"MAIN", "PROG"}
        OBVIOUS
      <4>2. QED
        BY <1>1, <3>8, <4>1, JoinSound, SetTrackPowerSound DEF CmdJoin
    <3>9. CASE CmdProgOn
      <4>1. "NONE" \notin {"PROG"}
        OBVIOUS
      <4>2. QED
        BY <1>1, <3>9, <4>1, UnjoinSound, SetTrackPowerSound DEF CmdProgOn
    <3>10. CASE CmdProgOff
      <4>1. "NONE" \notin {"PROG"}
        OBVIOUS
      <4>2. Sound([Unjoin(tm) EXCEPT !.boosted = FALSE])
        BY <1>1, UnjoinSound, BoostSound
      <4>3. QED
        BY <1>1, <3>10, <4>1, <4>2, SetTrackPowerSound DEF CmdProgOff
    <3>11. CASE CmdProgBoost
      BY <1>1, <3>11, BoostSound DEF CmdProgBoost
    <3>12. QED
      <4>1. CASE ModeCommand
        BY <3>0, <3>1, <3>2, <3>3, <4>1 DEF ModeCommand
      <4>2. QED
        BY <1>3, <3>4, <3>5, <3>6, <3>7, <3>8, <3>9, <3>10, <3>11, <4>1 DEF TrackCommand
  <2>2. QED
    BY <2>1 DEF IInv, locoVars
<1>4. ASSUME NEW t \in Tracks, CheckPowerOverload(t)
      PROVE  IInv'
  <2>1. Sound(tm')
    BY <1>1, <1>4, OverloadSound
  <2>2. QED
    BY <1>4, <2>1 DEF IInv, CheckPowerOverload, locoVars
<1>5. ASSUME NEW cab \in Cabs, NEW s \in SpeedCodes, NEW told \in BOOLEAN, Drive(cab, s, told)
      PROVE  Sound(tm') /\ speed' \in [Cabs -> SpeedCodes] /\ astray' \subseteq Cabs
  <2>1. Sound(tm')
    BY <1>1, <1>5, SetDCSignalSound DEF Drive
  <2>2. Train(cab) \subseteq Cabs
    BY DEF Train, Followers
  <2>3. QED
    BY <1>5, <2>1, <2>2 DEF Drive, IInv
<1>6. Sound(SetDCSignal(tm, 0, 1))
  BY <1>1, SetDCSignalSound, Numbers
<1>7. CASE LocoCommand
  <2>1. ASSUME NEW cab \in Cabs, NEW s \in SpeedCodes, NEW mom \in BOOLEAN,
               SetThrottle(cab, s, mom)
        PROVE  IInv'
    <3>1. Sound(tm') /\ speed' \in [Cabs -> SpeedCodes] /\ astray' \subseteq Cabs
      <4>1. CASE UNCHANGED <<tm, speed, astray>>
        BY <1>1, <4>1 DEF IInv
      <4>2. CASE Drive(cab, s, TRUE)
        <5>1. PICK told \in BOOLEAN : told = TRUE
          OBVIOUS
        <5>2. QED
          BY <1>5, <4>2, <5>1
      <4>3. QED
        BY <2>1, <4>1, <4>2 DEF SetThrottle
    <3>2. target' \in [Cabs -> SpeedCodes]
      BY <2>1 DEF SetThrottle, IInv
    <3>3. QED
      BY <2>1, <3>1, <3>2 DEF SetThrottle, IInv
  <2>2. ASSUME NEW cab \in Cabs, ForgetLoco(cab)
        PROVE  IInv'
    BY <1>1, <2>2, Numbers DEF ForgetLoco, IInv, Unchained
  <2>3. CASE EstopAll
    BY <1>6, <2>3, Numbers DEF EstopAll, IInv
  <2>4. ASSUME NEW lock \in BOOLEAN, EstopLock(lock)
        PROVE  IInv'
    <3>1. Sound(tm')
      BY <1>1, <1>6, <2>4 DEF EstopLock
    <3>2. QED
      BY <2>4, <3>1 DEF EstopLock, IInv
  <2>5. CASE ForgetAllLocos
    BY <1>1, <2>5, Numbers DEF ForgetAllLocos, IInv
  <2>6. ASSUME NEW cab \in Cabs, NEW others \in SUBSET Cabs, ConsistCommand(cab, others)
        PROVE  IInv'
    <3>1. lead' \in [Cabs -> Cabs \cup {0}] /\ known' \subseteq Cabs
      BY <2>6 DEF ConsistCommand, Unchained, IInv
    <3>2. QED
      BY <1>1, <2>6, <3>1 DEF ConsistCommand, IInv
  <2>7. ASSUME NEW cab \in Cabs, NEW c \in Cabs, BuildConsist(cab, c)
        PROVE  IInv'
    <3>1. lead' \in [Cabs -> Cabs \cup {0}] /\ known' \subseteq Cabs
      BY <2>7 DEF BuildConsist, IInv
    <3>2. QED
      BY <1>1, <2>7, <3>1 DEF BuildConsist, IInv
  <2>8. ASSUME NEW cab \in Cabs, BreakConsist(cab)
        PROVE  IInv'
    BY <1>1, <2>8 DEF BreakConsist, IInv, Unchained
  <2>9. usage.cabs \subseteq Cabs
    BY Users DEF IInv
  <2>10. QED
    BY <1>7, <2>1, <2>2, <2>3, <2>4, <2>5, <2>6, <2>7, <2>8, <2>9 DEF LocoCommand
<1>8. CASE Reminders
  <2>1. PICK cab \in Cabs : Remind(cab)
    BY <1>8, Users DEF Reminders, IInv
  <2>2. PICK s \in SpeedCodes, told \in BOOLEAN : Drive(cab, s, told)
    BY <2>1 DEF Remind, Between, IInv
  <2>3. QED
    BY <1>5, <2>1, <2>2 DEF Remind, IInv
<1>9. CASE UNCHANGED vars
  BY <1>9 DEF IInv, vars
<1>10. QED
  BY <1>3, <1>4, <1>7, <1>8, <1>9 DEF Next

\* The inductive invariant holds in every reachable state.
THEOREM Inductive == Spec => []IInv
<1>1. QED
  BY InitIInv, NextIInv, PTL DEF Spec

\* The fields of the track record and of the loco slots keep their types
\* under all commands.
THEOREM TypeCorrect == Spec => []TypeOK
<1>1. IInv => TypeOK
  BY DEF IInv, Sound, TypeOK
<1>2. QED
  BY <1>1, Inductive, PTL

\* At most one track is the programming track, and its driver alone knows it,
\* for any number of tracks (setTrackMode's "only allow 1 track to be prog").
THEOREM OneProgTrackOnly == Spec => []OneProg
<1>1. IInv => OneProg
  BY DEF IInv, Sound, OneProg
<1>2. QED
  BY <1>1, Inductive, PTL

\* A track in mode NONE is never powered, for any number of tracks.
THEOREM UnusedTracksStayDead == Spec => []UnusedIsDead
<1>1. IInv => UnusedIsDead
  BY DEF IInv, Sound, UnusedIsDead
<1>2. QED
  BY <1>1, Inductive, PTL

\* No DCC track keeps a brake, a DC signal or a cab from an earlier mode, and
\* no DC track is left without a signal.
THEOREM ModesLeaveNothingBehind == Spec => []NoSideEffects
<1>1. IInv => NoSideEffects
  BY DEF IInv, Sound, NoSideEffects
<1>2. QED
  BY <1>1, Inductive, PTL

\* The join flag and the remembered track are set and cleared together.
THEOREM JoinIsRemembered == Spec => []JoinRemembered
<1>1. IInv => JoinRemembered
  BY DEF IInv, Sound, JoinRemembered
<1>2. QED
  BY <1>1, Inductive, PTL

\* One programming track, dead unused tracks and joins that can be undone, for any
\* number of tracks and under every command.
THEOREM TracksAlwaysAgree == Spec => []TracksAgree
<1>1. IInv => TracksAgree
  BY DEF IInv, Sound, TracksAgree, OneProg, UnusedIsDead, JoinRemembered
<1>2. QED
  BY <1>1, Inductive, PTL
-----------------------------------------------------------------------------
(***************************************************************************)
(* DC tracks follow their throttles. A record follows a speed map, but for  *)
(* the cabs A, when every DC track has a brake pin to carry its signal and *)
(* the signal is the speed the map gives for its cab, if that is not in A. *)
(* The track commands keep the map and read it; the throttle, stop and     *)
(* reminder code changes the map and the signals together, or adds to A.   *)
(***************************************************************************)
FollowsAt(r, spd, A, t) ==
    Kind(r, t) = "DC" =>
        /\ t \in CanBrake
        /\ r.dcAddr[t] \in A \/ SameSpeed(r.dcSig[t], spd[r.dcAddr[t]])

Follows(r, spd, A) == \A t \in Tracks : FollowsAt(r, spd, A, t)

\* The inductive invariant: a cab without a slot stands still and follows nobody,
\* and the DC tracks follow but for the locos astray.
FollowInv ==
    /\ IInv
    /\ \A c \in Cabs \ known : speed[c] = 0 /\ lead[c] = 0
    /\ Follows(tm, LocoSpeedByte, astray)

\* A DC signal that is kept or set to the speed of the cab follows it.
LEMMA SameModesFollow ==
  ASSUME NEW r, NEW spd, NEW A, Follows(r, spd, A), NEW n,
         n.mode = r.mode, n.dcAddr = r.dcAddr,
         \A u \in Tracks : n.dcSig[u] = r.dcSig[u] \/ n.dcSig[u] = spd[r.dcAddr[u]]
  PROVE  Follows(n, spd, A)
<1> SUFFICES ASSUME NEW u \in Tracks PROVE FollowsAt(n, spd, A, u)
  BY DEF Follows
<1>1. FollowsAt(r, spd, A, u)
  BY DEF Follows
<1>2. QED
  BY <1>1 DEF FollowsAt, Kind, SameSpeed

\* A new mode leaves the other tracks following, and the track itself too
\* when the mode is not DC.
LEMMA RetrackFollow ==
  ASSUME NEW r \in TMRecords, NEW spd, NEW A, Follows(r, spd, A), NEW t \in Tracks,
         NEW md \in Modes, NEW addr \in Cabs \cup {0}, NEW off \in BOOLEAN
  PROVE  LET n == Retrack(r, t, md, addr, off)
         IN /\ \A u \in Tracks \ {t} : FollowsAt(n, spd, A, u)
            /\ md.kind # "DC" => Follows(n, spd, A)
            /\ n \in TMRecords /\ n.mode[t] = md
<1> DEFINE n == Retrack(r, t, md, addr, off)
<1>1. /\ n \in TMRecords
      /\ \A u \in Tracks : n.mode[u] = IF u = t THEN md
            ELSE IF u \in Revoked(r, t, md) THEN Plain("NONE") ELSE r.mode[u]
      /\ \A u \in Tracks \ {t} : n.dcSig[u] = r.dcSig[u] /\ n.dcAddr[u] = r.dcAddr[u]
  BY RetrackFields
<1> HIDE DEF n
<1>2. ASSUME NEW u \in Tracks \ {t} PROVE FollowsAt(n, spd, A, u)
  <2>1. FollowsAt(r, spd, A, u)
    BY DEF Follows
  <2>2. Kind(n, u) = "NONE" \/ Kind(n, u) = Kind(r, u)
    BY <1>1 DEF Kind, Plain
  <2>3. QED
    BY <1>1, <2>1, <2>2 DEF FollowsAt
<1>3. n.mode[t] = md
  BY <1>1
<1>4. md.kind # "DC" => Follows(n, spd, A)
  BY <1>2, <1>3 DEF Follows, FollowsAt, Kind
<1>5. QED
  BY <1>1, <1>2, <1>3, <1>4 DEF n

\* setTrackMode starts a DC track at the speed of its cab.
LEMMA SetTrackModeFollow ==
  ASSUME NEW r \in TMRecords, NEW spd, NEW A, Follows(r, spd, A), NEW t, NEW md \in Modes,
         NEW addr \in Cabs \cup {0}
  PROVE  Follows(SetTrackMode(r, spd, t, md, addr), spd, A)
<1>1. CASE ~Accepts(t, md)
  BY <1>1 DEF SetTrackMode
<1>2. CASE Accepts(t, md)
  <2> DEFINE n == Retrack(r, t, md, addr, TRUE)
             m == SetTrackMode(r, spd, t, md, addr)
  <2>1. t \in Tracks /\ (md.kind = "DC" => t \in CanBrake)
    BY <1>2 DEF Accepts
  <2>2. /\ \A u \in Tracks \ {t} : FollowsAt(n, spd, A, u)
        /\ n \in TMRecords /\ n.mode[t] = md
    <3>1. PICK off \in BOOLEAN : off = TRUE
      OBVIOUS
    <3>2. n = Retrack(r, t, md, addr, off)
      BY <3>1
    <3> HIDE DEF n
    <3>3. QED
      BY <2>1, <3>2, RetrackFollow
  <2> HIDE DEF n
  <2>3. m = ApplyDCSpeed(n, spd, {t})
    BY <1>2 DEF SetTrackMode, n
  <2> HIDE DEF m
  <2>4. /\ m.mode = n.mode /\ m.dcAddr = n.dcAddr
        /\ \A u \in Tracks \ {t} : m.dcSig[u] = n.dcSig[u]
        /\ md.kind = "DC" => m.dcSig[t] = spd[n.dcAddr[t]]
    BY <2>1, <2>2, <2>3 DEF ApplyDCSpeed, Kind, TMRecords
  <2>5. \A u \in Tracks \ {t} : FollowsAt(m, spd, A, u)
    BY <2>2, <2>4 DEF FollowsAt, Kind
  <2>6. FollowsAt(m, spd, A, t)
    BY <2>1, <2>2, <2>4 DEF FollowsAt, Kind, SameSpeed
  <2>7. QED
    BY <2>5, <2>6 DEF Follows, m
<1>3. QED
  BY <1>1, <1>2

\* Joining and unjoining set DCC modes only.
LEMMA JoinFollow ==
  ASSUME NEW r, Sound(r), NEW spd, NEW A, Follows(r, spd, A)
  PROVE  Follows(Join(r), spd, A)
<1>1. CASE ProgTracks(r) = {}
  BY <1>1 DEF Join
<1>2. CASE ProgTracks(r) # {}
  <2> DEFINE t == CHOOSE u \in ProgTracks(r) : \A v \in ProgTracks(r) : u <= v
             e == [r EXCEPT !.temp = t]
             n == Retrack(e, t, Plain("MAIN"), 0, FALSE)
             j == [n EXCEPT !.sync = TRUE]
  <2>1. t \in Tracks
    <3>1. PICK p \in Tracks : Kind(r, p) = "PROG"
      BY <1>2 DEF ProgTracks
    <3>2. \A u \in Tracks : Kind(r, u) = "PROG" => u = p
      BY <3>1 DEF Sound, OneProgTrack
    <3>3. ProgTracks(r) = {p}
      BY <3>1, <3>2 DEF ProgTracks
    <3>4. p <= p
      BY Numbers
    <3>5. QED
      BY <3>3, <3>4
  <2> HIDE DEF t
  <2>2. /\ e \in TMRecords /\ e.mode = r.mode
        /\ e.dcAddr = r.dcAddr /\ e.dcSig = r.dcSig
    BY <2>1 DEF Sound, TMRecords
  <2> HIDE DEF e
  <2>3. Follows(e, spd, A)
    BY <2>2, SameModesFollow
  <2>4. Plain("MAIN") \in Modes /\ Plain("MAIN").kind # "DC"
    BY DEF Plain, Modes, Kinds
  <2>5. PICK addr \in Cabs \cup {0} : addr = 0
    OBVIOUS
  <2>6. PICK off \in BOOLEAN : off = FALSE
    OBVIOUS
  <2>7. n = Retrack(e, t, Plain("MAIN"), addr, off)
    BY <2>5, <2>6
  <2> HIDE DEF n
  <2>8. Follows(n, spd, A) /\ n \in TMRecords
    BY <2>1, <2>2, <2>3, <2>4, <2>7, RetrackFollow
  <2>9. j.mode = n.mode /\ j.dcAddr = n.dcAddr /\ j.dcSig = n.dcSig
    BY <2>8 DEF TMRecords
  <2>10. j = Join(r)
    BY <1>2 DEF Join, t, e, n
  <2> HIDE DEF j
  <2>11. Follows(j, spd, A)
    BY <2>8, <2>9, SameModesFollow
  <2>12. QED
    BY <2>10, <2>11
<1>3. QED
  BY <1>1, <1>2

LEMMA UnjoinFollow ==
  ASSUME NEW r \in TMRecords, NEW spd, NEW A, Follows(r, spd, A)
  PROVE  Follows(Unjoin(r), spd, A) /\ Unjoin(r) \in TMRecords
<1> DEFINE back == IF r.temp = NoTrack THEN r
                   ELSE Retrack(r, r.temp, Plain("PROG"), 0, FALSE)
           j == [back EXCEPT !.temp = NoTrack, !.sync = FALSE]
<1>1. Follows(back, spd, A) /\ back \in TMRecords
  <2>1. CASE r.temp = NoTrack
    BY <2>1
  <2>2. CASE r.temp # NoTrack
    <3>1. r.temp \in Tracks
      BY <2>2 DEF TMRecords
    <3>2. Plain("PROG") \in Modes /\ Plain("PROG").kind # "DC"
      BY DEF Plain, Modes, Kinds
    <3>3. QED
      BY <2>2, <3>1, <3>2, RetrackFollow
  <2>3. QED
    BY <2>1, <2>2
<1> HIDE DEF back
<1>2. /\ j \in TMRecords
      /\ j.mode = back.mode /\ j.dcAddr = back.dcAddr /\ j.dcSig = back.dcSig
  BY <1>1 DEF TMRecords
<1>3. j = Unjoin(r)
  BY DEF Unjoin, back
<1> HIDE DEF j
<1>4. Follows(j, spd, A)
  BY <1>1, <1>2, SameModesFollow
<1>5. QED
  BY <1>2, <1>3, <1>4

\* Switching the power leaves every DC signal or sets it to the throttle's speed.
LEMMA SwitchFollow ==
  ASSUME NEW r \in TMRecords, NEW spd \in SpeedMaps, NEW A, Follows(r, spd, A),
         NEW ts \in SUBSET Tracks, NEW pm
  PROVE  Follows(Switch(r, spd, ts, pm), spd, A)
<1> DEFINE dc == {t \in ts : Kind(r, t) = "DC"}
           a == SetBrake(r, dc, TRUE)
           b == SetBrake(a, ts \ dc, FALSE)
           c == ApplyDCSpeed(b, spd, dc)
           ready == IF pm # "ON" THEN r ELSE c
           n == [ready EXCEPT !.power = [t \in Tracks |-> IF t \in ts THEN pm ELSE @[t]]]
<1> HIDE DEF dc
<1>1. /\ a \in TMRecords
      /\ a.mode = r.mode /\ a.dcAddr = r.dcAddr /\ a.dcSig = r.dcSig
  BY DEF SetBrake, TMRecords
<1> HIDE DEF a
<1>2. /\ b \in TMRecords
      /\ b.mode = r.mode /\ b.dcAddr = r.dcAddr /\ b.dcSig = r.dcSig
  BY <1>1 DEF SetBrake, TMRecords
<1> HIDE DEF b
<1>3. /\ c \in TMRecords
      /\ c.mode = r.mode /\ c.dcAddr = r.dcAddr
      /\ \A u \in Tracks : c.dcSig[u] = r.dcSig[u] \/ c.dcSig[u] = spd[r.dcAddr[u]]
  BY <1>2 DEF ApplyDCSpeed, TMRecords, SpeedMaps
<1> HIDE DEF c
<1>4. /\ ready \in TMRecords
      /\ ready.mode = r.mode /\ ready.dcAddr = r.dcAddr
      /\ \A u \in Tracks : ready.dcSig[u] = r.dcSig[u] \/ ready.dcSig[u] = spd[r.dcAddr[u]]
  BY <1>3
<1> HIDE DEF ready
<1>5. n.mode = ready.mode /\ n.dcAddr = ready.dcAddr /\ n.dcSig = ready.dcSig
  BY <1>4 DEF TMRecords
<1>6. n = Switch(r, spd, ts, pm)
  BY DEF Switch, ready, c, b, a, dc
<1> HIDE DEF n
<1>7. Follows(n, spd, A)
  BY <1>4, <1>5, SameModesFollow
<1>8. QED
  BY <1>6, <1>7

LEMMA SetTrackPowerFollow ==
  ASSUME NEW r \in TMRecords, NEW spd \in SpeedMaps, NEW A, Follows(r, spd, A),
         NEW kinds, NEW pm
  PROVE  Follows(SetTrackPower(r, spd, kinds, pm), spd, A)
<1> DEFINE ts == {t \in Tracks : Kind(r, t) \in kinds}
<1>1. ts \in SUBSET Tracks
  OBVIOUS
<1> HIDE DEF ts
<1>2. Follows(Switch(r, spd, ts, pm), spd, A)
  BY <1>1, SwitchFollow
<1>3. QED
  BY <1>2 DEF SetTrackPower, ts

LEMMA SetOnePowerFollow ==
  ASSUME NEW r \in TMRecords, NEW spd \in SpeedMaps, NEW A, Follows(r, spd, A),
         NEW t \in Tracks, NEW pm
  PROVE  Follows(SetOnePower(r, spd, t, pm), spd, A)
<1>1. CASE Kind(r, t) # "NONE"
  <2>1. {t} \in SUBSET Tracks
    OBVIOUS
  <2>2. Follows(Switch(r, spd, {t}, pm), spd, A)
    BY <2>1, SwitchFollow
  <2>3. QED
    BY <1>1, <2>2 DEF SetOnePower
<1>2. CASE Kind(r, t) = "NONE"
  <2> DEFINE n == [SetBrake(r, {t}, TRUE) EXCEPT !.power[t] = "OFF"]
  <2>1. n.mode = r.mode /\ n.dcAddr = r.dcAddr /\ n.dcSig = r.dcSig
    BY DEF SetBrake, TMRecords
  <2>2. n = SetOnePower(r, spd, t, pm)
    BY <1>2 DEF SetOnePower
  <2> HIDE DEF n
  <2>3. Follows(n, spd, A)
    BY <2>1, SameModesFollow
  <2>4. QED
    BY <2>2, <2>3
<1>3. QED
  BY <1>1, <1>2

\* A signal to a cab moves its DC tracks to the map that gives it that speed,
\* up to the difference between a stop and an emergency stop.
LEMMA SetDCSignalFollow ==
  ASSUME NEW r \in TMRecords, NEW spd, NEW A, Follows(r, spd, A), NEW to, NEW B,
         NEW cab, NEW s,
         \A c \in (Cabs \cup {0}) \ B : IF cab \in {0, c} THEN SameSpeed(s, to[c])
                                        ELSE c \notin A /\ SameSpeed(spd[c], to[c])
  PROVE  Follows(SetDCSignal(r, cab, s), to, B)
<1> DEFINE n == SetDCSignal(r, cab, s)
<1>1. /\ n.mode = r.mode /\ n.dcAddr = r.dcAddr
      /\ \A u \in Tracks : n.dcSig[u] =
            IF u \in CanBrake /\ Kind(r, u) = "DC" /\ cab \in {0, r.dcAddr[u]}
            THEN s ELSE r.dcSig[u]
  BY DEF SetDCSignal, TMRecords
<1> HIDE DEF n
<1>2. ASSUME NEW u \in Tracks, Kind(n, u) = "DC"
      PROVE  /\ u \in CanBrake
             /\ n.dcAddr[u] \in B \/ SameSpeed(n.dcSig[u], to[n.dcAddr[u]])
  <2>1. Kind(r, u) = "DC"
    BY <1>1, <1>2 DEF Kind
  <2>2. u \in CanBrake /\ (r.dcAddr[u] \in A \/ SameSpeed(r.dcSig[u], spd[r.dcAddr[u]]))
    BY <2>1 DEF Follows, FollowsAt
  <2>3. r.dcAddr[u] \in Cabs \cup {0}
    BY DEF TMRecords
  <2>4. CASE cab \in {0, r.dcAddr[u]}
    BY <1>1, <2>1, <2>2, <2>3, <2>4
  <2>5. CASE cab \notin {0, r.dcAddr[u]} /\ r.dcAddr[u] \notin B
    <3>1. /\ n.dcSig[u] = r.dcSig[u]
          /\ r.dcAddr[u] \notin A /\ SameSpeed(spd[r.dcAddr[u]], to[r.dcAddr[u]])
      BY <1>1, <2>3, <2>5
    <3>2. QED
      BY <1>1, <2>2, <3>1 DEF SameSpeed
  <2>6. QED
    BY <1>1, <2>2, <2>4, <2>5
<1>3. QED
  BY <1>2 DEF Follows, FollowsAt, n

\* Without a signal the locos that get another speed have to go astray.
LEMMA SameMapFollow ==
  ASSUME NEW r \in TMRecords, NEW spd, NEW A, Follows(r, spd, A), NEW to, NEW B,
         \A c \in (Cabs \cup {0}) \ B : c \notin A /\ SameSpeed(spd[c], to[c])
  PROVE  Follows(r, to, B)
<1> SUFFICES ASSUME NEW u \in Tracks PROVE FollowsAt(r, to, B, u)
  BY DEF Follows
<1>1. FollowsAt(r, spd, A, u) /\ r.dcAddr[u] \in Cabs \cup {0}
  BY DEF Follows, TMRecords
<1>2. QED
  BY <1>1 DEF FollowsAt, SameSpeed

\* The steps of Next that change tracks but neither a slot nor a speed.
LEMMA TrackStepsFollow ==
  ASSUME Sound(tm), usage \in Usages, NEW spd \in SpeedMaps, NEW A, spd = LocoSpeedByte, Follows(tm, spd, A),
         TrackCommand \/ \E t \in Tracks : CheckPowerOverload(t)
  PROVE  Follows(tm', spd, A)
<1>1. /\ tm \in TMRecords
      /\ Follows(Unjoin(tm), spd, A) /\ Unjoin(tm) \in TMRecords
  BY UnjoinFollow DEF Sound
<1>2. PICK zero \in Cabs \cup {0} : zero = 0
  OBVIOUS
<1>3. ASSUME NEW t \in Tracks, NEW md \in [kind : Kinds, mods : SUBSET Mods],
             CmdMode(t, md)
      PROVE  Follows(tm', spd, A)
  <2>1. md \in Modes
    BY DistrictsAssumption DEF Modes
  <2>2. QED
    BY <1>1, <1>2, <1>3, <2>1, SetTrackModeFollow DEF CmdMode
<1>4. ASSUME NEW t \in Tracks, NEW mods \in SUBSET Mods, NEW cab \in Cabs,
             CmdDC(t, mods, cab)
      PROVE  Follows(tm', spd, A)
  <2>1. [kind |-> "DC", mods |-> mods] \in Modes
    BY DistrictsAssumption DEF Modes, Kinds
  <2>2. QED
    BY <1>1, <1>4, <2>1, SetTrackModeFollow DEF CmdDC
<1>5. ASSUME NEW t \in Tracks, NEW m \in Mods, CmdModifier(t, m)
      PROVE  Follows(tm', spd, A)
  <2>1. [tm.mode[t] EXCEPT !.mods = @ \cup {m}] \in Modes
    <3>1. tm.mode[t] \in Modes
      BY <1>1 DEF TMRecords
    <3>2. QED
      BY <3>1, DistrictsAssumption DEF Modes
  <2>2. QED
    BY <1>1, <1>2, <1>5, <2>1, SetTrackModeFollow DEF CmdModifier
<1>6. ASSUME NEW t \in Tracks, CmdTrackOn(t) \/ CmdTrackOff(t)
      PROVE  Follows(tm', spd, A)
  BY <1>1, <1>6, SetOnePowerFollow DEF CmdTrackOn, CmdTrackOff
<1>7. ASSUME NEW kinds, CmdPowerOn(kinds) \/ CmdPowerOff(kinds)
      PROVE  Follows(tm', spd, A)
  BY <1>1, <1>7, SetTrackPowerFollow DEF CmdPowerOn, CmdPowerOff
<1>8. CASE CmdJoin
  <2>1. Follows(Join(tm), spd, A) /\ Join(tm) \in TMRecords
    BY JoinFollow, JoinSound DEF Sound
  <2>2. QED
    BY <1>8, <2>1, SetTrackPowerFollow DEF CmdJoin
<1>9. CASE CmdProgOn
  BY <1>1, <1>9, SetTrackPowerFollow DEF CmdProgOn
<1>10. CASE CmdProgOff
  <2> DEFINE n == [Unjoin(tm) EXCEPT !.boosted = FALSE]
  <2>1. /\ n \in TMRecords
        /\ n.mode = Unjoin(tm).mode /\ n.dcAddr = Unjoin(tm).dcAddr
        /\ n.dcSig = Unjoin(tm).dcSig
    BY <1>1 DEF TMRecords
  <2>2. tm' = SetTrackPower(n, spd, {"PROG"}, "OFF")
    BY <1>10 DEF CmdProgOff
  <2> HIDE DEF n
  <2>3. Follows(n, spd, A)
    BY <1>1, <2>1, SameModesFollow
  <2>4. QED
    BY <2>1, <2>2, <2>3, SetTrackPowerFollow
<1>11. CASE CmdProgBoost
  <2>1. tm'.mode = tm.mode /\ tm'.dcAddr = tm.dcAddr /\ tm'.dcSig = tm.dcSig
    BY <1>1, <1>11 DEF CmdProgBoost, TMRecords
  <2>2. QED
    BY <2>1, SameModesFollow
<1>12. ASSUME NEW t \in Tracks, CheckPowerOverload(t)
       PROVE  Follows(tm', spd, A)
  <2>1. tm'.mode = tm.mode /\ tm'.dcAddr = tm.dcAddr /\ tm'.dcSig = tm.dcSig
    BY <1>1, <1>12 DEF CheckPowerOverload, TMRecords
  <2>2. QED
    BY <2>1, SameModesFollow
<1>13. usage.cabs \subseteq Cabs /\ usage.kinds \subseteq Kinds /\ usage.mods \subseteq Mods
  BY Users
<1>14. CASE ModeCommand
  BY <1>3, <1>4, <1>5, <1>13, <1>14 DEF ModeCommand
<1>15. QED
  BY <1>6, <1>7, <1>8, <1>9, <1>10, <1>11, <1>12, <1>14 DEF TrackCommand

\* A train that gets a speed: its head is told in the same step, or all of it that
\* changes its speed goes astray.
LEMMA DriveFollow ==
  ASSUME IInv, Follows(tm, LocoSpeedByte, astray),
         NEW cab \in Cabs, NEW s \in SpeedCodes, NEW told \in BOOLEAN, Drive(cab, s, told),
         \A c \in Cabs \ known : speed[c] = 0 /\ lead[c] = 0,
         known' = known \cup {cab}
  PROVE  /\ Follows(tm', LocoSpeedByte', astray')
         /\ \A c \in Cabs \ known' : speed'[c] = 0
<1>1. cab # 0 /\ 0 \notin known /\ 0 \notin known' /\ known \subseteq Cabs /\ tm \in TMRecords
  BY DistrictsAssumption DEF IInv, Sound
<1>2. /\ speed' = [c \in Cabs |-> IF c \in Train(cab) THEN s ELSE speed[c]]
      /\ Train(cab) \subseteq Cabs /\ cab \in Train(cab)
      /\ \A c \in Train(cab) : c = cab \/ c \in known
  BY <1>1 DEF Drive, Train, Followers
<1>3. \A c \in Cabs \ known' : speed'[c] = 0
  BY <1>2
<1>4. ASSUME NEW c \in Cabs \cup {0}, c \notin astray, ~(c \in Train(cab) /\ ~SameSpeed(s, speed[c]))
      PROVE  SameSpeed(LocoSpeedByte[c], LocoSpeedByte'[c])
  <2>1. CASE c \in Train(cab)
    <3>1. LocoSpeedByte[c] = speed[c] /\ LocoSpeedByte'[c] = s
      BY <1>1, <1>2, <2>1 DEF LocoSpeedByte
    <3>2. QED
      BY <1>4, <2>1, <3>1 DEF SameSpeed
  <2>2. CASE c \notin Train(cab)
    BY <1>1, <1>2, <2>2 DEF LocoSpeedByte, SameSpeed
  <2>3. QED
    BY <2>1, <2>2
<1>5. CASE told /\ ~locked
  <2>1. /\ tm' = SetDCSignal(tm, cab, s)
        /\ astray' = (astray \cup {c \in Train(cab) : ~SameSpeed(s, speed[c])}) \ {cab}
    BY <1>5 DEF Drive
  <2>2. LocoSpeedByte'[cab] = s
    BY <1>2 DEF LocoSpeedByte
  <2>3. ASSUME NEW c \in (Cabs \cup {0}) \ astray'
        PROVE  IF cab \in {0, c} THEN SameSpeed(s, LocoSpeedByte'[c])
               ELSE c \notin astray /\ SameSpeed(LocoSpeedByte[c], LocoSpeedByte'[c])
    <3>1. CASE c = cab
      BY <2>2, <3>1 DEF SameSpeed
    <3>2. CASE c # cab
      <4>1. c \notin astray /\ ~(c \in Train(cab) /\ ~SameSpeed(s, speed[c]))
        BY <2>1, <3>2
      <4>2. QED
        BY <1>1, <1>4, <3>2, <4>1
    <3>3. QED
      BY <3>1, <3>2
  <2>4. Follows(tm', LocoSpeedByte', astray')
    BY <1>1, <2>1, <2>3, SetDCSignalFollow
  <2>5. QED
    BY <1>3, <2>4
<1>6. CASE ~(told /\ ~locked)
  <2>1. /\ tm' = tm
        /\ astray' = astray \cup {c \in Train(cab) : ~SameSpeed(s, speed[c])}
    BY <1>6 DEF Drive
  <2>2. \A c \in (Cabs \cup {0}) \ astray' :
           c \notin astray /\ SameSpeed(LocoSpeedByte[c], LocoSpeedByte'[c])
    BY <1>4, <2>1
  <2>3. Follows(tm', LocoSpeedByte', astray')
    BY <1>1, <2>1, <2>2, SameMapFollow
  <2>4. QED
    BY <1>3, <2>3
<1>7. QED
  BY <1>5, <1>6

\* Every command, overload step, stop, throttle, consist and reminder preserves the
\* invariant.
LEMMA NextFollow == FollowInv /\ [Next]_vars => FollowInv'
<1> SUFFICES ASSUME FollowInv, [Next]_vars PROVE FollowInv'
  OBVIOUS
<1> DEFINE Rest == /\ \A c \in Cabs \ known : speed[c] = 0 /\ lead[c] = 0
                   /\ Follows(tm, LocoSpeedByte, astray)
<1>1. IInv /\ IInv' /\ Rest
  BY NextIInv DEF FollowInv
<1>2. Sound(tm) /\ tm \in TMRecords /\ LocoSpeedByte \in SpeedMaps
  BY <1>1, Numbers DEF IInv, Sound, LocoSpeedByte, SpeedMaps
<1>3. /\ known \subseteq Cabs /\ 0 \notin known
      /\ usage.cabs \subseteq Cabs /\ lead \in [Cabs -> Cabs \cup {0}]
  BY <1>1, Users, DistrictsAssumption DEF IInv
<1>4. ASSUME TrackCommand \/ \E t \in Tracks : CheckPowerOverload(t)
      PROVE  Rest'
  <2>1. UNCHANGED locoVars
    BY <1>4 DEF TrackCommand, ModeCommand, CmdMode, CmdDC, CmdModifier, CmdPowerOn,
                CmdJoin, CmdProgOn, CmdTrackOn, CmdPowerOff, CmdProgOff, CmdTrackOff,
                CmdProgBoost, CheckPowerOverload
  <2>2. LocoSpeedByte' = LocoSpeedByte
    BY <2>1 DEF LocoSpeedByte, locoVars
  <2>3. Follows(tm', LocoSpeedByte, astray)
    BY <1>1, <1>2, <1>4, TrackStepsFollow DEF IInv
  <2>4. QED
    BY <1>1, <2>1, <2>2, <2>3 DEF locoVars
<1>5. ASSUME NEW cab \in Cabs, NEW s \in SpeedCodes, NEW mom \in BOOLEAN,
             SetThrottle(cab, s, mom)
      PROVE  Rest'
  <2>1. known' = known \cup {cab} /\ lead' = lead
    BY <1>5 DEF SetThrottle
  <2>2. CASE UNCHANGED <<tm, speed, astray>>
    <3>1. LocoSpeedByte' = LocoSpeedByte
      BY <1>1, <1>3, <2>1, <2>2, DistrictsAssumption, Numbers DEF LocoSpeedByte
    <3>2. QED
      BY <1>1, <2>1, <2>2, <3>1
  <2>3. CASE Drive(cab, s, TRUE)
    <3>1. PICK told \in BOOLEAN : told = TRUE
      OBVIOUS
    <3>2. Drive(cab, s, told)
      BY <2>3, <3>1
    <3>3. Follows(tm', LocoSpeedByte', astray') /\ \A c \in Cabs \ known' : speed'[c] = 0
      BY <1>1, <2>1, <3>2, DriveFollow
    <3>4. QED
      BY <1>1, <2>1, <3>3
  <2>4. QED
    BY <1>5, <2>2, <2>3 DEF SetThrottle
<1>6. ASSUME NEW cab \in Cabs, Remind(cab)
      PROVE  Rest'
  <2>1. PICK s \in SpeedCodes, told \in BOOLEAN : Drive(cab, s, told)
    BY <1>1, <1>6 DEF Remind, Between, IInv
  <2>2. known' = known \cup {cab} /\ known' = known /\ lead' = lead
    BY <1>6 DEF Remind
  <2>3. Follows(tm', LocoSpeedByte', astray') /\ \A c \in Cabs \ known' : speed'[c] = 0
    BY <1>1, <2>1, <2>2, DriveFollow
  <2>4. QED
    BY <1>1, <2>2, <2>3
<1>7. ASSUME EstopAll
      PROVE  Rest'
  <2>1. /\ tm' = SetDCSignal(tm, 0, 1)
        /\ speed' = [c \in Cabs |-> IF c \in known THEN 1 ELSE speed[c]]
        /\ UNCHANGED <<known, lead>>
    BY <1>7 DEF EstopAll
  <2>2. \A c \in Cabs \cup {0} : LocoSpeedByte'[c] \in {0, 1}
    BY <1>1, <2>1 DEF LocoSpeedByte, IInv
  <2>3. \A c \in (Cabs \cup {0}) \ astray' :
          IF 0 \in {0, c} THEN SameSpeed(1, LocoSpeedByte'[c])
          ELSE c \notin astray /\ SameSpeed(LocoSpeedByte[c], LocoSpeedByte'[c])
    BY <2>2 DEF SameSpeed
  <2>4. Follows(tm', LocoSpeedByte', astray')
    BY <1>1, <1>2, <2>1, <2>3, SetDCSignalFollow
  <2>5. QED
    BY <1>1, <2>1, <2>4
<1>8. ASSUME NEW lock \in BOOLEAN, EstopLock(lock)
      PROVE  Rest'
  <2>1. UNCHANGED <<known, speed, lead>> /\ LocoSpeedByte' = LocoSpeedByte
    BY <1>8 DEF EstopLock, LocoSpeedByte
  <2>2. CASE lock
    <3>1. /\ tm' = SetDCSignal(tm, 0, 1)
          /\ astray' = {c \in Cabs : ~SameSpeed(1, speed[c])}
      BY <1>8, <2>2 DEF EstopLock
    <3>2. \A c \in (Cabs \cup {0}) \ astray' :
            IF 0 \in {0, c} THEN SameSpeed(1, LocoSpeedByte'[c])
            ELSE c \notin astray /\ SameSpeed(LocoSpeedByte[c], LocoSpeedByte'[c])
      BY <1>3, <2>1, <3>1 DEF LocoSpeedByte, SameSpeed
    <3>3. Follows(tm', LocoSpeedByte', astray')
      BY <1>1, <1>2, <3>1, <3>2, SetDCSignalFollow
    <3>4. QED
      BY <1>1, <2>1, <3>3
  <2>3. CASE ~lock
    <3>1. UNCHANGED <<tm, astray>>
      BY <1>8, <2>3 DEF EstopLock
    <3>2. QED
      BY <1>1, <2>1, <3>1
  <2>4. QED
    BY <2>2, <2>3
<1>9. ASSUME NEW cab \in Cabs, ForgetLoco(cab)
      PROVE  Rest'
  <2>1. /\ known' = known \ {cab} /\ tm' = tm
        /\ speed' = [speed EXCEPT ![cab] = 0]
        /\ lead' = Unchained(cab)
        /\ astray' = astray \cup {c \in {cab} : ~SameSpeed(0, speed[c])}
    BY <1>9 DEF ForgetLoco
  <2>2. \A c \in (Cabs \cup {0}) \ astray' :
           c \notin astray /\ SameSpeed(LocoSpeedByte[c], LocoSpeedByte'[c])
    BY <1>1, <1>3, <2>1 DEF LocoSpeedByte, SameSpeed, IInv
  <2>3. \A c \in Cabs : lead'[c] = 0 \/ (lead'[c] = lead[c] /\ c # cab)
    BY <2>1 DEF Unchained, Train, Followers
  <2>4. \A c \in Cabs \ known' : speed'[c] = 0 /\ lead'[c] = 0
    BY <1>1, <2>1, <2>3 DEF IInv
  <2>5. Follows(tm', LocoSpeedByte', astray')
    BY <1>1, <1>2, <2>1, <2>2, SameMapFollow
  <2>6. QED
    BY <2>4, <2>5
<1>10. ASSUME ForgetAllLocos
       PROVE  Rest'
  <2>1. /\ known' = {} /\ tm' = tm
        /\ speed' = [c \in Cabs |-> 0] /\ lead' = [c \in Cabs |-> 0]
        /\ astray' = astray \cup {c \in Cabs : ~SameSpeed(0, speed[c])}
    BY <1>10 DEF ForgetAllLocos
  <2>2. \A c \in (Cabs \cup {0}) \ astray' :
           c \notin astray /\ SameSpeed(LocoSpeedByte[c], LocoSpeedByte'[c])
    BY <1>1, <1>3, <2>1 DEF LocoSpeedByte, SameSpeed, IInv
  <2>3. Follows(tm', LocoSpeedByte', astray')
    BY <1>1, <1>2, <2>1, <2>2, SameMapFollow
  <2>4. QED
    BY <2>1, <2>3
<1>11. ASSUME UNCHANGED <<tm, speed, astray>>, known \subseteq known', known' \subseteq Cabs,
              \A c \in Cabs \ known' : lead'[c] = 0
       PROVE  Rest'
  <2>1. LocoSpeedByte' = LocoSpeedByte
    BY <1>1, <1>3, <1>11, DistrictsAssumption DEF LocoSpeedByte
  <2>2. QED
    BY <1>1, <1>11, <2>1
<1>12. ASSUME NEW cab \in Cabs, NEW others \in SUBSET Cabs, ConsistCommand(cab, others)
       PROVE  Rest'
  <2>1. /\ UNCHANGED <<tm, speed, astray>> /\ known \subseteq known' /\ known' \subseteq Cabs
        /\ \A c \in Cabs : lead'[c] \in {0, lead[c]} \/ c \in known'
    BY <1>3, <1>12 DEF ConsistCommand, Unchained
  <2>2. QED
    BY <1>1, <1>11, <2>1
<1>13. ASSUME NEW cab \in Cabs, NEW c \in Cabs, BuildConsist(cab, c)
       PROVE  Rest'
  <2>1. /\ UNCHANGED <<tm, speed, astray>> /\ known \subseteq known' /\ known' \subseteq Cabs
        /\ \A d \in Cabs : lead'[d] = lead[d] \/ d \in known'
    BY <1>3, <1>13 DEF BuildConsist
  <2>2. QED
    BY <1>1, <1>11, <2>1
<1>14. ASSUME NEW cab \in Cabs, BreakConsist(cab)
       PROVE  Rest'
  <2>1. /\ UNCHANGED <<tm, speed, known, astray>>
        /\ \A c \in Cabs : lead'[c] \in {0, lead[c]}
    BY <1>3, <1>14 DEF BreakConsist, Unchained
  <2>2. QED
    BY <1>1, <1>3, <1>11, <2>1
<1>15. ASSUME UNCHANGED vars
       PROVE  Rest'
  BY <1>1, <1>15 DEF vars, LocoSpeedByte
<1>16. ASSUME LocoCommand
       PROVE  Rest'
  BY <1>3, <1>5, <1>7, <1>8, <1>9, <1>10, <1>12, <1>13, <1>14, <1>16 DEF LocoCommand
<1>17. ASSUME Reminders
       PROVE  Rest'
  BY <1>3, <1>6, <1>17 DEF Reminders
<1>18. Rest'
  BY <1>4, <1>15, <1>16, <1>17 DEF Next
<1>19. QED
  BY <1>1, <1>18 DEF FollowInv

\* After Setup no track is in DC mode.
LEMMA InitFollow == Init => FollowInv
<1> SUFFICES ASSUME Init PROVE FollowInv
  OBVIOUS
<1> DEFINE spd == [c \in Cabs \cup {0} |-> 0]
           first == SetTrackMode(Added, spd, 0, Plain("MAIN"), 0)
           second == SetTrackMode(first, spd, 1, Plain("PROG"), 0)
<1>1. IInv
  BY InitIInv
<1>2. spd = LocoSpeedByte /\ spd \in SpeedMaps
  BY Numbers DEF Init, LocoSpeedByte, SpeedMaps
<1> HIDE DEF spd
<1>3. Plain("MAIN") \in Modes /\ Plain("PROG") \in Modes /\ Plain("NONE") \in Modes
  BY DEF Plain, Modes, Kinds
<1>4. Sound(Added) /\ Follows(Added, spd, astray)
  BY AddedSound DEF Follows, FollowsAt, Kind, Added, Plain
<1>5. PICK addr \in Cabs \cup {0} : addr = 0
  OBVIOUS
<1>6. Sound(first) /\ Follows(first, spd, astray)
  BY <1>2, <1>3, <1>4, <1>5, SetTrackModeSound, SetTrackModeFollow DEF Sound
<1> HIDE DEF first
<1>7. Follows(second, spd, astray)
  BY <1>2, <1>3, <1>5, <1>6, SetTrackModeFollow DEF Sound
<1>8. tm = second
  BY DEF Init, Setup, second, first, spd
<1>9. QED
  BY <1>1, <1>2, <1>7, <1>8 DEF Init, FollowInv

\* However tracks change mode, cab, power or join and whoever sets the speeds, with
\* or without momentum, in consists or not: the signal of every DC track is the speed
\* of its cab (setTrackMode, setTrackPower, DCC::setThrottle and the reminders write
\* it), unless the cab's speed was last changed as a follower's, under the emergency
\* stop lock or by forgetting it.
THEOREM FollowsAlways == Spec => []DCFollowsThrottle
<1>1. FollowInv => DCFollowsThrottle
  BY DEF FollowInv, Follows, FollowsAt, DCFollowsThrottle
<1>2. QED
  BY <1>1, InitFollow, NextFollow, PTL DEF Spec
=============================================================================
