----------------------------- MODULE LocoProofs -----------------------------
(***************************************************************************)
(* The loco table and driving, for tables of any size, any locos, speeds   *)
(* and commands, and consist lists of any length.                          *)
(*                                                                         *)
(* First the table by itself (module LocoTable).  Its operators take a     *)
(* table to a table, so the argument is about tables: Sound(T) says that   *)
(* the two lists and the links of the consists are right, each operator    *)
(* preserves it, and each action applies operators.  The links are         *)
(* described locally, by what one slot says of the next one and of its     *)
(* lead, so that each assignment disturbs little.                          *)
(*                                                                         *)
(* Then driving (module DCCLoco): the reminder loop never follows a stale  *)
(* pointer, and what is locked or forgotten stays stopped.  The invariant  *)
(* says which speed packets may be in the high priority queue: stops to    *)
(* anyone and, while the emergency stop is not locked, speeds for the      *)
(* locos that are in the table.  Each packet is kept in a slot with its    *)
(* loco's number unless it stops, so that an emergency stop for one loco   *)
(* removes everything that drives it.                                      *)
(***************************************************************************)
EXTENDS DCCLoco, DataLemmas, FiniteSetTheorems

Live(T) == Range(T.chain)
Recycled(T) == Range(T.recycler)

SlotRecs ==
    [loco : Locos \cup {0}, speedCode : Codes, targetSpeed : Codes,
     savedSpeedCode : Codes, groupFlags : SUBSET Groups,
     functions : [Groups -> {"on", "off"}],
     consistLead : Objs \cup {Null}, consistNext : Objs \cup {Null},
     consistReverse : BOOLEAN]

Tables ==
    [slot : [Objs -> SlotRecs], chain : Seq(Objs), recycler : Seq(Objs),
     count : 0 .. MAX_LOCOS, chainModified : BOOLEAN]

\* Every allocated object is on one list, once, and no loco has two slots.
Lists(T) ==
    /\ IsInjective(T.chain) /\ IsInjective(T.recycler)
    /\ Live(T) \cap Recycled(T) = {}
    /\ Live(T) \cup Recycled(T) = 1 .. T.count
    /\ \A o \in Live(T) : T.slot[o].loco \in Locos
    /\ \A o, x \in Live(T) : T.slot[o].loco = T.slot[x].loco => o = x

\* The lead of the consist an object is in, itself if it is no follower.
LeadOf(T, o) == IF T.slot[o].consistLead = Null THEN o ELSE T.slot[o].consistLead

\* A follower has a live lead that leads, and someone it follows.
FollowersLinked(T) ==
    \A o \in Live(T) : T.slot[o].consistLead # Null =>
        /\ T.slot[o].consistLead \in Live(T)
        /\ isConsistLead(T, T.slot[o].consistLead)
        /\ \E p \in Live(T) : T.slot[p].consistNext = o

\* What comes next is a live follower of the same lead.
NextLinked(T) ==
    \A o \in Live(T) : T.slot[o].consistNext # Null =>
        /\ T.slot[o].consistNext \in Live(T)
        /\ T.slot[T.slot[o].consistNext].consistLead = LeadOf(T, o)

\* Nobody is next to two objects.
NextInjective(T) ==
    \A o, p \in Live(T) :
        (T.slot[o].consistNext # Null /\ T.slot[o].consistNext = T.slot[p].consistNext) => o = p

\* Along consistNext the position grows, so that no consist is a circle.
Ordered(T, pos) ==
    /\ pos \in [Objs -> Nat]
    /\ \A o \in Live(T) : T.slot[o].consistNext # Null =>
          pos[o] < pos[T.slot[o].consistNext]

Links(T) ==
    /\ FollowersLinked(T) /\ NextLinked(T) /\ NextInjective(T)
    /\ \E pos : Ordered(T, pos)

Sound(T) == T \in Tables /\ Lists(T) /\ Links(T)

\* Slots outside any consist are not reversed, those of E excepted.
NotReversed(T, E) ==
    \A o \in Live(T) \ E : ~inConsist(T, o) => ~T.slot[o].consistReverse

-----------------------------------------------------------------------------
(* Sequences as lists of different objects.                                *)

LEMMA ConsRange ==
  ASSUME NEW S, NEW s \in Seq(S), NEW o \in S
  PROVE  /\ <<o>> \o s \in Seq(S)
         /\ Range(<<o>> \o s) = Range(s) \cup {o}
         /\ IsInjective(s) /\ o \notin Range(s) => IsInjective(<<o>> \o s)
<1> DEFINE c == <<o>> \o s
<1>1. /\ c \in Seq(S) /\ Len(c) = Len(s) + 1 /\ c[1] = o
      /\ \A i \in 1 .. Len(s) : c[i + 1] = s[i]
  BY ConsElements
<1> HIDE DEF c
<1>2. DOMAIN c = 1 .. Len(s) + 1 /\ DOMAIN s = 1 .. Len(s) /\ Len(s) \in Nat
  BY <1>1
<1>3. \A j \in 1 .. Len(s) + 1 : j = 1 \/ (j - 1 \in 1 .. Len(s) /\ c[j] = s[j - 1])
  <2> TAKE j \in 1 .. Len(s) + 1
  <2>1. j # 1 => j - 1 \in 1 .. Len(s) /\ (j - 1) + 1 = j
    BY <1>2
  <2>2. QED
    BY <1>1, <2>1
<1>4. Range(c) = Range(s) \cup {o}
  <2>1. ASSUME NEW x \in Range(c) PROVE x \in Range(s) \cup {o}
    <3>1. PICK i \in 1 .. Len(s) + 1 : x = c[i]
      BY <1>2 DEF Range
    <3>2. i = 1 \/ (i - 1 \in 1 .. Len(s) /\ x = s[i - 1])
      BY <1>3, <3>1
    <3>3. CASE i = 1
      BY <1>1, <3>1, <3>3
    <3>4. CASE i - 1 \in 1 .. Len(s) /\ x = s[i - 1]
      BY <1>2, <3>4 DEF Range
    <3>5. QED
      BY <3>2, <3>3, <3>4
  <2>2. ASSUME NEW x \in Range(s) PROVE x \in Range(c)
    <3>1. PICK i \in 1 .. Len(s) : x = s[i]
      BY <1>2 DEF Range
    <3>2. i + 1 \in 1 .. Len(s) + 1 /\ c[i + 1] = x
      BY <1>1, <1>2, <3>1
    <3>3. QED
      BY <1>2, <3>2 DEF Range
  <2>3. o \in Range(c)
    <3>1. 1 \in 1 .. Len(s) + 1
      BY <1>2
    <3>2. QED
      BY <1>1, <1>2, <3>1 DEF Range
  <2>4. QED
    BY <2>1, <2>2, <2>3
<1>5. ASSUME IsInjective(s), o \notin Range(s) PROVE IsInjective(c)
  <2> SUFFICES ASSUME NEW a \in 1 .. Len(s) + 1, NEW b \in 1 .. Len(s) + 1, c[a] = c[b]
               PROVE  a = b
    BY <1>2 DEF IsInjective
  <2>1. a = 1 \/ (a - 1 \in 1 .. Len(s) /\ c[a] = s[a - 1])
    BY <1>3
  <2>2. b = 1 \/ (b - 1 \in 1 .. Len(s) /\ c[b] = s[b - 1])
    BY <1>3
  <2>3. \A i \in 1 .. Len(s) : s[i] # o
    BY <1>2, <1>5 DEF Range
  <2>4. CASE a = 1
    BY <1>1, <2>2, <2>3, <2>4
  <2>5. CASE b = 1
    BY <1>1, <2>1, <2>3, <2>5
  <2>6. CASE a # 1 /\ b # 1
    <3>1. a - 1 = b - 1
      BY <1>2, <1>5, <2>1, <2>2, <2>6 DEF IsInjective
    <3>2. QED
      BY <1>2, <3>1
  <2>7. QED
    BY <2>4, <2>5, <2>6
<1>6. QED
  BY <1>1, <1>4, <1>5 DEF c

LEMMA RemoveFirstRange ==
  ASSUME NEW S, NEW s \in Seq(S), IsInjective(s), NEW o \in Range(s)
  PROVE  /\ RemoveFirst(s, o) \in Seq(S)
         /\ Range(RemoveFirst(s, o)) = Range(s) \ {o}
         /\ IsInjective(RemoveFirst(s, o))
<1> DEFINE I == {i \in 1 .. Len(s) : s[i] = o}
           k == Min(I)
           r == RemoveAt(s, k)
<1>1. DOMAIN s = 1 .. Len(s) /\ Len(s) \in Nat
  OBVIOUS
<1>2. \E i \in 1 .. Len(s) : s[i] = o
  BY <1>1 DEF Range
<1>3. k \in 1 .. Len(s) /\ s[k] = o
  <2>1. I # {} /\ I \subseteq Nat
    BY <1>2
  <2>2. k \in I
    BY <2>1, LeastElement
  <2>3. QED
    BY <2>2
<1>4. RemoveFirst(s, o) = r
  <2>1. I # {}
    BY <1>2
  <2>2. QED
    BY <1>2, <2>1 DEF RemoveFirst, SelectInSeq
<1> HIDE DEF k
<1>5. /\ r \in Seq(S) /\ Len(r) = Len(s) - 1
      /\ \A j \in 1 .. Len(s) - 1 : r[j] = IF j < k THEN s[j] ELSE s[j + 1]
  BY <1>3, RemoveAtElements
<1> HIDE DEF r
<1>6. DOMAIN r = 1 .. Len(s) - 1
  BY <1>1, <1>5
<1>7. \A a, b \in 1 .. Len(s) : s[a] = s[b] => a = b
  BY <1>1 DEF IsInjective
<1>8. Range(r) = Range(s) \ {o}
  <2>1. ASSUME NEW x \in Range(r) PROVE x \in Range(s) \ {o}
    <3>1. PICK j \in 1 .. Len(s) - 1 : x = r[j]
      BY <1>6 DEF Range
    <3>2. PICK i \in 1 .. Len(s) : i # k /\ x = s[i]
      <4>1. CASE j < k
        <5>1. j \in 1 .. Len(s) /\ j # k /\ x = s[j]
          BY <1>1, <1>3, <1>5, <3>1, <4>1
        <5>2. QED
          BY <5>1
      <4>2. CASE ~(j < k)
        <5>1. j + 1 \in 1 .. Len(s) /\ j + 1 # k /\ x = s[j + 1]
          BY <1>1, <1>3, <1>5, <3>1, <4>2
        <5>2. QED
          BY <5>1
      <4>3. QED
        BY <4>1, <4>2
    <3>3. QED
      BY <1>1, <1>3, <1>7, <3>2 DEF Range
  <2>2. ASSUME NEW x \in Range(s) \ {o} PROVE x \in Range(r)
    <3>1. PICK i \in 1 .. Len(s) : x = s[i]
      BY <1>1 DEF Range
    <3>2. i # k
      BY <1>3, <2>2, <3>1
    <3>3. CASE i < k
      <4>1. i \in 1 .. Len(s) - 1 /\ r[i] = x
        BY <1>1, <1>3, <1>5, <3>1, <3>3
      <4>2. QED
        BY <1>6, <4>1 DEF Range
    <3>4. CASE i > k
      <4>1. i - 1 \in 1 .. Len(s) - 1 /\ ~(i - 1 < k) /\ (i - 1) + 1 = i
        BY <1>1, <1>3, <3>4
      <4>2. r[i - 1] = x
        BY <1>5, <3>1, <4>1
      <4>3. QED
        BY <1>6, <4>1, <4>2 DEF Range
    <3>5. QED
      BY <1>3, <3>2, <3>3, <3>4
  <2>3. QED
    BY <2>1, <2>2
<1>9. IsInjective(r)
  <2> SUFFICES ASSUME NEW a \in 1 .. Len(s) - 1, NEW b \in 1 .. Len(s) - 1, r[a] = r[b]
               PROVE  a = b
    BY <1>6 DEF IsInjective
  <2> DEFINE E(j) == IF j < k THEN j ELSE j + 1
  <2>1. E(a) \in 1 .. Len(s) /\ E(b) \in 1 .. Len(s)
    BY <1>1
  <2>2. r[a] = s[E(a)] /\ r[b] = s[E(b)]
    BY <1>5
  <2>3. E(a) = E(b)
    BY <1>7, <2>1, <2>2
  <2>4. QED
    BY <1>1, <1>3, <2>3
<1>10. QED
  BY <1>4, <1>5, <1>8, <1>9

LEMMA TailRange ==
  ASSUME NEW S, NEW s \in Seq(S), s # <<>>, IsInjective(s)
  PROVE  /\ Head(s) \in S /\ Head(s) \in Range(s)
         /\ Tail(s) \in Seq(S)
         /\ Range(Tail(s)) = Range(s) \ {Head(s)}
         /\ IsInjective(Tail(s))
<1> DEFINE r == Tail(s)
<1>1. /\ DOMAIN s = 1 .. Len(s) /\ Len(s) \in Nat /\ Len(s) # 0
      /\ Head(s) = s[1] /\ Head(s) \in S
      /\ r \in Seq(S) /\ Len(r) = Len(s) - 1
      /\ \A j \in 1 .. Len(s) - 1 : r[j] = s[j + 1]
  BY HeadTailProperties, EmptySeq
<1> HIDE DEF r
<1>2. DOMAIN r = 1 .. Len(s) - 1
  BY <1>1
<1>3. \A a, b \in 1 .. Len(s) : s[a] = s[b] => a = b
  BY <1>1 DEF IsInjective
<1>4. 1 \in 1 .. Len(s)
  BY <1>1
<1>5. Range(r) = Range(s) \ {s[1]}
  <2>1. ASSUME NEW x \in Range(r) PROVE x \in Range(s) \ {s[1]}
    <3>1. PICK j \in 1 .. Len(s) - 1 : x = r[j]
      BY <1>2 DEF Range
    <3>2. j + 1 \in 1 .. Len(s) /\ j + 1 # 1 /\ x = s[j + 1]
      BY <1>1, <3>1
    <3>3. QED
      BY <1>1, <1>3, <1>4, <3>2 DEF Range
  <2>2. ASSUME NEW x \in Range(s) \ {s[1]} PROVE x \in Range(r)
    <3>1. PICK i \in 1 .. Len(s) : x = s[i]
      BY <1>1 DEF Range
    <3>2. i - 1 \in 1 .. Len(s) - 1 /\ (i - 1) + 1 = i
      BY <1>1, <2>2, <3>1
    <3>3. r[i - 1] = x
      BY <1>1, <3>1, <3>2
    <3>4. QED
      BY <1>2, <3>2, <3>3 DEF Range
  <2>3. QED
    BY <2>1, <2>2
<1>6. IsInjective(r)
  <2> SUFFICES ASSUME NEW a \in 1 .. Len(s) - 1, NEW b \in 1 .. Len(s) - 1, r[a] = r[b]
               PROVE  a = b
    BY <1>2 DEF IsInjective
  <2>1. a + 1 \in 1 .. Len(s) /\ b + 1 \in 1 .. Len(s) /\ s[a + 1] = s[b + 1]
    BY <1>1
  <2>2. a + 1 = b + 1
    BY <1>3, <2>1
  <2>3. QED
    BY <1>1, <2>2
<1>7. QED
  BY <1>1, <1>4, <1>5, <1>6 DEF r, Range

-----------------------------------------------------------------------------
(* What LocoSlot's functions do to a table.                                *)

\* The first object with the loco is the only one.
LEMMA FindSlotFinds ==
  ASSUME NEW T, T \in Tables, Lists(T), NEW l
  PROVE  \/ findSlot(T, l) = Null /\ \A x \in Live(T) : T.slot[x].loco # l
         \/ /\ findSlot(T, l) \in Live(T) /\ findSlot(T, l) \in Objs
            /\ T.slot[findSlot(T, l)].loco = l
<1> DEFINE found == {i \in DOMAIN T.chain : T.slot[T.chain[i]].loco = l}
           first == CHOOSE i \in found : \A j \in found : i <= j
<1>1. T.chain \in Seq(Objs) /\ DOMAIN T.chain = 1 .. Len(T.chain) /\ Len(T.chain) \in Nat
  BY DEF Tables
<1>2. CASE found = {}
  <2>1. findSlot(T, l) = Null
    BY <1>2 DEF findSlot
  <2>2. \A x \in Live(T) : T.slot[x].loco # l
    BY <1>2 DEF Live, Range
  <2>3. QED
    BY <2>1, <2>2
<1>3. CASE found # {}
  <2>1. found \subseteq Nat
    BY <1>1
  <2>2. Min(found) \in found /\ \A y \in found : Min(found) <= y
    <3> HIDE DEF found
    <3>1. QED
      BY <1>3, <2>1, LeastElement
  <2>3. first \in found
    <3> HIDE DEF found
    <3>1. QED
      BY <2>2
  <2>4. findSlot(T, l) = T.chain[first]
    BY <1>3 DEF findSlot
  <2> HIDE DEF first
  <2>5. T.chain[first] \in Live(T) /\ T.chain[first] \in Objs /\ T.slot[T.chain[first]].loco = l
    BY <1>1, <2>3 DEF Live, Range
  <2>6. QED
    BY <2>4, <2>5
<1>4. QED
  BY <1>2, <1>3

LEMMA LiveObjs ==
  ASSUME NEW T, T \in Tables
  PROVE  Live(T) \subseteq Objs /\ Recycled(T) \subseteq Objs
<1>1. T.chain \in Seq(Objs) /\ T.recycler \in Seq(Objs)
  BY DEF Tables
<1>2. QED
  BY <1>1 DEF Live, Recycled, Range

LEMMA FreshSlotType ==
  ASSUME NEW l \in Locos \cup {0}
  PROVE  /\ FreshSlot(l) \in SlotRecs /\ FreshSlot(l).loco = l
         /\ FreshSlot(l).consistLead = Null /\ FreshSlot(l).consistNext = Null
         /\ FreshSlot(l).consistReverse = FALSE
<1>1. Stopped \in Codes /\ 0 \in Codes
  BY TableAssumption DEF Stopped, Codes
<1>2. QED
  BY <1>1 DEF FreshSlot, SlotRecs

\* A list with an element has a last one.
LEMMA LastIndex == \A n \in Nat : n >= 1 => n \in 1 .. n
  OBVIOUS

\* A fresh slot is in no consist, and a slot that stays as it is stays in its own.
LEMMA FreshAlone ==
  ASSUME NEW T, NEW o, NEW l \in Locos \cup {0}, T.slot[o] = FreshSlot(l)
  PROVE  ~inConsist(T, o)
<1>1. T.slot[o].consistLead = Null /\ T.slot[o].consistNext = Null
  BY FreshSlotType
<1>2. QED
  BY <1>1 DEF inConsist, isConsistLead, isConsistFollower

LEMMA SameConsist ==
  ASSUME NEW T, NEW t, NEW o, t.slot[o] = T.slot[o]
  PROVE  inConsist(t, o) <=> inConsist(T, o)
  BY DEF inConsist, isConsistLead, isConsistFollower

\* Links stay right when slots outside all consists join.
LEMMA LinksGrow ==
  ASSUME NEW T, NEW t, NEW N, Links(T), Live(t) = Live(T) \cup N,
         \A x \in Live(T) : /\ t.slot[x].consistLead = T.slot[x].consistLead
                            /\ t.slot[x].consistNext = T.slot[x].consistNext,
         \A x \in N \ Live(T) : t.slot[x].consistLead = Null /\ t.slot[x].consistNext = Null
  PROVE  Links(t)
<1> USE DEF Links
<1>1. FollowersLinked(t)
  BY DEF FollowersLinked, isConsistLead
<1>2. NextLinked(t)
  BY DEF NextLinked, LeadOf
<1>3. NextInjective(t)
  BY DEF NextInjective
<1>4. \E pos : Ordered(t, pos)
  <2>1. PICK pos : Ordered(T, pos)
    OBVIOUS
  <2>2. Ordered(t, pos)
    BY <2>1 DEF Ordered
  <2>3. QED
    BY <2>2
<1>5. QED
  BY <1>1, <1>2, <1>3, <1>4

\* An object that is prepared joins the list and leaves the others alone.
LEMMA PrepareSound ==
  ASSUME NEW T, T \in Tables, NEW o \in Objs, NEW l \in Locos,
         IsInjective(T.chain), IsInjective(T.recycler),
         Live(T) \cap Recycled(T) = {}, o \notin Live(T), o \notin Recycled(T),
         Live(T) \cup Recycled(T) \cup {o} = 1 .. T.count,
         \A x \in Live(T) : T.slot[x].loco \in Locos /\ T.slot[x].loco # l,
         \A x, y \in Live(T) : T.slot[x].loco = T.slot[y].loco => x = y,
         Links(T)
  PROVE  LET t == prepare(T, o, l)
         IN  /\ Sound(t) /\ Live(t) = Live(T) \cup {o} /\ t.chainModified
             /\ t.slot = [T.slot EXCEPT ![o] = FreshSlot(l)]
<1> DEFINE t == prepare(T, o, l)
<1>1. T.chain \in Seq(Objs)
  BY DEF Tables
<1>2. /\ t.chain = <<o>> \o T.chain /\ t.recycler = T.recycler /\ t.count = T.count
      /\ t.slot = [T.slot EXCEPT ![o] = FreshSlot(l)] /\ t.chainModified
  BY DEF prepare, Tables
<1>3. /\ t.chain \in Seq(Objs) /\ Live(t) = Live(T) \cup {o} /\ IsInjective(t.chain)
  BY <1>1, <1>2, ConsRange DEF Live
<1>4. FreshSlot(l) \in SlotRecs /\ FreshSlot(l).loco = l
      /\ FreshSlot(l).consistLead = Null /\ FreshSlot(l).consistNext = Null
  BY FreshSlotType
<1>5. t \in Tables
  BY <1>2, <1>3, <1>4 DEF Tables, prepare
<1>6. T.slot \in [Objs -> SlotRecs] /\ Live(T) \subseteq Objs
  BY LiveObjs DEF Tables
<1>7. /\ \A x \in Live(T) : t.slot[x] = T.slot[x]
      /\ t.slot[o] = FreshSlot(l)
  BY <1>2, <1>6
<1>8. Recycled(t) = Recycled(T)
  BY <1>2 DEF Recycled
<1> HIDE DEF t
<1>9. Lists(t)
  <2>1. /\ IsInjective(t.chain) /\ IsInjective(t.recycler)
        /\ Live(t) \cap Recycled(t) = {}
        /\ Live(t) \cup Recycled(t) = 1 .. t.count
    BY <1>2, <1>3, <1>8
  <2>2. \A x \in Live(t) : t.slot[x].loco \in Locos
    BY <1>3, <1>4, <1>7
  <2>3. ASSUME NEW x \in Live(t), NEW y \in Live(t), t.slot[x].loco = t.slot[y].loco
        PROVE  x = y
    BY <1>3, <1>4, <1>7, <2>3
  <2>4. QED
    BY <2>1, <2>2, <2>3 DEF Lists
<1>10. Links(t)
  <2>1. /\ \A x \in Live(T) : /\ t.slot[x].consistLead = T.slot[x].consistLead
                              /\ t.slot[x].consistNext = T.slot[x].consistNext
        /\ \A x \in {o} \ Live(T) : t.slot[x].consistLead = Null /\ t.slot[x].consistNext = Null
    BY <1>4, <1>7
  <2>2. Live(t) = Live(T) \cup {o}
    BY <1>3
  <2> DEFINE N == {o}
  <2> HIDE DEF N
  <2>3. /\ Live(t) = Live(T) \cup N
        /\ \A x \in N \ Live(T) : t.slot[x].consistLead = Null /\ t.slot[x].consistNext = Null
    BY <2>1, <2>2 DEF N
  <2>4. QED
    BY <2>1, <2>3, LinksGrow
<1>11. QED
  BY <1>2, <1>3, <1>5, <1>9, <1>10 DEF Sound, t

\* A table keeps the objects, their locos and their links of another one, and the mark
\* that says that its list has changed.
Keeps(T, t) ==
    /\ Live(T) \subseteq Live(t)
    /\ \A x \in Live(T) : t.slot[x] = T.slot[x]
    /\ T.chainModified => t.chainModified

\* Nothing the table keeps of a loco is said here but that it is there.
Grows(T, t) ==
    /\ \A x \in Live(T) : x \in Live(t) /\ t.slot[x].loco = T.slot[x].loco
    /\ T.chainModified => t.chainModified

\* getSlot finds or makes the slot of a loco; it fails only when the table is full.
LEMMA GetSlotSound ==
  ASSUME NEW T, Sound(T), NEW l \in Locos
  PROVE  LET g == getSlot(T, l)
         IN  /\ Sound(g.t) /\ Keeps(T, g.t)
             /\ Live(g.t) = Live(T) \cup ({g.obj} \ {Null})
             /\ g.obj # Null => g.obj \in Objs /\ g.obj \in Live(g.t) /\ g.t.slot[g.obj].loco = l
             /\ g.obj \in Live(T) => g.t = T
             /\ g.obj \notin Live(T) /\ g.obj # Null => g.t.slot[g.obj] = FreshSlot(l)
             /\ g.obj = Null =>
                  /\ g.t = T /\ Recycled(T) = {} /\ T.count = MAX_LOCOS
                  /\ \A x \in Live(T) : T.slot[x].loco # l
<1> DEFINE g == getSlot(T, l)
           o == findSlot(T, l)
           fresh == T.count + 1
<1>1. T \in Tables /\ Lists(T) /\ Links(T)
  BY DEF Sound
<1>2. l # 0 /\ Live(T) \subseteq Objs /\ Recycled(T) \subseteq Objs
  BY <1>1, LocosAssumption, LiveObjs
<1>3. Null \notin Objs
  BY DEF Null, Objs
<1>4. T.recycler \in Seq(Objs) /\ T.count \in 0 .. MAX_LOCOS /\ MAX_LOCOS \in Nat
  BY <1>1, TableAssumption DEF Tables
<1>5. CASE o # Null
  <2>1. g = [t |-> T, obj |-> o]
    BY <1>2, <1>5 DEF getSlot
  <2>2. o \in Live(T) /\ T.slot[o].loco = l
    BY <1>1, <1>5, FindSlotFinds
  <2> HIDE DEF g, o
  <2>3. QED
    BY <1>2, <1>5, <2>1, <2>2 DEF Keeps, g
<1>6. CASE o = Null /\ T.recycler # <<>>
  <2> DEFINE h == Head(T.recycler)
             R == [T EXCEPT !.recycler = Tail(@)]
  <2>1. g = [t |-> prepare(R, h, l), obj |-> h]
    BY <1>2, <1>6 DEF getSlot
  <2>2. /\ h \in Objs /\ h \in Recycled(T) /\ Tail(T.recycler) \in Seq(Objs)
        /\ Range(Tail(T.recycler)) = Recycled(T) \ {h} /\ IsInjective(Tail(T.recycler))
    BY <1>1, <1>4, <1>6, TailRange DEF Recycled, Lists
  <2>3. R.chain = T.chain /\ R.slot = T.slot /\ R.recycler = Tail(T.recycler) /\ R.count = T.count
    BY <1>1 DEF Tables
  <2>4. R \in Tables
    BY <1>1, <2>2 DEF Tables
  <2>5. \A x \in Live(T) : T.slot[x].loco # l
    BY <1>1, <1>6, <1>2, <1>3, FindSlotFinds
  <2> HIDE DEF R, h, g, o
  <2>6. Live(R) = Live(T) /\ Recycled(R) = Recycled(T) \ {h}
    BY <2>2, <2>3 DEF Live, Recycled
  <2>7. Links(R)
    BY <1>1, <2>3, <2>6 DEF Links, FollowersLinked, NextLinked, NextInjective, Ordered, LeadOf, isConsistLead
  <2>8. LET t == prepare(R, h, l)
        IN  Sound(t) /\ Live(t) = Live(R) \cup {h} /\ t.chainModified /\ t.slot = [R.slot EXCEPT ![h] = FreshSlot(l)]
    <3>1. /\ IsInjective(R.chain) /\ IsInjective(R.recycler)
          /\ Live(R) \cap Recycled(R) = {} /\ h \notin Live(R) /\ h \notin Recycled(R)
          /\ Live(R) \cup Recycled(R) \cup {h} = 1 .. R.count
      BY <1>1, <2>2, <2>3, <2>6 DEF Lists
    <3>2. /\ \A x \in Live(R) : R.slot[x].loco \in Locos /\ R.slot[x].loco # l
          /\ \A x, y \in Live(R) : R.slot[x].loco = R.slot[y].loco => x = y
      BY <1>1, <2>3, <2>5, <2>6 DEF Lists
    <3>3. QED
      BY <2>2, <2>4, <2>7, <3>1, <3>2, PrepareSound
  <2>9. h # Null /\ h \notin Live(T)
    BY <1>1, <1>3, <2>2 DEF Lists
  <2>10. T.slot \in [Objs -> SlotRecs]
    BY <1>1 DEF Tables
  <2>11. FreshSlot(l).loco = l
    BY FreshSlotType
  <2> DEFINE t == prepare(R, h, l)
  <2>12. Sound(t) /\ Live(t) = Live(T) \cup {h} /\ t.chainModified /\ t.slot = [T.slot EXCEPT ![h] = FreshSlot(l)]
    BY <2>3, <2>6, <2>8
  <2> HIDE DEF t
  <2>13. t.slot[h] = FreshSlot(l) /\ \A x \in Live(T) : t.slot[x] = T.slot[x]
    BY <1>2, <2>2, <2>9, <2>10, <2>12
  <2>14. g.t = t /\ g.obj = h
    BY <2>1 DEF t
  <2>15. QED
    BY <2>2, <2>9, <2>11, <2>12, <2>13, <2>14, ZenonT(60) DEF Keeps, g
<1>7. CASE o = Null /\ T.recycler = <<>> /\ T.count < MAX_LOCOS
  <2> DEFINE R == [T EXCEPT !.count = fresh]
  <2>1. g = [t |-> prepare(R, fresh, l), obj |-> fresh]
    BY <1>2, <1>7 DEF getSlot
  <2>2. fresh \in Objs /\ fresh \in 0 .. MAX_LOCOS
    BY <1>4, <1>7 DEF Objs
  <2>3. R.chain = T.chain /\ R.slot = T.slot /\ R.recycler = T.recycler /\ R.count = fresh
    BY <1>1 DEF Tables
  <2>4. R \in Tables
    BY <1>1, <2>2 DEF Tables
  <2>5. \A x \in Live(T) : T.slot[x].loco # l
    BY <1>1, <1>7, <1>2, <1>3, FindSlotFinds
  <2>6. Live(T) \cup Recycled(T) = 1 .. T.count
    BY <1>1 DEF Lists
  <2>7. fresh \notin 1 .. T.count /\ (1 .. T.count) \cup {fresh} = 1 .. fresh
    BY <1>4
  <2> HIDE DEF R, g, o, fresh
  <2>8. Live(R) = Live(T) /\ Recycled(R) = Recycled(T)
    BY <2>3 DEF Live, Recycled
  <2>9. Links(R)
    BY <1>1, <2>3, <2>8 DEF Links, FollowersLinked, NextLinked, NextInjective, Ordered, LeadOf, isConsistLead
  <2>10. LET t == prepare(R, fresh, l)
        IN  Sound(t) /\ Live(t) = Live(R) \cup {fresh} /\ t.chainModified /\ t.slot = [R.slot EXCEPT ![fresh] = FreshSlot(l)]
    <3>1. /\ IsInjective(R.chain) /\ IsInjective(R.recycler)
          /\ Live(R) \cap Recycled(R) = {} /\ fresh \notin Live(R) /\ fresh \notin Recycled(R)
          /\ Live(R) \cup Recycled(R) \cup {fresh} = 1 .. R.count
      BY <1>1, <2>3, <2>6, <2>7, <2>8 DEF Lists
    <3>2. /\ \A x \in Live(R) : R.slot[x].loco \in Locos /\ R.slot[x].loco # l
          /\ \A x, y \in Live(R) : R.slot[x].loco = R.slot[y].loco => x = y
      BY <1>1, <2>3, <2>5, <2>8 DEF Lists
    <3>3. QED
      BY <2>2, <2>4, <2>9, <3>1, <3>2, PrepareSound
  <2>11. fresh # Null /\ fresh \notin Live(T)
    BY <1>3, <2>2, <2>6, <2>7
  <2>12. T.slot \in [Objs -> SlotRecs]
    BY <1>1 DEF Tables
  <2>13. FreshSlot(l).loco = l
    BY FreshSlotType
  <2> DEFINE t == prepare(R, fresh, l)
  <2>14. Sound(t) /\ Live(t) = Live(T) \cup {fresh} /\ t.chainModified /\ t.slot = [T.slot EXCEPT ![fresh] = FreshSlot(l)]
    BY <2>3, <2>8, <2>10
  <2> HIDE DEF t
  <2>15. t.slot[fresh] = FreshSlot(l) /\ \A x \in Live(T) : t.slot[x] = T.slot[x]
    BY <1>2, <2>2, <2>11, <2>12, <2>14
  <2>16. g.t = t /\ g.obj = fresh
    BY <2>1 DEF t
  <2>17. QED
    BY <2>2, <2>11, <2>13, <2>14, <2>15, <2>16 DEF Keeps, g
<1>8. CASE o = Null /\ T.recycler = <<>> /\ ~(T.count < MAX_LOCOS)
  <2>1. g = [t |-> T, obj |-> Null]
    BY <1>2, <1>8 DEF getSlot
  <2>2. \A x \in Live(T) : T.slot[x].loco # l
    BY <1>1, <1>8, <1>2, <1>3, FindSlotFinds
  <2>3. Recycled(T) = {} /\ T.count = MAX_LOCOS
    BY <1>4, <1>8 DEF Recycled, Range
  <2>4. Null \notin Live(T)
    BY <1>2, <1>3
  <2> HIDE DEF g, o
  <2>5. QED
    BY <2>1, <2>2, <2>3, <2>4 DEF Keeps, g
<1>9. QED
  BY <1>5, <1>6, <1>7, <1>8

-----------------------------------------------------------------------------
(* The walks along a consist.                                              *)

\* A walk from lead along consistNext, not necessarily to the end.
Path(T, lead, ms) ==
    /\ ms \in Seq(Live(T)) /\ Len(ms) >= 1 /\ ms[1] = lead
    /\ \A i \in 1 .. Len(ms) - 1 : T.slot[ms[i]].consistNext = ms[i + 1]

\* Positions grow along a path, so it visits nobody twice and is not longer than
\* the table.
LEMMA PathInjective ==
  ASSUME NEW T, Sound(T), NEW lead, NEW ms, Path(T, lead, ms)
  PROVE  IsInjective(ms) /\ Len(ms) <= MAX_LOCOS
<1>1. PICK pos : Ordered(T, pos)
  BY DEF Sound, Links
<1>2. Live(T) \subseteq Objs /\ Null \notin Objs
  BY LiveObjs DEF Sound, Null, Objs
<1>3. /\ ms \in Seq(Live(T)) /\ Len(ms) \in Nat /\ DOMAIN ms = 1 .. Len(ms)
      /\ \A i \in 1 .. Len(ms) : ms[i] \in Live(T)
  BY DEF Path
<1>4. \A i \in 1 .. Len(ms) : pos[ms[i]] \in Nat
  BY <1>1, <1>2, <1>3 DEF Ordered
<1>5. \A i \in 1 .. Len(ms) - 1 : pos[ms[i]] < pos[ms[i + 1]]
  <2> TAKE i \in 1 .. Len(ms) - 1
  <2>1. i \in 1 .. Len(ms) /\ i + 1 \in 1 .. Len(ms)
    BY <1>3
  <2>2. ms[i] \in Live(T) /\ ms[i + 1] \in Live(T) /\ T.slot[ms[i]].consistNext = ms[i + 1]
    BY <1>3, <2>1 DEF Path
  <2>3. T.slot[ms[i]].consistNext # Null
    BY <1>2, <2>2
  <2>4. QED
    BY <1>1, <2>2, <2>3 DEF Ordered
<1> DEFINE Climbs(d) == \A i \in 1 .. Len(ms) :
                          i + d + 1 <= Len(ms) => pos[ms[i]] < pos[ms[i + d + 1]]
           S == {d \in Nat : Climbs(d)}
<1>6. Nat \subseteq S
  <2>1. 0 \in S
    BY <1>3, <1>5
  <2>2. ASSUME NEW d \in Nat, d \in S PROVE d + 1 \in S
    <3>0. Climbs(d)
      BY <2>2
    <3> SUFFICES ASSUME NEW i \in 1 .. Len(ms), i + (d + 1) + 1 <= Len(ms)
                 PROVE  pos[ms[i]] < pos[ms[i + (d + 1) + 1]]
      <4>1. (\A i \in 1 .. Len(ms) : i + (d + 1) + 1 <= Len(ms)
               => pos[ms[i]] < pos[ms[i + (d + 1) + 1]]) => Climbs(d + 1)
        OBVIOUS
      <4> HIDE DEF Climbs
      <4>2. Climbs(d + 1) => d + 1 \in S
        OBVIOUS
      <4>3. QED
        BY <4>1, <4>2
    <3> DEFINE j == i + d + 1
    <3>1. j \in 1 .. Len(ms) - 1 /\ i + (d + 1) + 1 = j + 1 /\ j + 1 \in 1 .. Len(ms) /\ j \in 1 .. Len(ms)
      BY <1>3
    <3>2. pos[ms[i]] < pos[ms[j]]
      BY <3>0, <3>1
    <3> HIDE DEF j
    <3>3. pos[ms[j]] < pos[ms[j + 1]]
      BY <1>5, <3>1
    <3>4. /\ pos[ms[i]] \in Nat /\ pos[ms[j]] \in Nat /\ pos[ms[j + 1]] \in Nat
      BY <1>4, <3>1
    <3>5. pos[ms[i]] < pos[ms[j + 1]]
      BY <3>2, <3>3, <3>4
    <3>6. QED
      BY <3>1, <3>5
  <2> HIDE DEF S
  <2>3. QED
    BY <2>1, <2>2, SetInduction
<1>7. ASSUME NEW i \in 1 .. Len(ms), NEW j \in 1 .. Len(ms), i < j
      PROVE  ms[i] # ms[j]
  <2> DEFINE d == j - i - 1
  <2>1. d \in Nat /\ i + d + 1 = j
    BY <1>3, <1>7
  <2> HIDE DEF d
  <2>2. Climbs(d)
    <3> HIDE DEF Climbs
    <3>1. QED
      BY <1>6, <2>1
  <2>3. i + d + 1 <= Len(ms) => pos[ms[i]] < pos[ms[i + d + 1]]
    BY <2>2
  <2> HIDE DEF Climbs
  <2>4. pos[ms[i]] < pos[ms[j]]
    BY <1>3, <2>1, <2>3
  <2>5. QED
    BY <1>4, <2>4
<1>8. \A i, j \in 1 .. Len(ms) : ms[i] = ms[j] => i = j
  BY <1>3, <1>7
<1>9. IsInjective(ms)
  BY <1>3, <1>8 DEF IsInjective
<1>10. Len(ms) <= MAX_LOCOS
  <2>1. MAX_LOCOS \in Nat /\ MAX_LOCOS # 0
    BY TableAssumption
  <2>2. ms \in [1 .. Len(ms) -> Objs]
    BY <1>2, <1>3
  <2>3. ms \in Injection(1 .. Len(ms), Objs)
    BY <1>8, <2>2 DEF Injection, IsInjective
  <2>4. IsFiniteSet(Objs) /\ Cardinality(Objs) = MAX_LOCOS
    <3>1. IsFiniteSet(1 .. MAX_LOCOS)
          /\ Cardinality(1 .. MAX_LOCOS) = IF 1 > MAX_LOCOS THEN 0 ELSE MAX_LOCOS - 1 + 1
      BY <2>1, FS_Interval
    <3>2. QED
      BY <2>1, <3>1 DEF Objs
  <2>5. IsFiniteSet(1 .. Len(ms))
        /\ Cardinality(1 .. Len(ms)) = IF 1 > Len(ms) THEN 0 ELSE Len(ms) - 1 + 1
    <3> DEFINE n == Len(ms)
    <3>1. n \in Int
      BY <1>3
    <3> HIDE DEF n
    <3>2. IsFiniteSet(1 .. n) /\ Cardinality(1 .. n) = IF 1 > n THEN 0 ELSE n - 1 + 1
      BY <3>1, FS_Interval
    <3>3. QED
      BY <3>2 DEF n
  <2>6. Cardinality(1 .. Len(ms)) <= Cardinality(Objs)
    BY <2>3, <2>4, FS_Injection
  <2>7. QED
    BY <1>3, <2>1, <2>4, <2>5, <2>6
<1>11. QED
  BY <1>9, <1>10

\* Members walks to the end.
LEMMA MembersPath ==
  ASSUME NEW T, Sound(T), NEW lead \in Live(T)
  PROVE  LET ms == Members(T, lead)
         IN  /\ Path(T, lead, ms) /\ IsInjective(ms)
             /\ T.slot[ms[Len(ms)]].consistNext = Null
<1> DEFINE V == {s \in Seq(Live(T)) : Len(s) >= 1}
           step(s) == IF T.slot[Last(s)].consistNext = Null THEN s
                      ELSE Append(s, T.slot[Last(s)].consistNext)
           G == [x \in V \X Nat |-> step(x[1])]
           F == CHOOSE F : F = [k \in 0 .. MAX_LOCOS |->
                    IF k = 0 THEN <<lead>>
                    ELSE LET next == T.slot[Last(F[k - 1])].consistNext
                         IN  IF next = Null THEN F[k - 1] ELSE Append(F[k - 1], next)]
<1>1. MAX_LOCOS \in Nat
  BY TableAssumption
<1>2. /\ \A x \in Live(T) : T.slot[x].consistNext # Null => T.slot[x].consistNext \in Live(T)
  BY DEF Sound, Links, NextLinked
<1>3. ASSUME NEW s \in V
      PROVE  /\ Last(s) = s[Len(s)] /\ Last(s) \in Live(T) /\ step(s) \in V
  <2>1. s \in Seq(Live(T)) /\ Len(s) \in Nat /\ Len(s) >= 1
    OBVIOUS
  <2>2. Last(s) = s[Len(s)] /\ s[Len(s)] \in Live(T)
    BY <2>1 DEF Last
  <2>3. CASE T.slot[Last(s)].consistNext = Null
    BY <2>2, <2>3
  <2>4. CASE T.slot[Last(s)].consistNext # Null
    <3> DEFINE n == T.slot[Last(s)].consistNext
    <3>1. n \in Live(T)
      BY <1>2, <2>2, <2>4
    <3> HIDE DEF n
    <3>2. Append(s, n) \in Seq(Live(T)) /\ Len(Append(s, n)) = Len(s) + 1
      BY <2>1, <3>1, AppendProperties
    <3>3. Append(s, n) \in V
      BY <2>1, <3>2
    <3>4. QED
      BY <2>2, <2>4, <3>3 DEF n
  <2>5. QED
    BY <2>3, <2>4
<1>4. <<lead>> \in V
  OBVIOUS
<1>5. G \in [V \X Nat -> V] /\ \A s \in V, k \in Nat : G[<<s, k>>] = step(s)
  <2>1. \A s \in V : step(s) \in V
    BY <1>3
  <2> HIDE DEF V, step
  <2>2. QED
    BY <2>1
<1>6. PICK f \in [0 .. MAX_LOCOS -> V] :
        f = [k \in 0 .. MAX_LOCOS |-> IF k = 0 THEN <<lead>> ELSE G[<<f[k - 1], k>>]]
  <2> DEFINE a == <<lead>>
  <2>1. a \in V
    BY <1>4
  <2> HIDE DEF V, G, a
  <2>2. PICK g : Walked(g, MAX_LOCOS, V, a, G)
    BY <1>1, <1>5, <2>1, WalkExists
  <2>3. QED
    BY <2>2 DEF a, Walked
<1>7. f = [k \in 0 .. MAX_LOCOS |->
             IF k = 0 THEN <<lead>>
             ELSE LET next == T.slot[Last(f[k - 1])].consistNext
                  IN  IF next = Null THEN f[k - 1] ELSE Append(f[k - 1], next)]
  <2>1. ASSUME NEW k \in 0 .. MAX_LOCOS, k # 0
        PROVE  G[<<f[k - 1], k>>] = step(f[k - 1])
    <3>1. k - 1 \in 0 .. MAX_LOCOS /\ k \in Nat
      BY <1>1, <2>1
    <3>2. f[k - 1] \in V
      BY <1>6, <3>1
    <3>3. QED
      BY <1>5, <3>1, <3>2
  <2> HIDE DEF V, G
  <2> DEFINE A(k) == IF k = 0 THEN <<lead>> ELSE G[<<f[k - 1], k>>]
             B(k) == IF k = 0 THEN <<lead>> ELSE step(f[k - 1])
  <2>2. \A k \in 0 .. MAX_LOCOS : A(k) = B(k)
    BY <2>1
  <2>3. f = [k \in 0 .. MAX_LOCOS |-> A(k)]
    BY <1>6, Zenon
  <2> HIDE DEF A, B
  <2>4. f = [k \in 0 .. MAX_LOCOS |-> B(k)]
    BY <2>2, <2>3
  <2>5. QED
    BY <2>4, Zenon DEF B
<1>8. F = [k \in 0 .. MAX_LOCOS |->
             IF k = 0 THEN <<lead>>
             ELSE LET next == T.slot[Last(F[k - 1])].consistNext
                  IN  IF next = Null THEN F[k - 1] ELSE Append(F[k - 1], next)]
  BY <1>7, Zenon
<1>9. Members(T, lead) = F[MAX_LOCOS]
  BY Zenon DEF Members
<1> HIDE DEF F
<1>10. F[0] = <<lead>> /\ \A k \in 0 .. MAX_LOCOS - 1 : F[k + 1] = step(F[k])
  <2> DEFINE B(k) == IF k = 0 THEN <<lead>> ELSE step(F[k - 1])
  <2>1. F = [k \in 0 .. MAX_LOCOS |-> B(k)]
    BY <1>8, Zenon
  <2> HIDE DEF B
  <2>2. \A k \in 0 .. MAX_LOCOS : F[k] = B(k)
    BY <2>1
  <2>3. F[0] = <<lead>>
    BY <1>1, <2>2 DEF B
  <2>4. ASSUME NEW k \in 0 .. MAX_LOCOS - 1 PROVE F[k + 1] = step(F[k])
    <3>1. k + 1 \in 0 .. MAX_LOCOS /\ k + 1 # 0 /\ (k + 1) - 1 = k
      BY <1>1
    <3>2. F[k + 1] = B(k + 1)
      BY <2>2, <3>1
    <3> HIDE DEF step
    <3>3. QED
      BY <3>1, <3>2 DEF B
  <2>5. QED
    BY <2>3, <2>4
<1> DEFINE S == {k \in 0 .. MAX_LOCOS :
                    /\ F[k] \in V /\ Path(T, lead, F[k])
                    /\ T.slot[Last(F[k])].consistNext = Null \/ Len(F[k]) = k + 1}
<1>11. 0 \in S
  <2>1. Path(T, lead, <<lead>>) /\ Len(<<lead>>) = 1
    BY DEF Path
  <2>2. F[0] \in V /\ Path(T, lead, F[0]) /\ Len(F[0]) = 0 + 1 /\ 0 \in 0 .. MAX_LOCOS
    BY <1>1, <1>4, <1>10, <2>1
  <2> HIDE DEF V
  <2>3. QED
    BY <2>2
<1>12. ASSUME NEW k \in 0 .. MAX_LOCOS - 1, k \in S PROVE k + 1 \in S
  <2> DEFINE s == F[k]
             n == T.slot[Last(s)].consistNext
  <2>1. s \in V /\ Path(T, lead, s) /\ (n = Null \/ Len(s) = k + 1)
    BY <1>12
  <2>2. F[k + 1] = (IF n = Null THEN s ELSE Append(s, n)) /\ F[k + 1] \in V
    BY <1>3, <1>10, <2>1
  <2>3. Last(s) = s[Len(s)] /\ Last(s) \in Live(T)
    BY <1>3, <2>1
  <2>4. k + 1 \in 0 .. MAX_LOCOS
    BY <1>1
  <2>5. CASE n = Null
    BY <2>1, <2>2, <2>4, <2>5
  <2>6. CASE n # Null
    <3>1. n \in Live(T)
      BY <1>2, <2>3, <2>6
    <3>2. s \in Seq(Live(T)) /\ Len(s) \in Nat /\ Len(s) >= 1
      BY <2>1
    <3>3. n = T.slot[s[Len(s)]].consistNext
      BY <2>3
    <3> HIDE DEF n, s, V, step
    <3> DEFINE a == Append(s, n)
    <3>4. /\ a \in Seq(Live(T)) /\ Len(a) = Len(s) + 1
          /\ \A i \in 1 .. Len(s) : a[i] = s[i]
          /\ a[Len(s) + 1] = n
      BY <3>1, <3>2, AppendProperties
    <3> HIDE DEF a
    <3>5. ASSUME NEW i \in 1 .. Len(a) - 1 PROVE T.slot[a[i]].consistNext = a[i + 1]
      <4>1. CASE i = Len(s)
        BY <3>2, <3>3, <3>4, <4>1
      <4>2. CASE i # Len(s)
        <5>1. i \in 1 .. Len(s) - 1 /\ i \in 1 .. Len(s) /\ i + 1 \in 1 .. Len(s)
          BY <3>2, <3>4, <4>2
        <5>2. QED
          BY <2>1, <3>4, <5>1 DEF Path
      <4>3. QED
        BY <4>1, <4>2
    <3>6. Path(T, lead, a)
      <4>1. a[1] = lead
        BY <2>1, <3>2, <3>4 DEF Path
      <4>2. QED
        BY <3>2, <3>4, <3>5, <4>1 DEF Path
    <3>7. F[k + 1] = a
      BY <2>2, <2>6 DEF a
    <3>8. Len(a) = (k + 1) + 1
      BY <2>1, <2>6, <3>4
    <3>9. QED
      BY <2>2, <2>4, <3>6, <3>7, <3>8
  <2>7. QED
    BY <2>5, <2>6
<1>13. MAX_LOCOS \in S
  <2> HIDE DEF S
  <2>1. 0 .. MAX_LOCOS \subseteq S
    BY <1>1, <1>11, <1>12, BoundedInduction
  <2>2. QED
    BY <1>1, <2>1
<1> DEFINE ms == F[MAX_LOCOS]
<1>14. /\ ms \in V /\ Path(T, lead, ms) /\ Last(ms) = ms[Len(ms)]
       /\ T.slot[Last(ms)].consistNext = Null \/ Len(ms) = MAX_LOCOS + 1
  BY <1>3, <1>13
<1> HIDE DEF ms, V, S
<1>15. IsInjective(ms) /\ Len(ms) <= MAX_LOCOS
  BY <1>14, PathInjective
<1>16. T.slot[ms[Len(ms)]].consistNext = Null
  BY <1>1, <1>14, <1>15
<1>17. QED
  BY <1>9, <1>14, <1>15, <1>16 DEF ms

\* The objects of the consist that lead leads, lead included.
Group(T, lead) == {x \in Live(T) : LeadOf(T, x) = lead}

\* The lead of a live object is live, and nobody's follower.
LEMMA LeadLive ==
  ASSUME NEW T, Sound(T), NEW o \in Live(T)
  PROVE  /\ LeadOf(T, o) \in Live(T)
         /\ T.slot[LeadOf(T, o)].consistLead = Null
  BY DEF Sound, Links, FollowersLinked, LeadOf, isConsistLead

\* The members of a consist are the lead and all its followers.
LEMMA MembersGroup ==
  ASSUME NEW T, Sound(T), NEW lead \in Live(T), T.slot[lead].consistLead = Null
  PROVE  LET ms == Members(T, lead)
         IN  /\ Range(ms) = Group(T, lead)
             /\ \A i \in 1 .. Len(ms) : LeadOf(T, ms[i]) = lead
             /\ \A i \in 2 .. Len(ms) : T.slot[ms[i]].consistLead = lead
<1> DEFINE ms == Members(T, lead)
<1>1. Path(T, lead, ms) /\ T.slot[ms[Len(ms)]].consistNext = Null
  BY MembersPath
<1> HIDE DEF ms
<1>2. /\ Len(ms) \in Nat /\ DOMAIN ms = 1 .. Len(ms) /\ Len(ms) >= 1 /\ ms[1] = lead
      /\ \A i \in 1 .. Len(ms) : ms[i] \in Live(T)
      /\ \A i \in 1 .. Len(ms) - 1 : T.slot[ms[i]].consistNext = ms[i + 1]
  BY <1>1 DEF Path
<1>3. Live(T) \subseteq Objs /\ Null \notin Objs
  BY LiveObjs DEF Sound, Null, Objs
<1>4. /\ NextLinked(T) /\ FollowersLinked(T)
      /\ LeadOf(T, lead) = lead
  BY DEF Sound, Links, LeadOf
<1>5. ASSUME NEW i \in 1 .. Len(ms) - 1
      PROVE  T.slot[ms[i + 1]].consistLead = LeadOf(T, ms[i])
  <2>1. i \in 1 .. Len(ms) /\ i + 1 \in 1 .. Len(ms)
    BY <1>2
  <2>2. T.slot[ms[i]].consistNext # Null
    BY <1>2, <1>3, <2>1
  <2>3. QED
    BY <1>2, <1>4, <2>1, <2>2 DEF NextLinked
<1>6. lead # Null
  BY <1>3
<1> DEFINE S == {k \in Nat : k + 1 <= Len(ms) => LeadOf(T, ms[k + 1]) = lead}
<1>7. 0 \in S
  BY <1>2, <1>4
<1>8. ASSUME NEW k \in Nat, k \in S PROVE k + 1 \in S
  <2> SUFFICES ASSUME (k + 1) + 1 <= Len(ms) PROVE LeadOf(T, ms[(k + 1) + 1]) = lead
    OBVIOUS
  <2>1. k + 1 \in 1 .. Len(ms) - 1
    BY <1>2
  <2>2. LeadOf(T, ms[k + 1]) = lead
    BY <1>2, <1>8, <2>1
  <2>3. T.slot[ms[(k + 1) + 1]].consistLead = lead
    BY <1>5, <2>1, <2>2
  <2>4. QED
    BY <1>6, <2>3 DEF LeadOf
<1>9. Nat \subseteq S
  <2> HIDE DEF S
  <2>1. QED
    BY <1>7, <1>8, SetInduction
<1>10. ASSUME NEW i \in 1 .. Len(ms) PROVE LeadOf(T, ms[i]) = lead
  <2>1. i - 1 \in Nat /\ (i - 1) + 1 = i
    BY <1>2
  <2>2. i - 1 \in S
    BY <1>9, <2>1
  <2>3. QED
    BY <1>2, <2>1, <2>2
<1> HIDE DEF S
<1>11. ASSUME NEW i \in 2 .. Len(ms) PROVE T.slot[ms[i]].consistLead = lead
  <2>1. i - 1 \in 1 .. Len(ms) - 1 /\ (i - 1) + 1 = i /\ i - 1 \in 1 .. Len(ms)
    BY <1>2
  <2>2. QED
    BY <1>5, <1>10, <2>1
<1>12. Range(ms) \subseteq Group(T, lead)
  BY <1>2, <1>10 DEF Range, Group
<1>13. ASSUME NEW y \in Group(T, lead), y \notin Range(ms) PROVE FALSE
  <2>1. PICK pos : Ordered(T, pos)
    BY DEF Sound, Links
  <2> DEFINE Out == Group(T, lead) \ Range(ms)
             P == {pos[x] : x \in Out}
  <2>2. \A x \in Group(T, lead) : x \in Live(T) /\ x \in Objs /\ pos[x] \in Nat
    BY <1>3, <2>1 DEF Group, Ordered
  <2>3. P # {} /\ P \subseteq Nat
    BY <1>13, <2>2
  <2>4. Min(P) \in P /\ \A n \in P : Min(P) <= n
    <3> HIDE DEF P
    <3>1. QED
      BY <2>3, LeastElement
  <2>5. PICK x \in Out : \A z \in Out : pos[x] <= pos[z]
    BY <2>4
  <2>6. x \in Live(T) /\ LeadOf(T, x) = lead /\ x \notin Range(ms) /\ pos[x] \in Nat
    BY <2>2 DEF Group
  <2>7. x # lead
    <3>1. 1 \in 1 .. Len(ms)
      BY <1>2
    <3>2. lead \in Range(ms)
      BY <1>2, <3>1 DEF Range
    <3>3. QED
      BY <2>6, <3>2
  <2>8. T.slot[x].consistLead = lead
    BY <2>6, <2>7 DEF LeadOf
  <2>9. PICK p \in Live(T) : T.slot[p].consistNext = x
    BY <1>4, <1>6, <2>6, <2>8 DEF FollowersLinked
  <2>10. LeadOf(T, p) = lead /\ x # Null
    BY <1>3, <1>4, <2>6, <2>8, <2>9 DEF NextLinked
  <2>11. p \in Group(T, lead) /\ pos[p] < pos[x] /\ pos[p] \in Nat
    BY <2>1, <2>2, <2>9, <2>10 DEF Group, Ordered
  <2>12. p \in Range(ms)
    <3>1. p \in Out => pos[x] <= pos[p]
      BY <2>5
    <3>2. p \notin Out
      BY <2>6, <2>11, <3>1
    <3>3. QED
      BY <2>11, <3>2
  <2>13. PICK i \in 1 .. Len(ms) : p = ms[i]
    BY <1>2, <2>12 DEF Range
  <2>14. i # Len(ms)
    BY <1>1, <2>9, <2>10, <2>13
  <2>15. i \in 1 .. Len(ms) - 1 /\ i + 1 \in 1 .. Len(ms)
    <3>1. Len(ms) \in Nat
      BY <1>2
    <3>2. QED
      BY <2>13, <2>14, <3>1
  <2>16. x = ms[i + 1]
    BY <1>2, <2>9, <2>13, <2>15
  <2>17. x \in Range(ms)
    BY <1>2, <2>15, <2>16 DEF Range
  <2>18. QED
    BY <2>6, <2>17
<1>14. QED
  BY <1>10, <1>11, <1>12, <1>13 DEF ms

\* Backing up along consistLead ends at the lead.
LEMMA LeadRight ==
  ASSUME NEW T, Sound(T), NEW o \in Live(T)
  PROVE  Lead(T, o) = LeadOf(T, o)
<1> DEFINE V == Live(T)
           step(x) == IF T.slot[x].consistLead = Null THEN x ELSE T.slot[x].consistLead
           G == [x \in V \X Nat |-> step(x[1])]
           F == CHOOSE F : F = [k \in 0 .. MAX_LOCOS |->
                    IF k = 0 THEN o
                    ELSE IF T.slot[F[k - 1]].consistLead = Null THEN F[k - 1]
                    ELSE T.slot[F[k - 1]].consistLead]
<1>1. MAX_LOCOS \in Nat /\ MAX_LOCOS # 0
  BY TableAssumption
<1>2. \A x \in V : step(x) = LeadOf(T, x) /\ step(x) \in V
  BY LeadLive DEF LeadOf
<1>3. G \in [V \X Nat -> V] /\ \A x \in V, k \in Nat : G[<<x, k>>] = step(x)
  <2> HIDE DEF V, step
  <2>1. QED
    BY <1>2
<1>4. PICK f : Walked(f, MAX_LOCOS, V, o, G)
  <2>1. o \in V
    OBVIOUS
  <2> HIDE DEF V, G
  <2>2. QED
    BY <1>1, <1>3, <2>1, WalkExists
<1>5. f = [k \in 0 .. MAX_LOCOS |->
             IF k = 0 THEN o
             ELSE IF T.slot[f[k - 1]].consistLead = Null THEN f[k - 1]
             ELSE T.slot[f[k - 1]].consistLead]
  <2>1. ASSUME NEW k \in 0 .. MAX_LOCOS, k # 0
        PROVE  G[<<f[k - 1], k>>] = step(f[k - 1])
    <3>1. k - 1 \in 0 .. MAX_LOCOS /\ k \in Nat
      BY <1>1, <2>1
    <3> HIDE DEF V, G, step
    <3>2. f[k - 1] \in V
      BY <1>4, <3>1 DEF Walked
    <3>3. QED
      BY <1>3, <3>1, <3>2
  <2> HIDE DEF V, G
  <2> DEFINE A(k) == IF k = 0 THEN o ELSE G[<<f[k - 1], k>>]
             B(k) == IF k = 0 THEN o ELSE step(f[k - 1])
  <2>2. \A k \in 0 .. MAX_LOCOS : A(k) = B(k)
    BY <2>1
  <2>3. f = [k \in 0 .. MAX_LOCOS |-> A(k)]
    BY <1>4, Zenon DEF Walked
  <2> HIDE DEF A, B
  <2>4. f = [k \in 0 .. MAX_LOCOS |-> B(k)]
    BY <2>2, <2>3
  <2>5. QED
    BY <2>4, Zenon DEF B
<1>6. F = [k \in 0 .. MAX_LOCOS |->
             IF k = 0 THEN o
             ELSE IF T.slot[F[k - 1]].consistLead = Null THEN F[k - 1]
             ELSE T.slot[F[k - 1]].consistLead]
  BY <1>5, Zenon
<1>7. Lead(T, o) = F[MAX_LOCOS]
  BY Zenon DEF Lead
<1> HIDE DEF F
<1>8. F[0] = o /\ \A k \in 0 .. MAX_LOCOS - 1 : F[k + 1] = step(F[k])
  <2> DEFINE B(k) == IF k = 0 THEN o ELSE step(F[k - 1])
  <2>1. F = [k \in 0 .. MAX_LOCOS |-> B(k)]
    BY <1>6, Zenon
  <2> HIDE DEF B
  <2>2. \A k \in 0 .. MAX_LOCOS : F[k] = B(k)
    BY <2>1
  <2>3. F[0] = o
    BY <1>1, <2>2 DEF B
  <2>4. ASSUME NEW k \in 0 .. MAX_LOCOS - 1 PROVE F[k + 1] = step(F[k])
    <3>1. k + 1 \in 0 .. MAX_LOCOS /\ k + 1 # 0 /\ (k + 1) - 1 = k
      BY <1>1
    <3>2. F[k + 1] = B(k + 1)
      BY <2>2, <3>1
    <3> HIDE DEF step
    <3>3. QED
      BY <3>1, <3>2 DEF B
  <2>5. QED
    BY <2>3, <2>4
<1> DEFINE S == {k \in 0 .. MAX_LOCOS : k # 0 => F[k] = LeadOf(T, o)}
<1>9. 0 \in S
  BY <1>1
<1>10. ASSUME NEW k \in 0 .. MAX_LOCOS - 1, k \in S PROVE k + 1 \in S
  <2>1. F[k + 1] = step(F[k]) /\ k + 1 \in 0 .. MAX_LOCOS
    BY <1>1, <1>8
  <2>2. CASE k = 0
    BY <1>2, <1>8, <2>1, <2>2
  <2>3. CASE k # 0
    <3>1. F[k] = LeadOf(T, o)
      BY <1>10, <2>3
    <3>2. step(LeadOf(T, o)) = LeadOf(T, o)
      BY LeadLive
    <3>3. QED
      BY <2>1, <3>1, <3>2
  <2>4. QED
    BY <2>2, <2>3
<1>11. MAX_LOCOS \in S
  <2> HIDE DEF S
  <2>1. 0 .. MAX_LOCOS \subseteq S
    BY <1>1, <1>9, <1>10, BoundedInduction
  <2>2. QED
    BY <1>1, <2>1
<1>12. QED
  BY <1>1, <1>7, <1>11

-----------------------------------------------------------------------------
(* Operators that change links or take a slot off the list.                *)

\* The lists, and the locos of all slots, are as before.
SameLists(T, t) ==
    /\ t.chain = T.chain /\ t.recycler = T.recycler /\ t.count = T.count
    /\ \A x \in Objs : t.slot[x].loco = T.slot[x].loco

LEMMA SameListsSound ==
  ASSUME NEW T, T \in Tables, Lists(T), NEW t, SameLists(T, t)
  PROVE  Lists(t) /\ Live(t) = Live(T)
<1>1. Live(t) = Live(T) /\ Recycled(t) = Recycled(T)
  BY DEF SameLists, Live, Recycled
<1>2. Live(T) \subseteq Objs
  BY LiveObjs
<1>3. QED
  BY <1>1, <1>2 DEF Lists, SameLists

\* A slot that is in no consist can be forgotten.
LEMMA ForgetSound ==
  ASSUME NEW T, Sound(T), NEW o \in Live(T), ~inConsist(T, o)
  PROVE  LET t == forget(T, o)
         IN  Sound(t) /\ Live(t) = Live(T) \ {o} /\ t.slot = T.slot /\ t.chainModified
<1> DEFINE t == forget(T, o)
<1>1. T \in Tables /\ Lists(T) /\ Links(T)
  BY DEF Sound
<1>2. Live(T) \subseteq Objs /\ T.chain \in Seq(Objs) /\ T.recycler \in Seq(Objs)
  BY <1>1, LiveObjs DEF Tables
<1>3. /\ t.chain = RemoveFirst(T.chain, o) /\ t.recycler = <<o>> \o T.recycler
      /\ t.count = T.count /\ t.slot = T.slot /\ t.chainModified
  BY <1>1 DEF forget, Tables
<1>4. /\ t.chain \in Seq(Objs) /\ Live(t) = Live(T) \ {o} /\ IsInjective(t.chain)
  BY <1>1, <1>2, <1>3, RemoveFirstRange DEF Live, Lists
<1>5. o \in Objs /\ o \notin Recycled(T)
  BY <1>1, <1>2 DEF Lists
<1>6. t.recycler \in Seq(Objs) /\ Recycled(t) = Recycled(T) \cup {o} /\ IsInjective(t.recycler)
  BY <1>1, <1>2, <1>3, <1>5, ConsRange DEF Recycled, Lists
<1>7. t \in Tables
  BY <1>1, <1>3, <1>4, <1>6 DEF Tables, forget
<1> HIDE DEF t
<1>8. Lists(t)
  BY <1>1, <1>3, <1>4, <1>6 DEF Lists
<1>9. T.slot[o].consistLead = Null /\ T.slot[o].consistNext = Null
  BY DEF inConsist, isConsistLead, isConsistFollower
<1>10. \A x \in Live(T) : T.slot[x].consistNext # o /\ T.slot[x].consistLead # o
  <2>1. o # Null
    BY <1>5 DEF Objs, Null
  <2>2. ASSUME NEW x \in Live(T), T.slot[x].consistNext = o PROVE FALSE
    <3>1. T.slot[o].consistLead = LeadOf(T, x)
      BY <1>1, <2>1, <2>2 DEF Links, NextLinked
    <3>2. LeadOf(T, x) # Null
      BY <1>2, LeadLive DEF Objs, Null
    <3>3. QED
      BY <1>9, <3>1, <3>2
  <2>3. ASSUME NEW x \in Live(T), T.slot[x].consistLead = o PROVE FALSE
    BY <1>1, <1>9, <2>1, <2>3 DEF Links, FollowersLinked, isConsistLead
  <2>4. QED
    BY <2>2, <2>3
<1>11. Links(t)
  <2>1. FollowersLinked(t)
    <3> SUFFICES ASSUME NEW x \in Live(t), t.slot[x].consistLead # Null
                 PROVE  /\ t.slot[x].consistLead \in Live(t)
                        /\ isConsistLead(t, t.slot[x].consistLead)
                        /\ \E p \in Live(t) : t.slot[p].consistNext = x
      BY DEF FollowersLinked
    <3>1. x \in Live(T) /\ T.slot[x].consistLead # Null
      BY <1>3, <1>4
    <3>2. /\ T.slot[x].consistLead \in Live(T)
          /\ isConsistLead(T, T.slot[x].consistLead)
          /\ \E p \in Live(T) : T.slot[p].consistNext = x
      BY <1>1, <3>1 DEF Links, FollowersLinked
    <3>3. PICK p \in Live(T) : T.slot[p].consistNext = x
      BY <3>2
    <3>4. p # o
      BY <1>5, <1>9, <1>2, <3>1, <3>3 DEF Objs, Null
    <3>5. QED
      BY <1>3, <1>4, <1>10, <3>1, <3>2, <3>3, <3>4 DEF isConsistLead
  <2>2. NextLinked(t)
    BY <1>1, <1>3, <1>4, <1>10 DEF Links, NextLinked, LeadOf
  <2>3. NextInjective(t)
    BY <1>1, <1>3, <1>4 DEF Links, NextInjective
  <2>4. \E pos : Ordered(t, pos)
    <3>1. PICK pos : Ordered(T, pos)
      BY <1>1 DEF Links
    <3>2. Ordered(t, pos)
      BY <1>3, <1>4, <3>1 DEF Ordered
    <3>3. QED
      BY <3>2
  <2>5. QED
    BY <2>1, <2>2, <2>3, <2>4 DEF Links
<1>12. QED
  BY <1>3, <1>4, <1>7, <1>8, <1>11 DEF Sound, t

\* The empty table is sound, and all that forgetAll leaves.
LEMMA EmptySound ==
  ASSUME NEW T, T = EmptyTable \/ T = forgetAll(EmptyTable)
  PROVE  Sound(T) /\ Live(T) = {}
<1>1. /\ T.chain = <<>> /\ T.recycler = <<>> /\ T.count = 0
      /\ T.slot = [o \in Objs |-> FreshSlot(0)]
  BY DEF EmptyTable, forgetAll
<1>2. FreshSlot(0) \in SlotRecs
  BY FreshSlotType
<1>3. T \in Tables
  <2>1. 0 \in 0 .. MAX_LOCOS
    BY TableAssumption
  <2>2. [o \in Objs |-> FreshSlot(0)] \in [Objs -> SlotRecs]
    BY <1>2
  <2>3. <<>> \in Seq(Objs) /\ TRUE \in BOOLEAN /\ FALSE \in BOOLEAN
    OBVIOUS
  <2>4. EmptyTable \in Tables
    BY <2>1, <2>2, <2>3 DEF EmptyTable, Tables
  <2>5. forgetAll(EmptyTable) \in Tables
    BY <2>3, <2>4 DEF forgetAll, Tables
  <2>6. QED
    BY <2>4, <2>5
<1>4. Live(T) = {} /\ Recycled(T) = {}
  BY <1>1 DEF Live, Recycled, Range
<1>5. Lists(T)
  BY <1>1, <1>4 DEF Lists, IsInjective
<1>6. Links(T)
  <2>1. [x \in Objs |-> 0] \in [Objs -> Nat]
    OBVIOUS
  <2>2. Ordered(T, [x \in Objs |-> 0])
    BY <1>4, <2>1 DEF Ordered
  <2>3. QED
    BY <1>4, <2>2 DEF Links, FollowersLinked, NextLinked, NextInjective
<1>7. QED
  BY <1>3, <1>4, <1>5, <1>6 DEF Sound

\* deleteAnyConsist takes the whole consist apart, whichever member is named.
LEMMA DeleteSound ==
  ASSUME NEW T, Sound(T), NEW l
  PROVE  LET t == deleteAnyConsist(T, l)
             o == findSlot(T, l)
         IN  /\ Sound(t) /\ Live(t) = Live(T) /\ SameLists(T, t)
             /\ t.chainModified = T.chainModified
             /\ o # Null => ~inConsist(t, o)
             /\ \A x \in Live(T) :
                  \/ t.slot[x] = T.slot[x]
                  \/ /\ ~inConsist(t, x) /\ ~t.slot[x].consistReverse
                     /\ o # Null /\ LeadOf(T, x) = LeadOf(T, o)
<1> DEFINE o == findSlot(T, l)
           lead == IF isConsistLead(T, o) THEN o ELSE T.slot[o].consistLead
           members == Range(Members(T, lead))
           t == deleteAnyConsist(T, l)
<1>1. T \in Tables /\ Lists(T) /\ Links(T)
  BY DEF Sound
<1>2. Live(T) \subseteq Objs /\ Null \notin Objs /\ T.slot \in [Objs -> SlotRecs]
  BY <1>1, LiveObjs DEF Objs, Null, Tables
<1>3. o # Null => o \in Live(T)
  BY <1>1, FindSlotFinds
<1>4. SameLists(T, T)
  BY DEF SameLists
<1>5. CASE o = Null
  <2>1. t = T
    BY <1>5 DEF deleteAnyConsist
  <2> HIDE DEF o, t
  <2>2. QED
    BY <1>4, <1>5, <2>1 DEF t, o
<1>6. CASE o # Null /\ lead = Null
  <2>1. t = T
    BY <1>6 DEF deleteAnyConsist
  <2>2. ~inConsist(T, o)
    BY <1>6 DEF inConsist, isConsistLead, isConsistFollower
  <2> HIDE DEF o, t
  <2>3. QED
    BY <1>4, <1>6, <2>1, <2>2 DEF t, o
<1>7. CASE o # Null /\ lead # Null
  <2>1. t = [T EXCEPT !.slot = [x \in Objs |->
                IF x \in members
                THEN [@[x] EXCEPT !.consistLead = Null, !.consistNext = Null,
                                  !.consistReverse = FALSE]
                ELSE @[x]]]
    BY <1>7 DEF deleteAnyConsist
  <2>2. lead = LeadOf(T, o)
    BY <1>7 DEF LeadOf, isConsistLead
  <2>3. lead \in Live(T) /\ T.slot[lead].consistLead = Null
    BY <1>3, <1>7, <2>2, LeadLive
  <2> HIDE DEF lead
  <2>4. members = Group(T, lead)
    BY <2>3, MembersGroup
  <2> DEFINE cleared == [x \in Objs |->
                IF x \in Group(T, lead)
                THEN [T.slot[x] EXCEPT !.consistLead = Null, !.consistNext = Null,
                                       !.consistReverse = FALSE]
                ELSE T.slot[x]]
  <2>5. t = [T EXCEPT !.slot = cleared]
    BY <2>1, <2>4
  <2> HIDE DEF t, members
  <2>6. cleared \in [Objs -> SlotRecs]
    <3>1. ASSUME NEW r \in SlotRecs
          PROVE  [r EXCEPT !.consistLead = Null, !.consistNext = Null,
                           !.consistReverse = FALSE] \in SlotRecs
      BY DEF SlotRecs
    <3>2. \A x \in Objs : T.slot[x] \in SlotRecs
      BY <1>2
    <3>3. QED
      BY <3>1, <3>2
  <2>7. /\ \A x \in Objs \ Group(T, lead) : cleared[x] = T.slot[x]
        /\ \A x \in Group(T, lead) :
              /\ cleared[x].consistLead = Null /\ cleared[x].consistNext = Null
              /\ cleared[x].consistReverse = FALSE /\ cleared[x].loco = T.slot[x].loco
    <3>1. Group(T, lead) \subseteq Objs
      BY <1>2 DEF Group
    <3>2. ASSUME NEW r \in SlotRecs
          PROVE  LET c == [r EXCEPT !.consistLead = Null, !.consistNext = Null,
                                    !.consistReverse = FALSE]
                 IN  /\ c.consistLead = Null /\ c.consistNext = Null
                     /\ c.consistReverse = FALSE /\ c.loco = r.loco
      BY DEF SlotRecs
    <3>3. \A x \in Objs : T.slot[x] \in SlotRecs
      BY <1>2
    <3>4. QED
      BY <3>1, <3>2, <3>3
  <2> HIDE DEF cleared
  <2>8. /\ t.slot = cleared /\ t.chain = T.chain /\ t.recycler = T.recycler
        /\ t.count = T.count /\ t.chainModified = T.chainModified /\ t \in Tables
    BY <1>1, <2>5, <2>6 DEF Tables
  <2>9. SameLists(T, t)
    BY <2>7, <2>8 DEF SameLists
  <2>10. Lists(t) /\ Live(t) = Live(T)
    BY <1>1, <2>9, SameListsSound
  <2>11. /\ \A x \in Live(T) \ Group(T, lead) : t.slot[x] = T.slot[x]
         /\ \A x \in Group(T, lead) : t.slot[x].consistLead = Null /\ t.slot[x].consistNext = Null
                                      /\ ~t.slot[x].consistReverse
    BY <1>2, <2>7, <2>8
  <2>12. Group(T, lead) \subseteq Live(T) /\ \A x \in Live(T) : x \in Group(T, lead) <=> LeadOf(T, x) = lead
    BY DEF Group
  <2>13. ASSUME NEW x \in Live(T) \ Group(T, lead), T.slot[x].consistNext # Null
         PROVE  T.slot[x].consistNext \in Live(T) \ Group(T, lead)
    <3>1. T.slot[x].consistNext \in Live(T)
          /\ T.slot[T.slot[x].consistNext].consistLead = LeadOf(T, x)
      BY <1>1, <2>13 DEF Links, NextLinked
    <3>2. LeadOf(T, x) # lead /\ LeadOf(T, x) # Null
      BY <1>2, <2>12, LeadLive
    <3>3. QED
      BY <2>12, <3>1, <3>2 DEF LeadOf
  <2>14. ASSUME NEW x \in Live(T) \ Group(T, lead), T.slot[x].consistLead # Null
         PROVE  /\ T.slot[x].consistLead \in Live(T) \ Group(T, lead)
                /\ isConsistLead(T, T.slot[x].consistLead)
                /\ \E p \in Live(T) \ Group(T, lead) : T.slot[p].consistNext = x
    <3>1. /\ T.slot[x].consistLead \in Live(T)
          /\ isConsistLead(T, T.slot[x].consistLead)
      BY <1>1, <2>14 DEF Links, FollowersLinked
    <3>2. T.slot[x].consistLead # lead
      BY <2>12, <2>14 DEF LeadOf
    <3>3. T.slot[x].consistLead \in Live(T) \ Group(T, lead)
      BY <2>12, <3>1, <3>2 DEF LeadOf, isConsistLead
    <3>4. PICK p \in Live(T) : T.slot[p].consistNext = x
      BY <1>1, <2>14 DEF Links, FollowersLinked
    <3>5. LeadOf(T, p) = T.slot[x].consistLead
      BY <1>1, <1>2, <3>4 DEF Links, NextLinked
    <3>6. p \notin Group(T, lead)
      BY <2>12, <3>2, <3>5
    <3>7. QED
      BY <3>1, <3>3, <3>4, <3>6
  <2>15. Links(t)
    <3>1. FollowersLinked(t)
      <4> SUFFICES ASSUME NEW x \in Live(T), t.slot[x].consistLead # Null
                   PROVE  /\ t.slot[x].consistLead \in Live(T)
                          /\ isConsistLead(t, t.slot[x].consistLead)
                          /\ \E p \in Live(T) : t.slot[p].consistNext = x
        BY <2>10 DEF FollowersLinked
      <4>1. x \in Live(T) \ Group(T, lead) /\ t.slot[x] = T.slot[x]
        BY <2>11
      <4>2. QED
        BY <2>11, <2>14, <4>1 DEF isConsistLead
    <3>2. NextLinked(t)
      <4> SUFFICES ASSUME NEW x \in Live(T), t.slot[x].consistNext # Null
                   PROVE  /\ t.slot[x].consistNext \in Live(T)
                          /\ t.slot[t.slot[x].consistNext].consistLead = LeadOf(t, x)
        BY <2>10 DEF NextLinked
      <4>1. x \in Live(T) \ Group(T, lead) /\ t.slot[x] = T.slot[x]
        BY <2>11
      <4>2. T.slot[x].consistNext \in Live(T) \ Group(T, lead)
        BY <2>13, <4>1
      <4>3. T.slot[T.slot[x].consistNext].consistLead = LeadOf(T, x)
        BY <1>1, <4>1 DEF Links, NextLinked
      <4>4. QED
        BY <2>11, <4>1, <4>2, <4>3 DEF LeadOf
    <3>3. NextInjective(t)
      BY <1>1, <2>10, <2>11 DEF Links, NextInjective
    <3>4. \E pos : Ordered(t, pos)
      <4>1. PICK pos : Ordered(T, pos)
        BY <1>1 DEF Links
      <4>2. Ordered(t, pos)
        BY <2>10, <2>11, <4>1 DEF Ordered
      <4>3. QED
        BY <4>2
    <3>5. QED
      BY <3>1, <3>2, <3>3, <3>4 DEF Links
  <2>16. o \in Group(T, lead)
    BY <1>3, <1>7, <2>2, <2>12
  <2>17. \A x \in Group(T, lead) : ~inConsist(t, x)
    BY <2>11 DEF inConsist, isConsistLead, isConsistFollower
  <2> HIDE DEF o
  <2>18. \A x \in Live(T) :
           \/ t.slot[x] = T.slot[x]
           \/ /\ ~inConsist(t, x) /\ ~t.slot[x].consistReverse
              /\ o # Null /\ LeadOf(T, x) = LeadOf(T, o)
    BY <1>7, <2>2, <2>11, <2>12, <2>17
  <2>19. Sound(t)
    BY <2>8, <2>10, <2>15 DEF Sound
  <2>20. QED
    BY <2>8, <2>9, <2>10, <2>16, <2>17, <2>18, <2>19 DEF t, o
<1>8. QED
  BY <1>5, <1>6, <1>7

\* t is T with add behind tail in the consist of lead.
Joined(T, t, lead, tail, add) ==
    /\ t \in Tables /\ SameLists(T, t) /\ t.chainModified = T.chainModified
    /\ \A x \in Objs :
          /\ t.slot[x].consistLead = (IF x = add THEN lead ELSE T.slot[x].consistLead)
          /\ t.slot[x].consistNext = (IF x = tail THEN add ELSE T.slot[x].consistNext)
          /\ x # add => t.slot[x].consistReverse = T.slot[x].consistReverse

\* tail is the last of the consist of lead, and add is in none.
CanJoin(T, lead, tail, add) ==
    /\ lead \in Live(T) /\ tail \in Live(T) /\ add \in Live(T)
    /\ T.slot[lead].consistLead = Null
    /\ LeadOf(T, tail) = lead /\ T.slot[tail].consistNext = Null
    /\ ~inConsist(T, add) /\ add # tail /\ add # lead

LEMMA JoinSound ==
  ASSUME NEW T, Sound(T), NEW lead, NEW tail, NEW add, CanJoin(T, lead, tail, add),
         NEW t, Joined(T, t, lead, tail, add)
  PROVE  /\ Sound(t) /\ Live(t) = Live(T)
         /\ \A x \in Live(T) : t.slot[x].loco = T.slot[x].loco
         /\ t.slot[lead].consistLead = Null /\ t.slot[lead].consistNext # Null
         /\ LeadOf(t, add) = lead /\ t.slot[add].consistNext = Null
         /\ \A x \in Live(T) : inConsist(t, x) <=> inConsist(T, x) \/ x \in {add, tail}
<1>1. T \in Tables /\ Lists(T) /\ Links(T)
  BY DEF Sound
<1>2. Live(T) \subseteq Objs /\ Null \notin Objs
  BY <1>1, LiveObjs DEF Objs, Null
<1>3. Lists(t) /\ Live(t) = Live(T)
  BY <1>1, SameListsSound DEF Joined
<1>4. /\ \A x \in Live(T) :
           /\ t.slot[x].consistLead = (IF x = add THEN lead ELSE T.slot[x].consistLead)
           /\ t.slot[x].consistNext = (IF x = tail THEN add ELSE T.slot[x].consistNext)
      /\ \A x \in Live(T) : t.slot[x].loco = T.slot[x].loco
  BY <1>2 DEF Joined, SameLists
<1>5. /\ lead \in Live(T) /\ tail \in Live(T) /\ add \in Live(T)
      /\ lead # Null /\ tail # Null /\ add # Null /\ add # tail /\ add # lead
      /\ T.slot[lead].consistLead = Null
      /\ LeadOf(T, tail) = lead /\ T.slot[tail].consistNext = Null
      /\ T.slot[add].consistLead = Null /\ T.slot[add].consistNext = Null
  BY <1>2 DEF CanJoin, inConsist, isConsistLead, isConsistFollower
<1>6. lead = tail \/ isConsistLead(T, lead)
  BY <1>1, <1>5 DEF LeadOf, Links, FollowersLinked
<1>7. \A x \in Live(T) : T.slot[x].consistNext # add /\ T.slot[x].consistLead # add
  <2>1. ASSUME NEW x \in Live(T), T.slot[x].consistNext = add PROVE FALSE
    <3>1. T.slot[add].consistLead = LeadOf(T, x)
      BY <1>1, <1>5, <2>1 DEF Links, NextLinked
    <3>2. LeadOf(T, x) # Null
      BY <1>2, LeadLive
    <3>3. QED
      BY <1>5, <3>1, <3>2
  <2>2. ASSUME NEW x \in Live(T), T.slot[x].consistLead = add PROVE FALSE
    BY <1>1, <1>5, <2>2 DEF Links, FollowersLinked, isConsistLead
  <2>3. QED
    BY <2>1, <2>2
<1>8. isConsistLead(t, lead)
  BY <1>4, <1>5, <1>6 DEF isConsistLead
<1>9. FollowersLinked(t)
  <2> SUFFICES ASSUME NEW x \in Live(T), t.slot[x].consistLead # Null
               PROVE  /\ t.slot[x].consistLead \in Live(T)
                      /\ isConsistLead(t, t.slot[x].consistLead)
                      /\ \E p \in Live(T) : t.slot[p].consistNext = x
    BY <1>3 DEF FollowersLinked
  <2>1. CASE x = add
    BY <1>4, <1>5, <1>8, <2>1
  <2>2. CASE x # add
    <3>1. T.slot[x].consistLead # Null /\ t.slot[x].consistLead = T.slot[x].consistLead
      BY <1>4, <2>2
    <3>2. /\ T.slot[x].consistLead \in Live(T)
          /\ isConsistLead(T, T.slot[x].consistLead)
          /\ \E p \in Live(T) : T.slot[p].consistNext = x
      BY <1>1, <3>1 DEF Links, FollowersLinked
    <3>3. isConsistLead(t, T.slot[x].consistLead)
      BY <1>4, <1>5, <1>7, <3>2 DEF isConsistLead
    <3>4. PICK p \in Live(T) : T.slot[p].consistNext = x
      BY <3>2
    <3>5. x # Null
      BY <1>2
    <3>6. t.slot[p].consistNext = x
      BY <1>4, <1>5, <3>4, <3>5
    <3>7. QED
      BY <3>1, <3>2, <3>3, <3>4, <3>6
  <2>3. QED
    BY <2>1, <2>2
<1>10. NextLinked(t)
  <2> SUFFICES ASSUME NEW x \in Live(T), t.slot[x].consistNext # Null
               PROVE  /\ t.slot[x].consistNext \in Live(T)
                      /\ t.slot[t.slot[x].consistNext].consistLead = LeadOf(t, x)
    BY <1>3 DEF NextLinked
  <2>1. CASE x = tail
    BY <1>4, <1>5, <2>1 DEF LeadOf
  <2>2. CASE x # tail
    <3>1. T.slot[x].consistNext # Null /\ t.slot[x].consistNext = T.slot[x].consistNext
      BY <1>4, <2>2
    <3>2. T.slot[x].consistNext \in Live(T)
          /\ T.slot[T.slot[x].consistNext].consistLead = LeadOf(T, x)
      BY <1>1, <3>1 DEF Links, NextLinked
    <3>3. x # add /\ T.slot[x].consistNext # add
      BY <1>5, <1>7, <3>1
    <3>4. LeadOf(t, x) = LeadOf(T, x)
      BY <1>4, <3>3 DEF LeadOf
    <3>5. QED
      BY <1>4, <3>1, <3>2, <3>3, <3>4
  <2>3. QED
    BY <2>1, <2>2
<1>11. NextInjective(t)
  <2> SUFFICES ASSUME NEW x \in Live(T), NEW y \in Live(T), t.slot[x].consistNext # Null,
                      t.slot[x].consistNext = t.slot[y].consistNext
               PROVE  x = y
    BY <1>3 DEF NextInjective
  <2>1. CASE x = tail \/ y = tail
    BY <1>4, <1>7, <2>1
  <2>2. CASE x # tail /\ y # tail
    BY <1>1, <1>4, <2>2 DEF Links, NextInjective
  <2>3. QED
    BY <2>1, <2>2
<1>12. \E pos : Ordered(t, pos)
  <2>1. PICK pos : Ordered(T, pos)
    BY <1>1 DEF Links
  <2> DEFINE new == [pos EXCEPT ![add] = pos[tail] + 1]
  <2>2. pos \in [Objs -> Nat] /\ pos[tail] \in Nat
    BY <1>2, <1>5, <2>1 DEF Ordered
  <2>3. /\ new \in [Objs -> Nat] /\ new[add] = pos[tail] + 1
        /\ \A x \in Objs \ {add} : new[x] = pos[x]
    BY <1>2, <1>5, <2>2
  <2> HIDE DEF new
  <2>4. ASSUME NEW x \in Live(T), t.slot[x].consistNext # Null
        PROVE  new[x] < new[t.slot[x].consistNext]
    <3>1. CASE x = tail
      <4>1. t.slot[x].consistNext = add /\ new[x] = pos[tail]
        BY <1>2, <1>4, <1>5, <2>3, <3>1
      <4>2. QED
        BY <2>2, <2>3, <4>1
    <3>2. CASE x # tail
      <4>0. t.slot[x].consistNext = T.slot[x].consistNext
        BY <1>4, <3>2
      <4>1. T.slot[x].consistNext # Null /\ t.slot[x].consistNext = T.slot[x].consistNext
        BY <2>4, <4>0
      <4>2. T.slot[x].consistNext \in Live(T) /\ T.slot[x].consistNext # add /\ x # add
        BY <1>1, <1>5, <1>7, <4>1 DEF Links, NextLinked
      <4>3. pos[x] < pos[T.slot[x].consistNext]
        BY <2>1, <4>1 DEF Ordered
      <4>4. QED
        BY <1>2, <2>3, <4>1, <4>2, <4>3
    <3>3. QED
      BY <3>1, <3>2
  <2>5. Ordered(t, new)
    BY <1>3, <2>3, <2>4 DEF Ordered
  <2>6. QED
    BY <2>5
<1>13. Sound(t)
  BY <1>3, <1>9, <1>10, <1>11, <1>12 DEF Sound, Links, Joined
<1>14. \A x \in Live(T) : inConsist(t, x) <=> inConsist(T, x) \/ x \in {add, tail}
  <2> TAKE x \in Live(T)
  <2>1. CASE x = add
    BY <1>4, <1>5, <2>1 DEF inConsist, isConsistFollower
  <2>2. CASE x = tail
    BY <1>4, <1>5, <2>2 DEF inConsist, isConsistFollower, isConsistLead
  <2>3. CASE x # add /\ x # tail
    BY <1>4, <1>5, <2>3 DEF inConsist, isConsistFollower, isConsistLead
  <2>4. QED
    BY <2>1, <2>2, <2>3
<1>15. /\ t.slot[lead].consistLead = Null /\ t.slot[lead].consistNext # Null
       /\ LeadOf(t, add) = lead /\ t.slot[add].consistNext = Null
  <2>1. t.slot[lead].consistLead = Null /\ t.slot[lead].consistNext # Null
    BY <1>4, <1>5, <1>8 DEF isConsistLead, LeadOf
  <2>2. LeadOf(t, add) = lead /\ t.slot[add].consistNext = Null
    BY <1>4, <1>5, <1>8, SMTT(30) DEF LeadOf
  <2>3. QED
    BY <2>1, <2>2
<1>16. QED
  BY <1>3, <1>4, <1>13, <1>14, <1>15

\* The assignments that join it.
LEMMA JoinedBy ==
  ASSUME NEW T, Sound(T), NEW lead \in Objs, NEW tail \in Objs, NEW add \in Objs, add # tail,
         NEW rev \in BOOLEAN
  PROVE  LET t == [T EXCEPT !.slot[add].consistLead = lead,
                            !.slot[add].consistReverse = rev,
                            !.slot[tail].consistNext = add]
         IN  Joined(T, t, lead, tail, add)
<1> DEFINE t == [T EXCEPT !.slot[add].consistLead = lead,
                          !.slot[add].consistReverse = rev,
                          !.slot[tail].consistNext = add]
           a == [T.slot[add] EXCEPT !.consistLead = lead, !.consistReverse = rev]
           b == [T.slot[tail] EXCEPT !.consistNext = add]
           slot == [T.slot EXCEPT ![add] = a, ![tail] = b]
<1>1. T \in Tables /\ T.slot \in [Objs -> SlotRecs]
  BY DEF Sound, Tables
<1>2. T.slot[add] \in SlotRecs /\ T.slot[tail] \in SlotRecs
  BY <1>1
<1>3. /\ a \in SlotRecs /\ a.loco = T.slot[add].loco /\ a.consistLead = lead
      /\ a.consistNext = T.slot[add].consistNext
  BY <1>2 DEF SlotRecs
<1>4. /\ b \in SlotRecs /\ b.loco = T.slot[tail].loco /\ b.consistLead = T.slot[tail].consistLead
      /\ b.consistNext = add /\ b.consistReverse = T.slot[tail].consistReverse
  BY <1>2 DEF SlotRecs
<1>5. t = [T EXCEPT !.slot = slot]
  BY <1>1 DEF Tables
<1> HIDE DEF a, b
<1>6. /\ slot \in [Objs -> SlotRecs] /\ slot[add] = a /\ slot[tail] = b
      /\ \A x \in Objs \ {add, tail} : slot[x] = T.slot[x]
  BY <1>1, <1>3, <1>4
<1> HIDE DEF slot, t
<1>7. /\ t \in Tables /\ t.slot = slot /\ t.chain = T.chain /\ t.recycler = T.recycler
      /\ t.count = T.count /\ t.chainModified = T.chainModified
  BY <1>1, <1>5, <1>6 DEF Tables
<1>8. SameLists(T, t)
  BY <1>3, <1>4, <1>6, <1>7 DEF SameLists
<1>9. QED
  BY <1>3, <1>4, <1>6, <1>7, <1>8 DEF Joined, t

-----------------------------------------------------------------------------
(* No loco moves from one consist to another.                              *)

\* A loco that follows in T and in t has the same loco as its lead in both.
NoSteal(T, t) ==
    \A x \in Live(T), y \in Live(t) :
        (/\ T.slot[x].loco = t.slot[y].loco
         /\ T.slot[x].consistLead # Null /\ t.slot[y].consistLead # Null)
        => T.slot[T.slot[x].consistLead].loco = t.slot[t.slot[y].consistLead].loco

LEMMA SameLeadNoSteal ==
  ASSUME NEW T, NEW t, Sound(T), Sound(t),
         \A x \in Live(T), y \in Live(t) :
             T.slot[x].loco = t.slot[y].loco => x = y \/ t.slot[y].consistLead = Null,
         \A x \in Live(T) : x \in Live(t) =>
             /\ t.slot[x].loco = T.slot[x].loco
             /\ T.slot[x].consistLead # Null => t.slot[x].consistLead \in {Null, T.slot[x].consistLead}
  PROVE  NoSteal(T, t)
<1> SUFFICES ASSUME NEW x \in Live(T), NEW y \in Live(t), T.slot[x].loco = t.slot[y].loco,
                    T.slot[x].consistLead # Null, t.slot[y].consistLead # Null
             PROVE  T.slot[T.slot[x].consistLead].loco = t.slot[t.slot[y].consistLead].loco
  BY DEF NoSteal
<1>1. x = y
  OBVIOUS
<1>2. t.slot[y].consistLead = T.slot[x].consistLead
  BY <1>1
<1>3. T.slot[x].consistLead \in Live(T) /\ t.slot[y].consistLead \in Live(t)
  BY DEF Sound, Links, FollowersLinked
<1>4. QED
  BY <1>2, <1>3

\* While objects stay and keep their locos, an object is all that has its loco.
LEMMA SameObject ==
  ASSUME NEW T, NEW t, Sound(t), \A x \in Live(T) : x \in Live(t) /\ t.slot[x].loco = T.slot[x].loco,
         NEW x \in Live(T), NEW y \in Live(t), T.slot[x].loco = t.slot[y].loco
  PROVE  x = y
<1>1. x \in Live(t) /\ t.slot[x].loco = t.slot[y].loco
  OBVIOUS
<1>2. QED
  BY <1>1 DEF Sound, Lists

\* What getSlot prepares is in no consist and not reversed.
LEMMA GetSlotNotReversed ==
  ASSUME NEW T, Sound(T), NEW l \in Locos, NEW E, NotReversed(T, E)
  PROVE  NotReversed(getSlot(T, l).t, E)
<1> DEFINE g == getSlot(T, l)
<1>1. /\ Keeps(T, g.t) /\ Live(g.t) = Live(T) \cup ({g.obj} \ {Null})
      /\ g.obj \notin Live(T) /\ g.obj # Null => g.t.slot[g.obj] = FreshSlot(l)
  BY GetSlotSound
<1>2. FreshSlot(l).consistReverse = FALSE
  BY FreshSlotType
<1> HIDE DEF g
<1>3. NotReversed(g.t, E)
  <2> SUFFICES ASSUME NEW o \in Live(g.t) \ E, ~inConsist(g.t, o) PROVE ~g.t.slot[o].consistReverse
    BY DEF NotReversed
  <2>1. CASE o \in Live(T)
    <3>1. g.t.slot[o] = T.slot[o]
      BY <1>1, <2>1 DEF Keeps
    <3>2. ~inConsist(T, o)
      BY <3>1 DEF inConsist, isConsistLead, isConsistFollower
    <3>3. QED
      BY <2>1, <3>1, <3>2 DEF NotReversed
  <2>2. CASE o \notin Live(T)
    BY <1>1, <1>2, <2>2
  <2>3. QED
    BY <2>1, <2>2
<1>4. QED
  BY <1>3 DEF g

\* EXRAIL's BUILD_CONSIST.
LEMMA BuildConsistSound ==
  ASSUME NEW T, Sound(T), NotReversed(T, {}), NEW c \in Locos, NEW l \in Locos, NEW rev \in BOOLEAN
  PROVE  LET t == addLocoToConsist(T, c, l, rev)
         IN  Sound(t) /\ NotReversed(t, {}) /\ NoSteal(T, t) /\ Grows(T, t)
<1> DEFINE g1 == getSlot(T, c)
           named == g1.obj
           lead == Lead(g1.t, named)
           tail == Last(Members(g1.t, lead))
           g2 == getSlot(g1.t, l)
           add == g2.obj
           t == addLocoToConsist(T, c, l, rev)
           joined == [g2.t EXCEPT !.slot[add].consistLead = lead,
                                  !.slot[add].consistReverse = rev,
                                  !.slot[tail].consistNext = add]
<1>1. /\ Sound(g1.t) /\ Keeps(T, g1.t)
      /\ Live(g1.t) = Live(T) \cup ({named} \ {Null})
      /\ named # Null => named \in Live(g1.t) /\ g1.t.slot[named].loco = c
      /\ named \notin Live(T) /\ named # Null => g1.t.slot[named] = FreshSlot(c)
  BY GetSlotSound
<1>2. NotReversed(g1.t, {})
  BY GetSlotNotReversed
<1>3. /\ Sound(g2.t) /\ Keeps(g1.t, g2.t)
      /\ Live(g2.t) = Live(g1.t) \cup ({add} \ {Null})
      /\ add # Null => add \in Objs /\ add \in Live(g2.t) /\ g2.t.slot[add].loco = l
      /\ add \notin Live(g1.t) /\ add # Null => g2.t.slot[add] = FreshSlot(l)
  <2> HIDE DEF g1
  <2>1. QED
    BY <1>1, GetSlotSound
<1>4. NotReversed(g2.t, {})
  <2> HIDE DEF g1
  <2>1. QED
    BY <1>1, <1>2, GetSlotNotReversed
<1>5. named # Null =>
         /\ lead \in Live(g1.t) /\ g1.t.slot[lead].consistLead = Null
         /\ lead = LeadOf(g1.t, named)
         /\ tail \in Live(g1.t) /\ LeadOf(g1.t, tail) = lead
         /\ g1.t.slot[tail].consistNext = Null
  <2> HIDE DEF g1, named
  <2> SUFFICES ASSUME named # Null
               PROVE  /\ lead \in Live(g1.t) /\ g1.t.slot[lead].consistLead = Null
                      /\ lead = LeadOf(g1.t, named)
                      /\ tail \in Live(g1.t) /\ LeadOf(g1.t, tail) = lead
                      /\ g1.t.slot[tail].consistNext = Null
    OBVIOUS
  <2>1. lead = LeadOf(g1.t, named) /\ lead \in Live(g1.t) /\ g1.t.slot[lead].consistLead = Null
    BY <1>1, LeadRight, LeadLive
  <2> HIDE DEF lead
  <2> DEFINE ms == Members(g1.t, lead)
  <2>2. /\ Path(g1.t, lead, ms) /\ g1.t.slot[ms[Len(ms)]].consistNext = Null
        /\ \A i \in 1 .. Len(ms) : LeadOf(g1.t, ms[i]) = lead
    BY <1>1, <2>1, MembersPath, MembersGroup
  <2>3. tail = ms[Len(ms)]
    BY DEF Last
  <2> HIDE DEF ms, tail
  <2>4. Len(ms) \in 1 .. Len(ms) /\ ms[Len(ms)] \in Live(g1.t)
    <3>0. ms \in Seq(Live(g1.t))
      BY <2>2 DEF Path
    <3>1. Len(ms) >= 1
      BY <2>2 DEF Path
    <3>2. Len(ms) \in Nat
      BY <3>0, LenProperties
    <3>3. Len(ms) \in 1 .. Len(ms)
      BY <3>1, <3>2, LastIndex, ZenonT(60)
    <3>4. QED
      BY <3>0, <3>3, ElementOfSeq
  <2>5. QED
    BY <2>1, <2>2, <2>3, <2>4
<1>6. /\ l = c => t = T
      /\ l # c /\ named = Null => t = g1.t
      /\ l # c /\ named # Null /\ (add = Null \/ inConsist(g2.t, add)) => t = g2.t
      /\ l # c /\ named # Null /\ ~(add = Null \/ inConsist(g2.t, add)) =>
           t = [g2.t EXCEPT !.slot[add].consistReverse = rev,
                            !.slot[add].consistLead = IF add # lead THEN lead ELSE @,
                            !.slot[tail].consistNext = IF tail # add THEN add ELSE @]
  BY DEF addLocoToConsist
<1> HIDE DEF g1, named, lead, tail, g2, add, t
<1>7. /\ \A x \in Live(T) : x \in Live(g1.t) /\ g1.t.slot[x] = T.slot[x]
      /\ T.chainModified => g1.t.chainModified
  BY <1>1 DEF Keeps
<1>8. /\ \A x \in Live(g1.t) : x \in Live(g2.t) /\ g2.t.slot[x] = g1.t.slot[x]
      /\ g1.t.chainModified => g2.t.chainModified
  BY <1>3 DEF Keeps
<1>14. Grows(T, T) /\ Grows(T, g1.t) /\ Grows(T, g2.t)
  BY <1>7, <1>8 DEF Grows
<1>9. CASE l = c
  <2>1. NoSteal(T, T)
    BY SameLeadNoSteal, SameObject
  <2>2. QED
    BY <1>6, <1>9, <1>14, <2>1 DEF t
<1>10. CASE l # c /\ named = Null
  <2>1. NoSteal(T, g1.t)
    <3>1. \A x \in Live(T), y \in Live(g1.t) : T.slot[x].loco = g1.t.slot[y].loco => x = y
      BY <1>1, <1>7, SameObject
    <3>2. QED
      BY <1>1, <1>7, <3>1, SameLeadNoSteal
  <2>2. QED
    BY <1>1, <1>2, <1>6, <1>10, <1>14, <2>1 DEF t
<1>11. CASE l # c /\ named # Null /\ (add = Null \/ inConsist(g2.t, add))
  <2>1. NoSteal(T, g2.t)
    <3>0. \A x \in Live(T) : x \in Live(g2.t) /\ g2.t.slot[x] = T.slot[x]
      BY <1>7, <1>8
    <3>1. \A x \in Live(T), y \in Live(g2.t) : T.slot[x].loco = g2.t.slot[y].loco => x = y
      BY <1>3, <3>0, SameObject
    <3>2. QED
      BY <1>3, <3>0, <3>1, SameLeadNoSteal
  <2>2. QED
    BY <1>3, <1>4, <1>6, <1>11, <1>14, <2>1 DEF t
<1>12. CASE l # c /\ named # Null /\ ~(add = Null \/ inConsist(g2.t, add))
  <2>1. /\ lead \in Live(g2.t) /\ tail \in Live(g2.t) /\ add \in Live(g2.t)
        /\ g2.t.slot[lead].consistLead = Null
        /\ LeadOf(g2.t, tail) = lead /\ g2.t.slot[tail].consistNext = Null
        /\ ~inConsist(g2.t, add)
    BY <1>3, <1>5, <1>8, <1>12 DEF LeadOf
  <2>2. Live(g2.t) \subseteq Objs /\ Null \notin Objs
    BY <1>3, LiveObjs DEF Sound, Objs, Null
  <2>3. add # lead
    <3>1. CASE g1.t.slot[named].consistLead = Null
      <4>1. lead = named /\ g2.t.slot[named].loco = c
        BY <1>1, <1>5, <1>8, <1>12, <3>1 DEF LeadOf
      <4>2. QED
        BY <1>3, <1>12, <4>1
    <3>2. CASE g1.t.slot[named].consistLead # Null
      <4>1. lead = g1.t.slot[named].consistLead /\ isConsistLead(g1.t, lead)
        <5>1. lead = g1.t.slot[named].consistLead
          BY <1>1, <1>5, <1>12, <3>2 DEF LeadOf
        <5>2. FollowersLinked(g1.t) /\ named \in Live(g1.t)
          BY <1>1, <1>5, <1>12, SMTT(30) DEF Sound, Links
        <5>3. QED
          BY <3>2, <5>1, <5>2 DEF FollowersLinked
      <4>2. inConsist(g2.t, lead)
        BY <1>5, <1>8, <1>12, <4>1 DEF inConsist, isConsistLead
      <4>3. QED
        BY <2>1, <4>2
    <3>3. QED
      BY <3>1, <3>2
  <2>4. add # tail
    <3>1. tail # lead => g2.t.slot[tail].consistLead # Null
      BY <2>1 DEF LeadOf
    <3>2. tail # lead => inConsist(g2.t, tail)
      BY <3>1 DEF inConsist, isConsistFollower
    <3>3. QED
      BY <2>1, <2>3, <3>2
  <2>5. CanJoin(g2.t, lead, tail, add)
    BY <2>1, <2>3, <2>4 DEF CanJoin
  <2>6. Joined(g2.t, joined, lead, tail, add)
    BY <1>3, <2>1, <2>2, <2>4, JoinedBy, ZenonT(60)
  <2>7. t = joined
    <3>1. g2.t \in Tables /\ g2.t.slot \in [Objs -> SlotRecs]
      BY <1>3 DEF Sound, Tables
    <3>2. t = [g2.t EXCEPT !.slot[add].consistReverse = rev,
                           !.slot[add].consistLead = lead,
                           !.slot[tail].consistNext = add]
      BY <1>6, <1>12, <2>3, <2>4
    <3>3. g2.t.slot[add] \in SlotRecs
      BY <1>12, <1>3, <3>1
    <3>4. [g2.t.slot[add] EXCEPT !.consistReverse = rev, !.consistLead = lead]
            = [g2.t.slot[add] EXCEPT !.consistLead = lead, !.consistReverse = rev]
      BY <3>3 DEF SlotRecs
    <3> DEFINE b == [g2.t.slot[tail] EXCEPT !.consistNext = add]
               a1 == [g2.t.slot[add] EXCEPT !.consistReverse = rev, !.consistLead = lead]
               a2 == [g2.t.slot[add] EXCEPT !.consistLead = lead, !.consistReverse = rev]
    <3>5. add \in Objs /\ tail \in Objs
      BY <2>1, <2>2
    <3>6. t = [g2.t EXCEPT !.slot = [g2.t.slot EXCEPT ![add] = a1, ![tail] = b]]
      BY <2>4, <3>1, <3>2, <3>5 DEF Tables
    <3>7. joined = [g2.t EXCEPT !.slot = [g2.t.slot EXCEPT ![add] = a2, ![tail] = b]]
      BY <2>4, <3>1, <3>5 DEF Tables
    <3>8. QED
      BY <3>4, <3>6, <3>7
  <2> HIDE DEF joined
  <2>8. /\ Sound(t) /\ Live(t) = Live(g2.t)
        /\ \A x \in Live(g2.t) : t.slot[x].loco = g2.t.slot[x].loco
        /\ \A x \in Live(g2.t) : inConsist(t, x) <=> inConsist(g2.t, x) \/ x \in {add, tail}
    BY <1>3, <2>5, <2>6, <2>7, JoinSound
  <2>9. NotReversed(t, {})
    <3> SUFFICES ASSUME NEW x \in Live(g2.t), ~inConsist(t, x) PROVE ~t.slot[x].consistReverse
      BY <2>8 DEF NotReversed
    <3>1. x # add /\ ~inConsist(g2.t, x) /\ x \in Objs
      BY <2>2, <2>8
    <3>2. t.slot[x].consistReverse = g2.t.slot[x].consistReverse
      BY <2>6, <2>7, <3>1 DEF Joined
    <3>3. QED
      BY <1>4, <3>1, <3>2 DEF NotReversed
  <2>10. NoSteal(T, t)
    <3>1. \A x \in Live(T) : x \in Live(t) /\ t.slot[x].loco = T.slot[x].loco
      BY <1>7, <1>8, <2>8
    <3>2. \A x \in Live(T), y \in Live(t) : T.slot[x].loco = t.slot[y].loco => x = y
      BY <2>8, <3>1, SameObject
    <3>3. ASSUME NEW x \in Live(T), T.slot[x].consistLead # Null
          PROVE  t.slot[x].consistLead = T.slot[x].consistLead
      <4>1. x \in Objs /\ g2.t.slot[x].consistLead = T.slot[x].consistLead
        BY <1>7, <1>8, <2>2
      <4>2. inConsist(g2.t, x)
        BY <3>3, <4>1 DEF inConsist, isConsistFollower
      <4>3. QED
        BY <2>1, <2>6, <2>7, <4>1, <4>2 DEF Joined
    <3>4. QED
      BY <2>8, <3>1, <3>2, <3>3, SameLeadNoSteal
  <2>11. Grows(T, t)
    <3>1. t.chainModified = g2.t.chainModified
      BY <2>6, <2>7 DEF Joined
    <3>2. QED
      BY <1>14, <2>8, <3>1 DEF Grows
  <2>12. QED
    BY <2>8, <2>9, <2>10, <2>11 DEF t
<1>13. QED
  BY <1>9, <1>10, <1>11, <1>12

-----------------------------------------------------------------------------
(* The consist command.                                                    *)

\* Each of the MAX_LOCOS slots holds a loco.
Full(T) == Live(T) = Objs

\* That is when getSlot fails.
LEMMA RefusedFull ==
  ASSUME NEW T, Sound(T), NEW l \in Locos, getSlot(T, l).obj = Null
  PROVE  Full(T)
<1>1. Recycled(T) = {} /\ T.count = MAX_LOCOS
  BY GetSlotSound
<1>2. QED
  BY <1>1 DEF Sound, Lists, Objs, Full

\* The lists of a consist command: different locos, each in either direction.
LEMMA ParamsRight ==
  ASSUME NEW p \in Params
  PROVE  /\ Len(p) \in Nat /\ Len(p) >= 1
         /\ \A i \in 1 .. Len(p) : Abs(p[i]) \in Locos /\ (p[i] < 0) \in BOOLEAN
         /\ \A i, j \in 1 .. Len(p) : Abs(p[i]) = Abs(p[j]) => i = j
<1> DEFINE Signed == Locos \cup {-l : l \in Locos}
<1>1. PICK n \in 1 .. MaxList : p \in [1 .. n -> Signed]
  BY DEF Params
<1>2. n \in Nat /\ n >= 1 /\ DOMAIN p = 1 .. n /\ p \in Seq(Signed) /\ Len(p) = n
  <2>1. MaxList \in Nat
    BY LocosAssumption
  <2>2. n \in Nat /\ n >= 1
    BY <2>1
  <2> HIDE DEF Signed
  <2>3. p \in Seq(Signed) /\ DOMAIN p = 1 .. n
    BY <1>1, <2>2, IsASeq
  <2>4. Len(p) = n
    BY <2>2, <2>3, LenProperties
  <2>5. QED
    BY <2>2, <2>3, <2>4
<1>3. ASSUME NEW s \in Signed PROVE Abs(s) \in Locos /\ (s < 0) \in BOOLEAN
  <2>1. CASE s \in Locos
    <3>1. s \in Nat
      BY <2>1, LocosAssumption
    <3>2. QED
      BY <2>1, <3>1 DEF Abs
  <2>2. CASE s \notin Locos
    <3>1. PICK l \in Locos : s = -l
      BY <2>2
    <3>2. l \in Nat /\ l # 0
      BY LocosAssumption
    <3>3. s < 0 /\ -s = l
      BY <3>1, <3>2
    <3>4. QED
      BY <3>3 DEF Abs
  <2>3. QED
    BY <2>1, <2>2
<1>4. \A i, j \in DOMAIN p : Abs(p[i]) = Abs(p[j]) => i = j
  BY DEF Params
<1>5. \A i \in 1 .. n : p[i] \in Signed
  BY <1>1
<1> HIDE DEF Signed
<1>6. QED
  BY <1>2, <1>3, <1>4, <1>5

\* After k steps of the loop: a.prev is the last of the consist of lead, and the
\* locos that are to come are in no consist. The base table only lost or gained
\* what joined.
Building(base, a, k, lead, p) ==
    /\ Sound(a.t) /\ NotReversed(a.t, {lead})
    /\ \A x \in Live(base) :
          /\ x \in Live(a.t) /\ a.t.slot[x].loco = base.slot[x].loco
          /\ \/ a.t.slot[x].consistLead = base.slot[x].consistLead
             \/ base.slot[x].consistLead = Null /\ a.t.slot[x].consistLead = lead
    /\ base.chainModified => a.t.chainModified
    /\ lead \in Live(a.t) /\ a.t.slot[lead].consistLead = Null
    /\ a.t.slot[lead].loco = Abs(p[1])
    /\ a.crash \in BOOLEAN /\ a.prev \in Objs
    /\ a.crash => Full(a.t)
    /\ ~a.crash =>
          /\ a.prev \in Live(a.t) /\ LeadOf(a.t, a.prev) = lead
          /\ a.t.slot[a.prev].consistNext = Null /\ a.t.slot[a.prev].loco = Abs(p[k + 1])
          /\ k = 0 \/ a.t.slot[lead].consistNext # Null
          /\ \A i \in k + 2 .. Len(p), x \in Live(a.t) :
                a.t.slot[x].loco = Abs(p[i]) => ~inConsist(a.t, x)

Accs == [t : Tables, prev : Objs, crash : BOOLEAN]

LEMMA LinkOneBuilds ==
  ASSUME NEW base, NEW lead, NEW p \in Params, NEW k \in 0 .. Len(p) - 2,
         NEW a \in Accs, Building(base, a, k, lead, p)
  PROVE  LET b == linkOne(a, lead, p[k + 2])
         IN  b \in Accs /\ Building(base, b, k + 1, lead, p)
<1> DEFINE id == p[k + 2]
           g == getSlot(a.t, Abs(id))
           o == g.obj
           b == linkOne(a, lead, id)
           joined == [g.t EXCEPT !.slot[o].consistLead = lead,
                                 !.slot[o].consistReverse = id < 0,
                                 !.slot[a.prev].consistNext = o]
<1>1. /\ Len(p) \in Nat /\ k \in Nat /\ k + 2 \in 1 .. Len(p) /\ k + 1 \in 1 .. Len(p) /\ 1 \in 1 .. Len(p)
      /\ (k + 1) + 1 = k + 2
  BY ParamsRight
<1>2. /\ Abs(id) \in Locos /\ (id < 0) \in BOOLEAN
      /\ Abs(id) # Abs(p[k + 1]) /\ Abs(id) # Abs(p[1])
  <2>1. k + 2 # k + 1 /\ k + 2 # 1
    BY <1>1
  <2>2. QED
    BY <1>1, <2>1, ParamsRight
<1>3. Sound(a.t)
  BY DEF Building
<1>4. /\ Sound(g.t) /\ Keeps(a.t, g.t)
      /\ Live(g.t) = Live(a.t) \cup ({o} \ {Null})
      /\ o # Null => o \in Objs /\ o \in Live(g.t) /\ g.t.slot[o].loco = Abs(id)
      /\ o \notin Live(a.t) /\ o # Null => g.t.slot[o] = FreshSlot(Abs(id))
      /\ NotReversed(g.t, {lead})
  <2>1. NotReversed(a.t, {lead})
    BY DEF Building
  <2> DEFINE E == {lead}
  <2>2. NotReversed(a.t, E)
    BY <2>1
  <2> HIDE DEF id, E
  <2>3. NotReversed(g.t, E)
    BY <1>2, <1>3, <2>2, GetSlotNotReversed
  <2>4. QED
    BY <1>2, <1>3, <2>3, GetSlotSound DEF E
<1>5. CASE a.crash
  <2>1. b = a
    BY <1>5 DEF linkOne
  <2> HIDE DEF b
  <2>2. QED
    BY <1>5, <2>1 DEF Building, b
<1>6. CASE ~a.crash /\ o = Null
  <2>1. b = [a EXCEPT !.crash = TRUE]
    BY <1>6 DEF linkOne
  <2>2. b.t = a.t /\ b.crash = TRUE /\ b.prev = a.prev /\ b \in Accs
    BY <2>1 DEF Accs
  <2>3. Full(a.t)
    <3> HIDE DEF id
    <3>1. QED
      BY <1>2, <1>3, <1>6, RefusedFull
  <2> HIDE DEF b
  <2>4. Building(base, b, k + 1, lead, p)
    BY <2>2, <2>3 DEF Building
  <2>5. QED
    BY <2>2, <2>4 DEF b
<1>7. CASE ~a.crash /\ o # Null
  <2>1. b = [t |-> joined, prev |-> o, crash |-> FALSE]
    BY <1>7 DEF linkOne
  <2>2. b.t = joined /\ b.prev = o /\ b.crash = FALSE
    BY <2>1
  <2> HIDE DEF g, o, b
  <2>3. \A x \in Live(a.t) : x \in Live(g.t) /\ g.t.slot[x] = a.t.slot[x]
    BY <1>4 DEF Keeps
  <2>4. /\ a.prev \in Live(a.t) /\ LeadOf(a.t, a.prev) = lead
        /\ a.t.slot[a.prev].consistNext = Null /\ a.t.slot[a.prev].loco = Abs(p[k + 1])
        /\ k = 0 \/ a.t.slot[lead].consistNext # Null
        /\ lead \in Live(a.t) /\ a.t.slot[lead].consistLead = Null
        /\ a.t.slot[lead].loco = Abs(p[1])
    BY <1>7 DEF Building
  <2>5. ASSUME NEW i \in k + 2 .. Len(p), NEW x \in Live(a.t), a.t.slot[x].loco = Abs(p[i])
        PROVE  ~inConsist(a.t, x)
    BY <1>7, <2>5 DEF Building
  <2>6. ~inConsist(g.t, o)
    <3>1. CASE o \in Live(a.t)
      <4>1. k + 2 \in k + 2 .. Len(p) /\ g.t.slot[o] = a.t.slot[o]
        BY <1>1, <2>3, <3>1
      <4>2. ~inConsist(a.t, o)
        BY <1>4, <1>7, <2>5, <3>1, <4>1
      <4>3. QED
        BY <4>1, <4>2, SameConsist
    <3>2. CASE o \notin Live(a.t)
      <4> DEFINE l == Abs(id)
      <4>1. l \in Locos \cup {0} /\ g.t.slot[o] = FreshSlot(l)
        BY <1>2, <1>4, <1>7, <3>2
      <4> HIDE DEF l
      <4>2. QED
        BY <4>1, FreshAlone
    <3>3. QED
      BY <3>1, <3>2
  <2>7. o # a.prev /\ o # lead
    BY <1>2, <1>4, <1>7, <2>3, <2>4
  <2>8. CanJoin(g.t, lead, a.prev, o)
    BY <1>4, <1>7, <2>3, <2>4, <2>6, <2>7 DEF CanJoin, LeadOf
  <2>9. Live(g.t) \subseteq Objs /\ Null \notin Objs
    BY <1>4, LiveObjs DEF Sound, Objs, Null
  <2>10. Joined(g.t, joined, lead, a.prev, o)
    <3> HIDE DEF id
    <3>1. lead \in Objs /\ a.prev \in Objs /\ o \in Objs
      BY <2>8, <2>9 DEF CanJoin
    <3>2. QED
      BY <1>2, <1>4, <2>7, <3>1, JoinedBy
  <2> HIDE DEF joined
  <2>11. /\ Sound(b.t) /\ Live(b.t) = Live(g.t)
         /\ \A x \in Live(g.t) : b.t.slot[x].loco = g.t.slot[x].loco
         /\ b.t.slot[lead].consistLead = Null /\ b.t.slot[lead].consistNext # Null
         /\ LeadOf(b.t, o) = lead /\ b.t.slot[o].consistNext = Null
         /\ \A x \in Live(g.t) : inConsist(b.t, x) <=> inConsist(g.t, x) \/ x \in {o, a.prev}
    BY <1>4, <2>2, <2>8, <2>10, JoinSound
  <2>12. b \in Accs
    <3>1. joined \in Tables /\ o \in Objs
      BY <1>4, <1>7, <2>10 DEF Joined
    <3>2. QED
      BY <2>1, <3>1 DEF Accs
  <2>13. NotReversed(b.t, {lead})
    <3> SUFFICES ASSUME NEW x \in Live(g.t) \ {lead}, ~inConsist(b.t, x)
                 PROVE  ~b.t.slot[x].consistReverse
      BY <2>11 DEF NotReversed
    <3>1. x # o /\ ~inConsist(g.t, x) /\ x \in Objs
      BY <2>9, <2>11
    <3>2. b.t.slot[x].consistReverse = g.t.slot[x].consistReverse
      BY <2>2, <2>10, <3>1 DEF Joined
    <3>3. QED
      BY <1>4, <3>1, <3>2 DEF NotReversed
  <2>14. ASSUME NEW x \in Live(base)
         PROVE  /\ x \in Live(b.t) /\ b.t.slot[x].loco = base.slot[x].loco
                /\ \/ b.t.slot[x].consistLead = base.slot[x].consistLead
                   \/ base.slot[x].consistLead = Null /\ b.t.slot[x].consistLead = lead
    <3>1. /\ x \in Live(a.t) /\ a.t.slot[x].loco = base.slot[x].loco
          /\ \/ a.t.slot[x].consistLead = base.slot[x].consistLead
             \/ base.slot[x].consistLead = Null /\ a.t.slot[x].consistLead = lead
      BY DEF Building
    <3>2. x \in Live(g.t) /\ g.t.slot[x] = a.t.slot[x] /\ x \in Objs
      BY <2>3, <2>9, <3>1
    <3>3. x \in Live(b.t) /\ b.t.slot[x].loco = base.slot[x].loco
      BY <2>11, <3>1, <3>2
    <3>4. CASE x = o
      <4>1. b.t.slot[x].consistLead = lead
        BY <2>2, <2>10, <3>2, <3>4 DEF Joined
      <4>2. g.t.slot[x].consistLead = Null
        BY <2>6, <3>4 DEF inConsist, isConsistFollower
      <4>3. base.slot[x].consistLead = Null
        BY <3>1, <3>2, <4>2
      <4>4. QED
        BY <3>3, <4>1, <4>3
    <3>5. CASE x # o
      <4>1. b.t.slot[x].consistLead = g.t.slot[x].consistLead
        BY <2>2, <2>10, <3>2, <3>5 DEF Joined
      <4>2. QED
        BY <3>1, <3>2, <3>3, <4>1
    <3>6. QED
      BY <3>4, <3>5
  <2>15. ASSUME NEW i \in (k + 1) + 2 .. Len(p), NEW x \in Live(b.t), b.t.slot[x].loco = Abs(p[i])
         PROVE  ~inConsist(b.t, x)
    <3>1. i \in k + 2 .. Len(p) /\ i \in 1 .. Len(p) /\ i # k + 1 /\ i # k + 2
      BY <1>1
    <3>2. Abs(p[i]) # Abs(p[k + 1]) /\ Abs(p[i]) # Abs(id)
      BY <1>1, <3>1, ParamsRight
    <3>3. x \in Live(g.t) /\ g.t.slot[x].loco = Abs(p[i])
      BY <2>11, <2>15
    <3>4. x # o
      BY <1>4, <1>7, <3>2, <3>3
    <3>5. x \in Live(a.t)
      BY <1>4, <3>3, <3>4
    <3>6. a.t.slot[x] = g.t.slot[x] /\ x # a.prev
      BY <2>3, <2>4, <3>2, <3>3, <3>5
    <3>7. ~inConsist(a.t, x)
      BY <2>5, <3>1, <3>3, <3>5, <3>6
    <3>8. ~inConsist(g.t, x)
      BY <3>6, <3>7 DEF inConsist, isConsistLead, isConsistFollower
    <3>9. QED
      BY <2>11, <3>3, <3>4, <3>6, <3>8
  <2>16. b.t.slot[lead].loco = Abs(p[1]) /\ b.t.slot[o].loco = Abs(p[(k + 1) + 1])
         /\ lead \in Live(b.t) /\ o \in Live(b.t) /\ o \in Objs
    BY <1>1, <1>4, <1>7, <2>3, <2>4, <2>11
  <2>17. Building(base, b, k + 1, lead, p)
    <3> HIDE DEF id
    <3>1. base.chainModified => b.t.chainModified
      <4>1. base.chainModified => a.t.chainModified
        BY DEF Building
      <4>2. a.t.chainModified => g.t.chainModified
        BY <1>4 DEF Keeps
      <4>3. b.t.chainModified = g.t.chainModified
        BY <2>2, <2>10 DEF Joined
      <4>4. QED
        BY <4>1, <4>2, <4>3
    <3>2. QED
      BY <2>2, <2>11, <2>13, <2>14, <2>15, <2>16, <3>1 DEF Building
  <2>18. QED
    BY <2>12, <2>17 DEF b
<1>8. QED
  BY <1>5, <1>6, <1>7 DEF Accs

LEMMA LinkAllBuilds ==
  ASSUME NEW base, NEW lead, NEW p \in Params, NEW start \in Accs,
         Building(base, start, 0, lead, p)
  PROVE  LET b == linkAll(start, lead, p)
         IN  b \in Accs /\ Building(base, b, Len(p) - 1, lead, p)
<1> DEFINE m == Len(p) - 1
           one(a, k) == linkOne(a, lead, p[k + 1])
           step(a, k) == IF one(a, k) \in Accs THEN one(a, k) ELSE a
           G == [x \in Accs \X Nat |-> step(x[1], x[2])]
           F == CHOOSE F : F = [k \in 0 .. m |->
                    IF k = 0 THEN start ELSE linkOne(F[k - 1], lead, p[k + 1])]
           Right(f, k) == f[k] \in Accs /\ Building(base, f[k], k, lead, p)
<1>1. Len(p) \in Nat /\ m \in Nat
  BY ParamsRight
<1>2. ASSUME NEW k \in 0 .. m - 1, NEW f, Right(f, k)
      PROVE  LET b == one(f[k], k + 1)
             IN  b \in Accs /\ Building(base, b, k + 1, lead, p)
  <2>1. k \in 0 .. Len(p) - 2 /\ (k + 1) + 1 = k + 2
    BY <1>1
  <2>2. f[k] \in Accs /\ Building(base, f[k], k, lead, p)
    BY <1>2
  <2>3. LET b == linkOne(f[k], lead, p[k + 2])
        IN  b \in Accs /\ Building(base, b, k + 1, lead, p)
    BY <2>1, <2>2, LinkOneBuilds
  <2>4. QED
    BY <2>1, <2>3
<1>3. G \in [Accs \X Nat -> Accs] /\ \A a \in Accs, k \in Nat : G[<<a, k>>] = step(a, k)
  <2>1. \A a \in Accs, k \in Nat : step(a, k) \in Accs
    OBVIOUS
  <2> HIDE DEF step
  <2>2. QED
    BY <2>1
<1>4. PICK f : Walked(f, m, Accs, start, G)
  <2> HIDE DEF m, G
  <2>1. QED
    BY <1>1, <1>3, WalkExists
<1>5. /\ f[0] = start
      /\ \A k \in 0 .. m - 1 : f[k] \in Accs /\ f[k + 1] = step(f[k], k + 1)
  <2> HIDE DEF G, step
  <2>1. f[0] = start
    BY <1>1, <1>4 DEF Walked
  <2>2. ASSUME NEW k \in 0 .. m - 1 PROVE f[k] \in Accs /\ f[k + 1] = step(f[k], k + 1)
    <3>1. k \in 0 .. m /\ k + 1 \in 0 .. m /\ k + 1 # 0 /\ (k + 1) - 1 = k /\ k + 1 \in Nat
      BY <1>1
    <3>2. f[k] \in Accs /\ f[k + 1] = G[<<f[k], k + 1>>]
      BY <1>4, <3>1 DEF Walked
    <3>3. QED
      BY <1>3, <3>1, <3>2
  <2>3. QED
    BY <2>1, <2>2
<1> DEFINE S == {k \in 0 .. m : Right(f, k) /\ (k = 0 \/ f[k] = one(f[k - 1], k))}
<1>6. 0 .. m \subseteq S
  <2>1. Right(f, 0)
    BY <1>5
  <2>2. ASSUME NEW k \in 0 .. m - 1, k \in S PROVE k + 1 \in S
    <3>1. Right(f, k) /\ k + 1 \in 0 .. m /\ (k + 1) - 1 = k
      BY <1>1, <2>2
    <3> HIDE DEF Right, one
    <3>2. one(f[k], k + 1) \in Accs /\ Building(base, one(f[k], k + 1), k + 1, lead, p)
      BY <1>2, <3>1
    <3>3. f[k + 1] = one(f[k], k + 1)
      BY <1>5, <3>2
    <3>4. Right(f, k + 1)
      BY <3>2, <3>3 DEF Right
    <3>5. QED
      BY <3>1, <3>3, <3>4
  <2> HIDE DEF Right, one
  <2>3. 0 \in S
    BY <1>1, <2>1
  <2> HIDE DEF S, m
  <2>4. QED
    BY <1>1, <2>2, <2>3, BoundedInduction
<1>7. f = [k \in 0 .. m |-> IF k = 0 THEN start ELSE linkOne(f[k - 1], lead, p[k + 1])]
  <2>1. ASSUME NEW k \in 0 .. m
        PROVE  f[k] = IF k = 0 THEN start ELSE one(f[k - 1], k)
    <3> HIDE DEF Right, one
    <3>1. QED
      BY <1>5, <1>6
  <2>2. f = [k \in 0 .. m |-> f[k]]
    BY <1>4 DEF Walked
  <2> HIDE DEF Right, S, m
  <2>3. QED
    BY <2>1, <2>2
<1>8. F = [k \in 0 .. m |-> IF k = 0 THEN start ELSE linkOne(F[k - 1], lead, p[k + 1])]
  BY <1>7
<1>9. linkAll(start, lead, p) = F[m]
  BY DEF linkAll
<1> HIDE DEF F
<1> DEFINE U == {k \in 0 .. m : Right(F, k)}
<1>10. 0 .. m \subseteq U
  <2>1. 0 \in U
    BY <1>1, <1>8
  <2>2. ASSUME NEW k \in 0 .. m - 1, k \in U PROVE k + 1 \in U
    <3>1. Right(F, k) /\ k + 1 \in 0 .. m /\ (k + 1) - 1 = k /\ k + 1 # 0
      BY <1>1, <2>2
    <3>2. F[k + 1] = one(F[k], k + 1)
      BY <1>8, <3>1
    <3> HIDE DEF Right, one
    <3>3. one(F[k], k + 1) \in Accs /\ Building(base, one(F[k], k + 1), k + 1, lead, p)
      BY <1>2, <3>1
    <3>4. Right(F, k + 1)
      BY <3>2, <3>3 DEF Right
    <3>5. QED
      BY <3>1, <3>4
  <2> HIDE DEF U, m
  <2>3. QED
    BY <1>1, <2>1, <2>2, BoundedInduction
<1>11. m \in 0 .. m
  BY <1>1
<1>12. Right(F, m)
  BY <1>10, <1>11
<1>13. QED
  BY <1>9, <1>12

\* The lead is named, not reversed and not linked yet.
LEMMA StartBuilds ==
  ASSUME NEW base, Sound(base), NotReversed(base, {}), NEW p \in Params,
         \A i \in 1 .. Len(p), x \in Live(base) : base.slot[x].loco = Abs(p[i]) => ~inConsist(base, x),
         getSlot(base, Abs(p[1])).obj # Null
  PROVE  LET g == getSlot(base, Abs(p[1]))
             start == [t |-> [g.t EXCEPT !.slot[g.obj].consistReverse = p[1] < 0],
                       prev |-> g.obj, crash |-> FALSE]
         IN  start \in Accs /\ Building(base, start, 0, g.obj, p)
<1> DEFINE l == Abs(p[1])
           g == getSlot(base, l)
           o == g.obj
           t == [g.t EXCEPT !.slot[o].consistReverse = p[1] < 0]
           start == [t |-> t, prev |-> o, crash |-> FALSE]
<1>1. Len(p) \in Nat /\ 1 \in 1 .. Len(p) /\ l \in Locos /\ (p[1] < 0) \in BOOLEAN
  BY ParamsRight
<1>2. o # Null
  OBVIOUS
<1>3. /\ Sound(g.t) /\ Keeps(base, g.t)
      /\ Live(g.t) = Live(base) \cup ({o} \ {Null})
      /\ o \in Objs /\ o \in Live(g.t) /\ g.t.slot[o].loco = l
      /\ o \notin Live(base) => g.t.slot[o] = FreshSlot(l)
      /\ NotReversed(g.t, {})
  <2> HIDE DEF l
  <2>1. QED
    BY <1>1, <1>2, GetSlotSound, GetSlotNotReversed
<1>4. ~inConsist(g.t, o)
  <2>1. CASE o \in Live(base)
    <3>1. g.t.slot[o] = base.slot[o]
      BY <1>3, <2>1 DEF Keeps
    <3>2. ~inConsist(base, o)
      BY <1>1, <1>3, <2>1, <3>1
    <3>3. QED
      BY <3>1, <3>2, SameConsist
  <2>2. CASE o \notin Live(base)
    <3> HIDE DEF l, g
    <3>1. l \in Locos \cup {0} /\ g.t.slot[o] = FreshSlot(l)
      BY <1>1, <1>3, <2>2
    <3>2. QED
      BY <3>1, FreshAlone
  <2>3. QED
    BY <2>1, <2>2
<1>5. start.t = t /\ start.prev = o /\ start.crash = FALSE
  OBVIOUS
<1>6. g.t \in Tables /\ g.t.slot \in [Objs -> SlotRecs] /\ g.t.slot[o] \in SlotRecs
  BY <1>3 DEF Sound, Tables
<1> DEFINE rev == p[1] < 0
           r == [g.t.slot[o] EXCEPT !.consistReverse = rev]
           slot == [g.t.slot EXCEPT ![o] = r]
<1>7. t = [g.t EXCEPT !.slot = slot]
  BY <1>6, SMTT(60) DEF Tables
<1>8. rev \in BOOLEAN
  BY <1>1
<1> HIDE DEF rev
<1>9. /\ r \in SlotRecs /\ r.loco = g.t.slot[o].loco
      /\ r.consistLead = g.t.slot[o].consistLead /\ r.consistNext = g.t.slot[o].consistNext
  BY <1>6, <1>8 DEF SlotRecs
<1> HIDE DEF r, t, start, g, o, l
<1>10. /\ slot \in [Objs -> SlotRecs] /\ slot[o] = r
       /\ \A x \in Objs \ {o} : slot[x] = g.t.slot[x]
  BY <1>3, <1>6, <1>9
<1> HIDE DEF slot
<1>11. /\ t \in Tables /\ t.slot = slot /\ t.chain = g.t.chain /\ t.recycler = g.t.recycler
       /\ t.count = g.t.count /\ t.chainModified = g.t.chainModified
  BY <1>6, <1>7, <1>10 DEF Tables
<1>12. \A x \in Objs : /\ t.slot[x].loco = g.t.slot[x].loco
                       /\ t.slot[x].consistLead = g.t.slot[x].consistLead
                       /\ t.slot[x].consistNext = g.t.slot[x].consistNext
                       /\ x # o => t.slot[x] = g.t.slot[x]
  BY <1>9, <1>10, <1>11
<1>13. Lists(t) /\ Live(t) = Live(g.t)
  <2>1. SameLists(g.t, t)
    BY <1>11, <1>12 DEF SameLists
  <2>2. QED
    BY <1>3, <1>6, <2>1, SameListsSound DEF Sound
<1>14. Live(g.t) \subseteq Objs
  BY <1>6, LiveObjs
<1>15. Links(t)
  <2>1. Links(g.t)
    BY <1>3 DEF Sound
  <2> DEFINE N == {x \in Objs : FALSE}
  <2>2. Live(t) = Live(g.t) \cup N /\ \A x \in N : FALSE
    BY <1>13
  <2> HIDE DEF N
  <2>3. \A x \in Live(g.t) : /\ t.slot[x].consistLead = g.t.slot[x].consistLead
                             /\ t.slot[x].consistNext = g.t.slot[x].consistNext
    BY <1>12, <1>14
  <2>4. QED
    BY <2>1, <2>2, <2>3, LinksGrow
<1>16. Sound(t)
  BY <1>11, <1>13, <1>15 DEF Sound
<1>17. \A x \in Live(g.t) : inConsist(t, x) <=> inConsist(g.t, x)
  BY <1>12, <1>14 DEF inConsist, isConsistLead, isConsistFollower
<1>18. NotReversed(t, {o})
  BY <1>3, <1>12, <1>13, <1>14, <1>17 DEF NotReversed
<1>19. /\ t.slot[o].consistLead = Null /\ t.slot[o].consistNext = Null /\ t.slot[o].loco = l
       /\ LeadOf(t, o) = o /\ o \in Live(t)
  BY <1>3, <1>4, <1>12, <1>13 DEF inConsist, isConsistLead, isConsistFollower, LeadOf
<1>20. ASSUME NEW x \in Live(base)
       PROVE  /\ x \in Live(t) /\ t.slot[x].loco = base.slot[x].loco
              /\ t.slot[x].consistLead = base.slot[x].consistLead
  BY <1>3, <1>12, <1>13, <1>14 DEF Keeps
<1>21. ASSUME NEW i \in 0 + 2 .. Len(p), NEW x \in Live(t), t.slot[x].loco = Abs(p[i])
       PROVE  ~inConsist(t, x)
  <2>1. i \in 1 .. Len(p)
    BY <1>1
  <2>2. x \in Live(g.t) /\ g.t.slot[x].loco = Abs(p[i])
    BY <1>12, <1>13, <1>14, <1>21
  <2>3. CASE x = o
    BY <1>4, <1>17, <2>2, <2>3
  <2>4. CASE x # o
    <3>1. x \in Live(base)
      BY <1>3, <2>2, <2>4
    <3>2. g.t.slot[x] = base.slot[x]
      BY <1>3, <3>1 DEF Keeps
    <3>3. ~inConsist(base, x)
      BY <2>1, <2>2, <3>1, <3>2
    <3>4. ~inConsist(g.t, x)
      BY <3>2, <3>3 DEF inConsist, isConsistLead, isConsistFollower
    <3>5. QED
      BY <1>17, <2>2, <3>4
  <2>5. QED
    BY <2>3, <2>4
<1>22. start \in Accs
  BY <1>3, <1>11 DEF Accs, start
<1>23. 0 + 1 = 1
  OBVIOUS
<1>24. Building(base, start, 0, o, p)
  <2>1. base.chainModified => t.chainModified
    BY <1>3, <1>11 DEF Keeps
  <2>2. QED
    BY <1>3, <1>5, <1>16, <1>18, <1>19, <1>20, <1>21, <1>23, <2>1 DEF Building, l
<1>25. QED
  BY <1>22, <1>24 DEF start, t, o, g, l

\* What a slot outside the named consist is, it stays; nothing left over is reversed.
LEMMA DeleteNotReversed ==
  ASSUME NEW T, Sound(T), NotReversed(T, {}), NEW l
  PROVE  NotReversed(deleteAnyConsist(T, l), {}) /\ NoSteal(T, deleteAnyConsist(T, l))
<1> DEFINE t == deleteAnyConsist(T, l)
           o == findSlot(T, l)
<1>1. /\ Sound(t) /\ Live(t) = Live(T) /\ SameLists(T, t)
      /\ \A x \in Live(T) :
           t.slot[x] = T.slot[x] \/ (~inConsist(t, x) /\ ~t.slot[x].consistReverse)
  BY DeleteSound
<1> HIDE DEF t
<1>2. NotReversed(t, {})
  <2> SUFFICES ASSUME NEW x \in Live(T), ~inConsist(t, x) PROVE ~t.slot[x].consistReverse
    BY <1>1 DEF NotReversed
  <2>1. CASE t.slot[x] = T.slot[x]
    <3>1. ~inConsist(T, x)
      BY <2>1 DEF inConsist, isConsistLead, isConsistFollower
    <3>2. QED
      BY <2>1, <3>1 DEF NotReversed
  <2>2. QED
    BY <1>1, <2>1
<1>3. \A x \in Live(T) : x \in Live(t) /\ t.slot[x].loco = T.slot[x].loco
  BY <1>1, LiveObjs DEF Sound, SameLists
<1>4. \A x \in Live(T), y \in Live(t) : T.slot[x].loco = t.slot[y].loco => x = y
  BY <1>1, <1>3, SameObject
<1>5. \A x \in Live(T) : t.slot[x].consistLead \in {Null, T.slot[x].consistLead}
  BY <1>1 DEF inConsist, isConsistFollower
<1>6. NoSteal(T, t)
  BY <1>1, <1>3, <1>4, <1>5, SameLeadNoSteal
<1>7. QED
  BY <1>2, <1>6 DEF t

\* `<^ ...>`: the consist of the first loco is deleted, then the new one is built.
LEMMA ParseSound ==
  ASSUME NEW T, Sound(T), NotReversed(T, {}), NEW p \in Params
  PROVE  LET r == parse(T, p)
         IN  /\ Sound(r.t) /\ NoSteal(T, r.t) /\ Grows(T, r.t)
             /\ r.crash \in BOOLEAN
             /\ ~r.crash => NotReversed(r.t, {})
             /\ r.crash => Full(r.t)
<1> DEFINE first == findSlot(T, Abs(p[1]))
           leads == first # Null /\ isConsistLead(T, first)
           T1 == IF leads THEN deleteAnyConsist(T, Abs(p[1])) ELSE T
           taken == \E i \in DOMAIN p : LET o == findSlot(T1, Abs(p[i]))
                                        IN  o # Null /\ inConsist(T1, o)
           g == getSlot(T1, Abs(p[1]))
           lead == g.obj
           start == [t |-> [g.t EXCEPT !.slot[lead].consistReverse = p[1] < 0],
                     prev |-> lead, crash |-> FALSE]
           built == linkAll(start, lead, p)
           r == parse(T, p)
<1>1. /\ Len(p) \in Nat /\ Len(p) >= 1 /\ DOMAIN p = 1 .. Len(p) /\ 1 \in 1 .. Len(p)
      /\ Abs(p[1]) \in Locos
  <2>1. DOMAIN p = 1 .. Len(p)
    <3>1. PICK n \in 1 .. MaxList : p \in [1 .. n -> Locos \cup {-l : l \in Locos}]
      BY DEF Params
    <3>2. n \in Nat
      BY <3>1, LocosAssumption
    <3> DEFINE Signed == Locos \cup {-l : l \in Locos}
    <3> HIDE DEF Signed
    <3>3. p \in Seq(Signed)
      BY <3>1, <3>2, IsASeq DEF Signed
    <3>4. QED
      BY <3>3, LenProperties
  <2>2. QED
    BY <2>1, ParamsRight
<1>2. /\ Sound(T1) /\ NotReversed(T1, {}) /\ NoSteal(T, T1) /\ Live(T1) = Live(T)
      /\ \A x \in Live(T) : T1.slot[x].loco = T.slot[x].loco
      /\ \A x \in Live(T) :
           \/ T1.slot[x] = T.slot[x]
           \/ T1.slot[x].consistLead = Null /\ leads /\ LeadOf(T, x) = first
      /\ T1.chainModified = T.chainModified
  <2>1. CASE leads
    <3> DEFINE t == deleteAnyConsist(T, Abs(p[1]))
    <3>1. /\ Sound(t) /\ Live(t) = Live(T) /\ SameLists(T, t) /\ t.chainModified = T.chainModified
          /\ \A x \in Live(T) :
               \/ t.slot[x] = T.slot[x]
               \/ ~inConsist(t, x) /\ LeadOf(T, x) = LeadOf(T, first)
      BY DeleteSound
    <3>2. NotReversed(t, {}) /\ NoSteal(T, t)
      BY DeleteNotReversed
    <3>3. LeadOf(T, first) = first
      BY <2>1 DEF LeadOf, isConsistLead
    <3>4. T1 = t
      BY <2>1
    <3> HIDE DEF t, first, T1
    <3>5. \A x \in Live(T) : t.slot[x].loco = T.slot[x].loco
      BY <3>1, LiveObjs DEF Sound, SameLists
    <3>6. \A x \in Live(T) :
           \/ t.slot[x] = T.slot[x]
           \/ t.slot[x].consistLead = Null /\ leads /\ LeadOf(T, x) = first
      BY <2>1, <3>1, <3>3 DEF inConsist, isConsistFollower
    <3>7. QED
      BY <3>1, <3>2, <3>4, <3>5, <3>6
  <2>2. CASE ~leads
    <3>1. NoSteal(T, T)
      BY SameLeadNoSteal, SameObject
    <3>2. T1 = T
      BY <2>2
    <3> HIDE DEF T1
    <3>3. QED
      BY <3>1, <3>2
  <2>3. QED
    BY <2>1, <2>2
<1>3. leads => T.slot[first].loco = Abs(p[1]) /\ first \in Live(T)
  BY FindSlotFinds DEF Sound
<1>4. /\ Len(p) < 2 => r = [t |-> T1, ok |-> TRUE, crash |-> FALSE]
      /\ Len(p) >= 2 /\ taken => r = [t |-> T1, ok |-> FALSE, crash |-> FALSE]
      /\ Len(p) >= 2 /\ ~taken /\ lead = Null => r = [t |-> g.t, ok |-> FALSE, crash |-> TRUE]
      /\ Len(p) >= 2 /\ ~taken /\ lead # Null =>
           r = [t |-> built.t, ok |-> ~built.crash, crash |-> built.crash]
  <2>1. Len(p) < 2 \/ Len(p) >= 2
    BY <1>1
  <2>2. Len(p) < 2 => ~(Len(p) >= 2)
    BY <1>1
  <2> DEFINE short == Len(p) < 2
             long == Len(p) >= 2
             none == lead = Null
  <2>3. r = CASE short -> [t |-> T1, ok |-> TRUE, crash |-> FALSE]
              [] long /\ taken -> [t |-> T1, ok |-> FALSE, crash |-> FALSE]
              [] long /\ ~taken /\ none -> [t |-> g.t, ok |-> FALSE, crash |-> TRUE]
              [] OTHER -> [t |-> built.t, ok |-> ~built.crash, crash |-> built.crash]
    BY DEF parse
  <2>4. short => ~long
    BY <2>2
  <2>5. short \/ long
    BY <2>1
  <2> HIDE DEF r, T1, taken, g, lead, built, short, long, none
  <2>6. /\ short => r = [t |-> T1, ok |-> TRUE, crash |-> FALSE]
        /\ long /\ taken => r = [t |-> T1, ok |-> FALSE, crash |-> FALSE]
        /\ long /\ ~taken /\ none => r = [t |-> g.t, ok |-> FALSE, crash |-> TRUE]
        /\ long /\ ~taken /\ ~none =>
             r = [t |-> built.t, ok |-> ~built.crash, crash |-> built.crash]
    BY <2>3, <2>4, <2>5
  <2>7. QED
    BY <2>6 DEF short, long, none
<1>9. Grows(T, T1)
  BY <1>2 DEF Grows
<1> HIDE DEF r
<1>5. CASE Len(p) < 2 \/ (Len(p) >= 2 /\ taken)
  <2> HIDE DEF T1, taken, g
  <2>1. r.t = T1 /\ r.crash = FALSE
    BY <1>4, <1>5
  <2>2. QED
    BY <1>2, <1>9, <2>1 DEF r
<1>6. CASE Len(p) >= 2 /\ ~taken /\ lead = Null
  <2>1. g.t = T1 /\ Full(T1)
    <3> DEFINE l == Abs(p[1])
    <3> HIDE DEF T1, l
    <3>1. l \in Locos
      BY <1>1 DEF l
    <3>2. getSlot(T1, l).obj = Null
      BY <1>6 DEF l
    <3>3. getSlot(T1, l).t = T1
      BY <1>2, <3>1, <3>2, GetSlotSound
    <3>4. Full(T1)
      BY <1>2, <3>1, <3>2, RefusedFull
    <3>5. QED
      BY <3>3, <3>4 DEF l
  <2> HIDE DEF T1, taken, g
  <2>2. r.t = T1 /\ r.crash = TRUE
    BY <1>4, <1>6, <2>1
  <2>3. QED
    BY <1>2, <1>9, <2>1, <2>2 DEF r
<1>7. CASE Len(p) >= 2 /\ ~taken /\ lead # Null
  <2>1. \A i \in 1 .. Len(p), x \in Live(T1) : T1.slot[x].loco = Abs(p[i]) => ~inConsist(T1, x)
    <3> SUFFICES ASSUME NEW i \in 1 .. Len(p), NEW x \in Live(T1), T1.slot[x].loco = Abs(p[i])
                 PROVE  ~inConsist(T1, x)
      OBVIOUS
    <3>1. findSlot(T1, Abs(p[i])) = Null \/ ~inConsist(T1, findSlot(T1, Abs(p[i])))
      <4> HIDE DEF T1
      <4>1. QED
        BY <1>1, <1>7
    <3> HIDE DEF T1, taken, g
    <3> DEFINE l == Abs(p[i])
               f == findSlot(T1, l)
    <3> HIDE DEF l
    <3>2. \/ f = Null /\ \A y \in Live(T1) : T1.slot[y].loco # l
          \/ f \in Live(T1) /\ f \in Objs /\ T1.slot[f].loco = l
      BY <1>2, FindSlotFinds DEF Sound
    <3>3. T1.slot[x].loco = l
      BY DEF l
    <3>4. f # Null /\ x = f
      <4>1. \A y, z \in Live(T1) : T1.slot[y].loco = T1.slot[z].loco => y = z
        BY <1>2 DEF Sound, Lists
      <4>2. x \in Live(T1) /\ Null \notin Live(T1)
        <5>1. Live(T1) \subseteq Objs
          <6>1. T1 \in Tables
            BY <1>2 DEF Sound
          <6>2. QED
            BY <6>1, LiveObjs
        <5>2. Null \notin Objs
          BY SMTT(30) DEF Objs, Null
        <5>3. QED
          BY <3>1, <5>1, <5>2
      <4>3. QED
        BY <3>2, <3>3, <4>1, <4>2
    <3>5. QED
      BY <3>1, <3>4 DEF l
  <2> HIDE DEF T1, taken
  <2>2. start \in Accs /\ Building(T1, start, 0, lead, p)
    BY <1>2, <1>7, <2>1, StartBuilds
  <2> HIDE DEF start, lead
  <2>3. built \in Accs /\ Building(T1, built, Len(p) - 1, lead, p)
    BY <2>2, LinkAllBuilds
  <2>4. r.t = built.t /\ r.crash = built.crash
    BY <1>4, <1>7
  <2> HIDE DEF built
  <2>5. Sound(r.t) /\ NotReversed(r.t, {lead}) /\ r.crash \in BOOLEAN /\ (r.crash => Full(r.t))
    BY <2>3, <2>4 DEF Building
  <2>6. ASSUME ~r.crash PROVE NotReversed(r.t, {})
    <3>1. Len(p) - 1 # 0
      BY <1>1, <1>7
    <3>2. built.t.slot[lead].consistNext # Null /\ built.t.slot[lead].consistLead = Null
      BY <2>3, <2>4, <2>6, <3>1 DEF Building
    <3>3. inConsist(r.t, lead)
      BY <2>4, <3>2 DEF inConsist, isConsistLead
    <3>4. QED
      BY <2>5, <3>3 DEF NotReversed
  <2>7. NoSteal(T, r.t)
    <3>1. /\ \A x \in Live(T) :
               /\ x \in Live(r.t) /\ r.t.slot[x].loco = T1.slot[x].loco
               /\ \/ r.t.slot[x].consistLead = T1.slot[x].consistLead
                  \/ T1.slot[x].consistLead = Null /\ r.t.slot[x].consistLead = lead
          /\ r.t.slot[lead].loco = Abs(p[1])
      BY <1>2, <2>3, <2>4 DEF Building
    <3>2. \A x \in Live(T) : x \in Live(r.t) /\ r.t.slot[x].loco = T.slot[x].loco
      BY <1>2, <3>1
    <3> HIDE DEF first
    <3> SUFFICES ASSUME NEW x \in Live(T), NEW y \in Live(r.t), T.slot[x].loco = r.t.slot[y].loco,
                        T.slot[x].consistLead # Null, r.t.slot[y].consistLead # Null
                 PROVE  T.slot[T.slot[x].consistLead].loco = r.t.slot[r.t.slot[y].consistLead].loco
      BY DEF NoSteal
    <3>3. x = y
      BY <2>5, <3>2, SameObject
    <3>4. T.slot[x].consistLead \in Live(T)
      BY DEF Sound, Links, FollowersLinked
    <3>5. CASE r.t.slot[x].consistLead = T.slot[x].consistLead
      BY <3>2, <3>3, <3>4, <3>5
    <3>6. CASE r.t.slot[x].consistLead # T.slot[x].consistLead
      <4>1. T1.slot[x].consistLead = Null /\ r.t.slot[x].consistLead = lead
        BY <1>2, <3>1, <3>3, <3>6
      <4>2. leads /\ LeadOf(T, x) = first
        BY <1>2, <4>1
      <4>3. T.slot[x].consistLead = first
        BY <4>2 DEF LeadOf
      <4>4. T.slot[first].loco = Abs(p[1])
        BY <1>3, <4>2
      <4>5. QED
        BY <3>1, <3>3, <4>1, <4>3, <4>4
    <3>7. QED
      BY <3>5, <3>6
  <2>8. Grows(T, r.t)
    <3>1. /\ \A x \in Live(T1) : x \in Live(r.t) /\ r.t.slot[x].loco = T1.slot[x].loco
          /\ T1.chainModified => r.t.chainModified
      BY <2>3, <2>4 DEF Building
    <3>2. QED
      BY <1>9, <3>1 DEF Grows
  <2>9. QED
    BY <2>5, <2>6, <2>7, <2>8 DEF r
<1>8. QED
  <2> HIDE DEF T1, taken, g, lead
  <2>1. Len(p) < 2 \/ Len(p) >= 2
    BY <1>1
  <2>2. QED
    BY <1>5, <1>6, <1>7, <2>1

-----------------------------------------------------------------------------
(* The invariant.                                                          *)

Good ==
    /\ Sound(tb) /\ crashed \in BOOLEAN
    /\ ~crashed => NotReversed(tb, {})
    /\ crashed => Full(tb)

\* A loco that is forgotten leaves its consist first.
LEMMA ForgetRight ==
  ASSUME Good, NEW l \in Locos, Forget(l)
  PROVE  /\ Good' /\ crashed' = crashed /\ NoSteal(tb, tb') /\ tb'.chainModified
         /\ findSlot(tb, l) \in Live(tb)
         /\ \A x \in Live(tb) \ {findSlot(tb, l)} :
                x \in Live(tb') /\ tb'.slot[x].loco = tb.slot[x].loco
<1> DEFINE o == findSlot(tb, l)
           u == IF inConsist(tb, o) THEN deleteAnyConsist(tb, l) ELSE tb
<1>1. Sound(tb) /\ ~crashed /\ NotReversed(tb, {}) /\ crashed' = crashed /\ o # Null
      /\ tb' = forget(u, o) /\ crashed \in BOOLEAN
  BY DEF Good, Forget
<1>2. o \in Live(tb)
  BY <1>1, FindSlotFinds DEF Sound
<1>3. /\ Sound(u) /\ Live(u) = Live(tb) /\ ~inConsist(u, o) /\ NotReversed(u, {})
      /\ \A x \in Live(tb) : /\ u.slot[x].loco = tb.slot[x].loco
                             /\ u.slot[x].consistLead \in {Null, tb.slot[x].consistLead}
  <2>1. CASE inConsist(tb, o)
    <3> DEFINE d == deleteAnyConsist(tb, l)
    <3>1. u = d
      BY <2>1
    <3>2. /\ Sound(d) /\ Live(d) = Live(tb) /\ SameLists(tb, d) /\ ~inConsist(d, o)
          /\ \A x \in Live(tb) : d.slot[x] = tb.slot[x] \/ ~inConsist(d, x)
      BY <1>1, DeleteSound
    <3>3. NotReversed(d, {})
      BY <1>1, DeleteNotReversed
    <3> HIDE DEF d, o, u
    <3>4. \A x \in Live(tb) : d.slot[x].loco = tb.slot[x].loco
      BY <1>1, <3>2, LiveObjs DEF Sound, SameLists
    <3>5. \A x \in Live(tb) : d.slot[x].consistLead \in {Null, tb.slot[x].consistLead}
      BY <3>2 DEF inConsist, isConsistFollower
    <3>6. QED
      BY <3>1, <3>2, <3>3, <3>4, <3>5
  <2>2. CASE ~inConsist(tb, o)
    <3>1. u = tb
      BY <2>2
    <3> HIDE DEF u, o
    <3>2. QED
      BY <1>1, <2>2, <3>1
  <2>3. QED
    BY <2>1, <2>2
<1> HIDE DEF o, u
<1>4. Sound(tb') /\ Live(tb') = Live(tb) \ {o} /\ tb'.slot = u.slot /\ tb'.chainModified
  BY <1>1, <1>2, <1>3, ForgetSound
<1>5. NotReversed(tb', {})
  BY <1>3, <1>4 DEF NotReversed, inConsist, isConsistLead, isConsistFollower
<1>6. NoSteal(tb, tb')
  <2>1. ASSUME NEW x \in Live(tb), NEW y \in Live(tb'), tb.slot[x].loco = tb'.slot[y].loco
        PROVE  x = y
    BY <1>1, <1>3, <1>4, <2>1 DEF Sound, Lists
  <2>2. \A x \in Live(tb) :
          /\ tb'.slot[x].loco = tb.slot[x].loco
          /\ tb'.slot[x].consistLead \in {Null, tb.slot[x].consistLead}
    BY <1>3, <1>4
  <2> DEFINE t == tb'
  <2>3. Sound(t) /\ \A x \in Live(tb), y \in Live(t) :
             tb.slot[x].loco = t.slot[y].loco => x = y \/ t.slot[y].consistLead = Null
    BY <1>4, <2>1
  <2>4. \A x \in Live(tb) : x \in Live(t) =>
             /\ t.slot[x].loco = tb.slot[x].loco
             /\ tb.slot[x].consistLead # Null => t.slot[x].consistLead \in {Null, tb.slot[x].consistLead}
    BY <2>2
  <2> HIDE DEF t
  <2>5. NoSteal(tb, t)
    BY <1>1, <2>3, <2>4, SameLeadNoSteal
  <2>6. QED
    BY <2>5 DEF t
<1>7. o \in Live(tb) /\ \A x \in Live(tb) \ {o} :
                             x \in Live(tb') /\ tb'.slot[x].loco = tb.slot[x].loco
  BY <1>2, <1>3, <1>4
<1>8. QED
  BY <1>1, <1>4, <1>5, <1>6, <1>7 DEF Good, o

\* Only chainModified changes.
LEMMA SeeChainSound ==
  ASSUME NEW T, Sound(T), NotReversed(T, {})
  PROVE  LET t == [T EXCEPT !.chainModified = FALSE]
         IN  Sound(t) /\ NotReversed(t, {}) /\ NoSteal(T, t)
<1> DEFINE t == [T EXCEPT !.chainModified = FALSE]
<1>1. T \in Tables /\ Lists(T) /\ Links(T)
  BY DEF Sound
<1>2. /\ t \in Tables /\ t.slot = T.slot /\ t.chain = T.chain /\ t.recycler = T.recycler
      /\ t.count = T.count
  BY <1>1 DEF Tables
<1> HIDE DEF t
<1>3. Lists(t) /\ Live(t) = Live(T)
  <2>1. SameLists(T, t)
    BY <1>2 DEF SameLists
  <2>2. QED
    BY <1>1, <2>1, SameListsSound
<1>4. Links(t)
  <2> DEFINE N == {x \in Objs : FALSE}
  <2>1. Live(t) = Live(T) \cup N /\ \A x \in N : FALSE
    BY <1>3
  <2> HIDE DEF N
  <2>2. QED
    BY <1>1, <1>2, <2>1, LinksGrow
<1>5. Sound(t)
  BY <1>2, <1>3, <1>4 DEF Sound
<1>6. NotReversed(t, {})
  BY <1>2, <1>3 DEF NotReversed, inConsist, isConsistLead, isConsistFollower
<1>7. NoSteal(T, t)
  <2>1. \A x \in Live(T) : x \in Live(t) /\ t.slot[x].loco = T.slot[x].loco
    BY <1>2, <1>3
  <2>2. \A x \in Live(T), y \in Live(t) : T.slot[x].loco = t.slot[y].loco => x = y
    BY <1>5, <2>1, SameObject
  <2>3. QED
    BY <1>2, <1>5, <2>1, <2>2, SameLeadNoSteal
<1>8. QED
  BY <1>5, <1>6, <1>7 DEF t

\* A command that makes or finds a slot leaves the consists alone.
LEMMA TouchSound ==
  ASSUME NEW T, Sound(T), NotReversed(T, {}), NEW l \in Locos
  PROVE  LET t == getSlot(T, l).t
         IN  Sound(t) /\ NotReversed(t, {}) /\ NoSteal(T, t)
<1> DEFINE t == getSlot(T, l).t
<1>1. Sound(t) /\ Keeps(T, t)
  BY GetSlotSound
<1>2. NotReversed(t, {})
  BY GetSlotNotReversed
<1> HIDE DEF t
<1>3. \A x \in Live(T) : x \in Live(t) /\ t.slot[x] = T.slot[x]
  BY <1>1 DEF Keeps
<1>4. \A x \in Live(T), y \in Live(t) : T.slot[x].loco = t.slot[y].loco => x = y
  BY <1>1, <1>3, SameObject
<1>5. NoSteal(T, t)
  BY <1>1, <1>3, <1>4, SameLeadNoSteal
<1>6. QED
  BY <1>1, <1>2, <1>5 DEF t

LEMMA GoodInit == TInit => Good
<1> SUFFICES ASSUME TInit PROVE Good
  OBVIOUS
<1>1. tb = EmptyTable /\ crashed = FALSE
  BY DEF TInit
<1>2. Sound(tb) /\ Live(tb) = {}
  BY <1>1, EmptySound
<1>3. QED
  BY <1>1, <1>2 DEF Good, NotReversed

LEMMA GoodNext ==
  ASSUME Good, TNext
  PROVE  Good' /\ NoSteal(tb, tb')
<1> USE DEF Good
<1>1. ASSUME NEW l \in Locos, Touch(l)
      PROVE  Good' /\ NoSteal(tb, tb')
  BY <1>1, TouchSound DEF Touch
<1>2. ASSUME NEW l \in Locos, Forget(l)
      PROVE  Good' /\ NoSteal(tb, tb')
  BY <1>2, ForgetRight
<1>3. ASSUME NEW l \in Locos, BreakConsist(l)
      PROVE  Good' /\ NoSteal(tb, tb')
  BY <1>3, DeleteSound, DeleteNotReversed DEF BreakConsist
<1>4. ASSUME NEW l \in Locos, NEW k \in Locos, NEW r \in BOOLEAN, BuildConsist(l, k, r)
      PROVE  Good' /\ NoSteal(tb, tb')
  BY <1>4, BuildConsistSound DEF BuildConsist
<1>5. ASSUME NEW p \in Params, ConsistCommand(p)
      PROVE  Good' /\ NoSteal(tb, tb')
  <2>1. ~crashed /\ tb' = parse(tb, p).t /\ crashed' = parse(tb, p).crash
    BY <1>5 DEF ConsistCommand
  <2>2. QED
    BY <2>1, ParseSound
<1>6. ASSUME ForgetAll
      PROVE  Good' /\ NoSteal(tb, tb')
  <2>1. tb' = forgetAll(EmptyTable) /\ crashed' = crashed
    BY <1>6 DEF ForgetAll, forgetAll
  <2>2. Sound(tb') /\ Live(tb') = {}
    BY <2>1, EmptySound
  <2>3. NoSteal(tb, tb') /\ NotReversed(tb', {})
    BY <2>2 DEF NoSteal, NotReversed
  <2>4. ~crashed'
    BY <1>6, <2>1 DEF ForgetAll
  <2>5. QED
    BY <2>1, <2>2, <2>3, <2>4
<1>7. ASSUME SeeChain
      PROVE  Good' /\ NoSteal(tb, tb')
  BY <1>7, SeeChainSound DEF SeeChain
<1>8. QED
  BY <1>1, <1>2, <1>3, <1>4, <1>5, <1>6, <1>7 DEF TNext

THEOREM GoodAlways == TSpec => []Good
<1>1. ASSUME Good, UNCHANGED tvars PROVE Good'
  BY <1>1 DEF Good, tvars
<1>2. Good /\ [TNext]_tvars => Good'
  BY <1>1, GoodNext
<1>3. QED
  BY <1>2, GoodInit, PTL DEF TSpec

-----------------------------------------------------------------------------
(* The properties.                                                         *)

LEMMA GoodTypes == ASSUME Good PROVE TTypeOK
<1>1. tb \in Tables /\ crashed \in BOOLEAN
  BY DEF Good, Sound
<1>2. \A o \in Objs : tb.slot[o] \in SlotRecs
  BY <1>1 DEF Tables
<1>3. QED
  BY <1>1, <1>2 DEF Tables, SlotRecs, TTypeOK

LEMMA GoodLists == ASSUME Good PROVE ListsSound
<1> DEFINE a == tb.chain
           b == tb.recycler
           c == a \o b
<1>1. tb \in Tables /\ Lists(tb)
  BY DEF Good, Sound
<1>2. /\ a \in Seq(Objs) /\ Len(a) \in Nat /\ DOMAIN a = 1 .. Len(a)
      /\ b \in Seq(Objs) /\ Len(b) \in Nat /\ DOMAIN b = 1 .. Len(b)
  BY <1>1 DEF Tables
<1>3. /\ \A i, j \in 1 .. Len(a) : a[i] = a[j] => i = j
      /\ \A i, j \in 1 .. Len(b) : b[i] = b[j] => i = j
      /\ \A i \in 1 .. Len(a), j \in 1 .. Len(b) : a[i] # b[j]
      /\ Range(a) \cup Range(b) = 1 .. tb.count
  <2>1. /\ IsInjective(a) /\ IsInjective(b) /\ Range(a) \cap Range(b) = {}
        /\ Range(a) \cup Range(b) = 1 .. tb.count
    BY <1>1 DEF Lists, Live, Recycled
  <2> HIDE DEF a, b
  <2>2. \A i \in 1 .. Len(a), j \in 1 .. Len(b) : a[i] # b[j]
    BY <1>2, <2>1 DEF Range
  <2>3. QED
    BY <1>2, <2>1, <2>2 DEF IsInjective
<1> HIDE DEF a, b
<1>4. /\ c \in Seq(Objs) /\ Len(c) = Len(a) + Len(b) /\ DOMAIN c = 1 .. Len(a) + Len(b)
      /\ \A i \in 1 .. Len(a) + Len(b) : c[i] = IF i <= Len(a) THEN a[i] ELSE b[i - Len(a)]
  BY <1>2, ConcatProperties
<1> HIDE DEF c
<1>5. ASSUME NEW i \in 1 .. Len(a) + Len(b), NEW j \in 1 .. Len(a) + Len(b), c[i] = c[j]
      PROVE  i = j
  <2>1. \A k \in 1 .. Len(a) + Len(b) :
          \/ k \in 1 .. Len(a) /\ c[k] = a[k]
          \/ k - Len(a) \in 1 .. Len(b) /\ c[k] = b[k - Len(a)] /\ k > Len(a)
    BY <1>2, <1>4
  <2>2. CASE i \in 1 .. Len(a) /\ c[i] = a[i]
    <3>1. CASE j \in 1 .. Len(a) /\ c[j] = a[j]
      BY <1>3, <1>5, <2>2, <3>1
    <3>2. CASE j - Len(a) \in 1 .. Len(b) /\ c[j] = b[j - Len(a)]
      BY <1>3, <1>5, <2>2, <3>2
    <3>3. QED
      BY <2>1, <3>1, <3>2
  <2>3. CASE i - Len(a) \in 1 .. Len(b) /\ c[i] = b[i - Len(a)] /\ i > Len(a)
    <3>1. CASE j \in 1 .. Len(a) /\ c[j] = a[j]
      BY <1>3, <1>5, <2>3, <3>1
    <3>2. CASE j - Len(a) \in 1 .. Len(b) /\ c[j] = b[j - Len(a)]
      <4>1. i - Len(a) = j - Len(a)
        BY <1>3, <1>5, <2>3, <3>2
      <4>2. QED
        BY <1>2, <4>1
    <3>3. QED
      BY <2>1, <3>1, <3>2
  <2>4. QED
    BY <2>1, <2>2, <2>3
<1>6. IsInjective(c)
  BY <1>4, <1>5 DEF IsInjective
<1>7. Range(c) = Range(a) \cup Range(b)
  <2>1. ASSUME NEW x \in Range(c) PROVE x \in Range(a) \cup Range(b)
    <3>1. PICK i \in 1 .. Len(a) + Len(b) : x = c[i]
      BY <1>4 DEF Range
    <3>2. CASE i <= Len(a)
      <4>1. i \in 1 .. Len(a) /\ x = a[i]
        BY <1>2, <1>4, <3>1, <3>2
      <4>2. QED
        BY <1>2, <4>1 DEF Range
    <3>3. CASE ~(i <= Len(a))
      <4>1. i - Len(a) \in 1 .. Len(b) /\ x = b[i - Len(a)]
        BY <1>2, <1>4, <3>1, <3>3
      <4>2. QED
        BY <1>2, <4>1 DEF Range
    <3>4. QED
      BY <3>2, <3>3
  <2>2. ASSUME NEW x \in Range(a) PROVE x \in Range(c)
    <3>1. PICK i \in 1 .. Len(a) : x = a[i]
      BY <1>2 DEF Range
    <3>2. i \in 1 .. Len(a) + Len(b) /\ c[i] = x
      BY <1>2, <1>4, <3>1
    <3>3. QED
      BY <1>4, <3>2 DEF Range
  <2>3. ASSUME NEW x \in Range(b) PROVE x \in Range(c)
    <3>1. PICK i \in 1 .. Len(b) : x = b[i]
      BY <1>2 DEF Range
    <3>2. /\ i + Len(a) \in 1 .. Len(a) + Len(b) /\ ~(i + Len(a) <= Len(a))
          /\ (i + Len(a)) - Len(a) = i
      BY <1>2
    <3>3. c[i + Len(a)] = x
      BY <1>4, <3>1, <3>2
    <3>4. QED
      BY <1>4, <3>2, <3>3 DEF Range
  <2>4. QED
    BY <2>1, <2>2, <2>3
<1>8. \A o, x \in InChain : tb.slot[o].loco = tb.slot[x].loco => o = x
  BY <1>1 DEF Lists, Live, InChain
<1>9. QED
  BY <1>3, <1>6, <1>7, <1>8 DEF ListsSound, a, b, c

LEMMA GoodConsists == ASSUME Good, ~crashed PROVE ConsistsSound
<1>1. Sound(tb) /\ NotReversed(tb, {}) /\ InChain = Live(tb)
  BY DEF Good, InChain, Live
<1> SUFFICES ASSUME NEW o \in Live(tb)
             PROVE  /\ isConsistFollower(tb, o) =>
                         LET lead == tb.slot[o].consistLead
                         IN  /\ lead \in Live(tb) /\ isConsistLead(tb, lead)
                             /\ o \in Range(Members(tb, lead))
                    /\ isConsistLead(tb, o) =>
                         LET ms == Members(tb, o)
                         IN  /\ IsInjective(ms) /\ Range(ms) \subseteq Live(tb)
                             /\ tb.slot[Last(ms)].consistNext = Null
                             /\ \A i \in 2 .. Len(ms) : tb.slot[ms[i]].consistLead = o
                    /\ ~inConsist(tb, o) => ~tb.slot[o].consistReverse
  BY <1>1 DEF ConsistsSound
<1>2. ASSUME isConsistFollower(tb, o)
      PROVE  LET lead == tb.slot[o].consistLead
             IN  /\ lead \in Live(tb) /\ isConsistLead(tb, lead)
                 /\ o \in Range(Members(tb, lead))
  <2> DEFINE lead == tb.slot[o].consistLead
  <2>1. lead # Null /\ lead \in Live(tb) /\ isConsistLead(tb, lead)
    BY <1>1, <1>2 DEF isConsistFollower, Sound, Links, FollowersLinked
  <2>2. LeadOf(tb, o) = lead /\ tb.slot[lead].consistLead = Null
    BY <2>1 DEF LeadOf, isConsistLead
  <2> HIDE DEF lead
  <2>3. Range(Members(tb, lead)) = Group(tb, lead)
    BY <1>1, <2>1, <2>2, MembersGroup
  <2>4. o \in Group(tb, lead)
    BY <2>2 DEF Group
  <2>5. QED
    BY <2>1, <2>3, <2>4 DEF lead
<1>3. ASSUME isConsistLead(tb, o)
      PROVE  LET ms == Members(tb, o)
             IN  /\ IsInjective(ms) /\ Range(ms) \subseteq Live(tb)
                 /\ tb.slot[Last(ms)].consistNext = Null
                 /\ \A i \in 2 .. Len(ms) : tb.slot[ms[i]].consistLead = o
  <2> DEFINE ms == Members(tb, o)
  <2>1. tb.slot[o].consistLead = Null
    BY <1>3 DEF isConsistLead
  <2>2. IsInjective(ms) /\ tb.slot[ms[Len(ms)]].consistNext = Null
    BY <1>1, MembersPath
  <2>3. Range(ms) = Group(tb, o) /\ \A i \in 2 .. Len(ms) : tb.slot[ms[i]].consistLead = o
    BY <1>1, <2>1, MembersGroup
  <2>4. Group(tb, o) \subseteq Live(tb)
    BY DEF Group
  <2> HIDE DEF ms
  <2>5. Last(ms) = ms[Len(ms)]
    BY DEF Last
  <2>6. QED
    BY <2>2, <2>3, <2>4, <2>5 DEF ms
<1>4. ~inConsist(tb, o) => ~tb.slot[o].consistReverse
  BY <1>1 DEF NotReversed
<1>5. QED
  BY <1>2, <1>3, <1>4

\* Every allocated slot is on one list, once, and no loco has two slots, also when a
\* consist command on a full table has gone wrong.
THEOREM ListsSoundAlways == TSpec => []ListsSound
<1>1. Good => ListsSound
  BY GoodLists
<1>2. QED
  BY <1>1, GoodAlways, PTL

\* While no null slot was used, consists are proper chains of live slots.
THEOREM ConsistsSoundAlways == TSpec => [](~crashed => ConsistsSound)
<1>1. Good => (~crashed => ConsistsSound)
  BY GoodConsists
<1>2. QED
  BY <1>1, GoodAlways, PTL

\* For any locos and any size of the table: types and lists are sound, consists are until
\* a null slot is used, and a null slot is used only when every slot holds a loco.
LEMMA GoodSound == Good => TableSound
<1>1. Good => NullOnlyWhenFull
  BY DEF Good, Full, NullOnlyWhenFull, Live, InChain
<1>2. QED
  BY <1>1, GoodTypes, GoodLists, GoodConsists DEF TableSound

THEOREM TableSoundAlways == TSpec => []TableSound
<1>1. QED
  BY GoodSound, GoodAlways, PTL

\* No command moves a loco straight from one consist to another, whatever it builds,
\* breaks or forgets.
THEOREM NoConsistStolenAlways == TSpec => NoConsistStolen
<1> DEFINE Kept == \A l \in Locos :
                     LET o == findSlot(tb, l)
                         o2 == findSlot(tb', l)
                     IN  (/\ o # Null /\ isConsistFollower(tb, o)
                          /\ o2 # Null /\ isConsistFollower(tb', o2))
                         => tb.slot[tb.slot[o].consistLead].loco
                              = tb'.slot[tb'.slot[o2].consistLead].loco
<1>1. ASSUME Good, TNext PROVE Kept
  <2>1. Sound(tb) /\ Sound(tb') /\ NoSteal(tb, tb')
    BY <1>1, GoodNext DEF Good
  <2> DEFINE T == tb
             t == tb'
  <2>2. ASSUME NEW l \in Locos
        PROVE  LET o == findSlot(T, l)
                   o2 == findSlot(t, l)
               IN  (/\ o # Null /\ isConsistFollower(T, o)
                    /\ o2 # Null /\ isConsistFollower(t, o2))
                   => T.slot[T.slot[o].consistLead].loco = t.slot[t.slot[o2].consistLead].loco
    <3>1. Sound(T) /\ Sound(t) /\ NoSteal(T, t)
      BY <2>1
    <3> HIDE DEF T, t
    <3> DEFINE o == findSlot(T, l)
               o2 == findSlot(t, l)
    <3>2. /\ o # Null => o \in Live(T) /\ T.slot[o].loco = l
          /\ o2 # Null => o2 \in Live(t) /\ t.slot[o2].loco = l
      BY <3>1, FindSlotFinds DEF Sound
    <3> HIDE DEF o, o2
    <3>3. (/\ o # Null /\ isConsistFollower(T, o)
           /\ o2 # Null /\ isConsistFollower(t, o2))
          => T.slot[T.slot[o].consistLead].loco = t.slot[t.slot[o2].consistLead].loco
      BY <3>1, <3>2 DEF NoSteal, isConsistFollower
    <3>4. QED
      BY <3>3 DEF o, o2
  <2>3. QED
    BY <2>2
<1>2. ASSUME Good, TNext PROVE [Kept]_tvars
  BY <1>1, <1>2
<1> HIDE DEF Kept
<1>3. Good /\ [TNext]_tvars => [Kept]_tvars
  BY <1>1
<1>4. TSpec => [][Kept]_tvars
  BY <1>3, GoodAlways, PTL DEF TSpec
<1>5. QED
  BY <1>4 DEF NoConsistStolen, Kept

-----------------------------------------------------------------------------
(* Speed codes and addresses.                                              *)

\* An address or none is its own low 16 bits.
LEMMA LocoIdIsUnion ==
  ASSUME NEW u \in Locos \cup {0}
  PROVE  u % W16 = u /\ u \in Nat
<1>1. W16 \in Nat /\ W16 # 0 /\ u \in 0 .. W16 - 1
  BY DrivingAssumption
<1>2. QED
  BY <1>1

\* A speed code is its speed in one of the two directions.
LEMMA TwoDirections ==
  ASSUME NEW c \in Codes
  PROVE  \/ c \in 0 .. HALF - 1 /\ c \div HALF = 0 /\ c % HALF = c
         \/ c - HALF \in 0 .. HALF - 1 /\ c \div HALF = 1 /\ c % HALF = c - HALF
<1>1. HALF \in Nat /\ HALF > 2 /\ c \in 0 .. 2 * HALF - 1
  BY TableAssumption DEF Codes
<1>2. CASE c < HALF
  BY <1>1, <1>2
<1>3. CASE c >= HALF
  BY <1>1, <1>3
<1>4. QED
  BY <1>1, <1>2, <1>3

\* A code keeps its speed when it is reversed, and its direction when it becomes a stop.
LEMMA CodesRight ==
  ASSUME NEW c \in Codes
  PROVE  /\ Speed(c) \in Nat
         /\ Reversed(c) \in Codes /\ Speed(Reversed(c)) = Speed(c)
         /\ SameDirection(c, 1) \in Codes /\ Speed(SameDirection(c, 1)) = 1
         /\ 1 \in Codes /\ Speed(1) = 1
<1>1. HALF \in Nat /\ HALF > 2
  BY TableAssumption
<1>2. 1 \in Codes /\ 1 + HALF \in Codes /\ Speed(1) = 1 /\ Speed(1 + HALF) = 1
  <2>1. 1 \in Codes /\ 1 + HALF \in Codes
    BY <1>1 DEF Codes
  <2>2. QED
    BY <1>1, <2>1, TwoDirections DEF Speed
<1>3. /\ c + HALF < 2 * HALF => Reversed(c) = c + HALF
      /\ c + HALF >= 2 * HALF => Reversed(c) = c - HALF
  BY <1>1 DEF Codes, Reversed
<1>4. Reversed(c) \in Codes /\ Speed(Reversed(c)) = Speed(c)
  <2>1. Reversed(c) \in Codes
    BY <1>1, <1>3 DEF Codes
  <2>2. QED
    BY <1>1, <1>3, <2>1, TwoDirections DEF Codes, Speed
<1>5. SameDirection(c, 1) = 1 \/ SameDirection(c, 1) = 1 + HALF
  BY <1>1, TwoDirections DEF SameDirection
<1>6. Speed(c) \in Nat
  BY <1>1 DEF Speed, Codes
<1>7. QED
  BY <1>2, <1>4, <1>5, <1>6

-----------------------------------------------------------------------------
(* The queues: which packets and slots they may hold.                      *)

Stops(p) == Speed(p.val) = 1

SpeedPackets == [to : Locos \cup {0}, kind : {"speed"}, val : Codes]

FnKinds == {Queue!FnKind(g) : g \in Groups}
FnTypes == {Queue!FnType(g) : g \in Groups}
FnPackets == [to : Locos, kind : FnKinds, val : {"on", "off"}]

\* A speed packet of A: kept with the loco it is to unless it stops, and repeated only
\* when it is kept with none.
HighSlots(A) ==
    {s \in [type : {"SPEED"}, packet : SpeedPackets, repeats : Nat, union : Locos \cup {0}] :
        /\ s.packet \in A
        /\ s.union = s.packet.to \/ Stops(s.packet)
        /\ s.union = 0 \/ s.repeats = 0}

LowSlots == [type : FnTypes, packet : FnPackets, repeats : {0}, union : Locos]

QueuesOf(A) ==
    [high : Seq(HighSlots(A)), low : Seq(LowSlots), last : Nat, free : Int, created : Int]

\* The speed packets for locos of L while the lock is as `locked` says.
Driven(L, locked) == {p \in SpeedPackets : Stops(p) \/ (~locked /\ p.to \in L)}

LEMMA QueueParts ==
  ASSUME NEW A, NEW Q \in QueuesOf(A)
  PROVE  /\ Q.high \in Seq(HighSlots(A)) /\ DOMAIN Q.high = 1 .. Len(Q.high)
         /\ Len(Q.high) \in Nat
         /\ Q.low \in Seq(LowSlots) /\ DOMAIN Q.low = 1 .. Len(Q.low)
         /\ Len(Q.low) \in Nat
<1>1. Q.high \in Seq(HighSlots(A)) /\ Q.low \in Seq(LowSlots)
  BY DEF QueuesOf
<1>2. QED
  BY <1>1, LenProperties

\* With a new high priority queue the packets may be others,
LEMMA NewHigh ==
  ASSUME NEW A, NEW B, NEW Q \in QueuesOf(A), NEW h \in Seq(HighSlots(B))
  PROVE  [Q EXCEPT !.high = h] \in QueuesOf(B)
  BY DEF QueuesOf

LEMMA NewLow ==
  ASSUME NEW A, NEW Q \in QueuesOf(A), NEW w \in Seq(LowSlots)
  PROVE  [Q EXCEPT !.low = w] \in QueuesOf(A)
  BY DEF QueuesOf

LEMMA NewFree ==
  ASSUME NEW A, NEW Q \in QueuesOf(A), NEW f \in Int
  PROVE  [Q EXCEPT !.free = f] \in QueuesOf(A)
  BY DEF QueuesOf

\* and a slot is always to be had.
LEMMA SlotTaken ==
  ASSUME NEW A, NEW Q \in QueuesOf(A)
  PROVE  /\ Queue!getSlot(Q) \in QueuesOf(A)
         /\ Queue!getSlot(Q).high = Q.high /\ Queue!getSlot(Q).low = Q.low
  BY DEF Queue!getSlot, QueuesOf

\* What more packets than needed are allowed.
LEMMA QueuesGrow ==
  ASSUME NEW A, NEW B, A \subseteq B, NEW Q \in QueuesOf(A)
  PROVE  Q \in QueuesOf(B)
<1>1. HighSlots(A) \subseteq HighSlots(B)
  BY DEF HighSlots
<1>2. Q.high \in Seq(HighSlots(B))
  <2> DEFINE S == HighSlots(A)
             R == HighSlots(B)
             h == Q.high
  <2>1. h \in Seq(S) /\ S \subseteq R
    BY <1>1 DEF QueuesOf
  <2> HIDE DEF S, R, h
  <2>2. h \in Seq(R)
    BY <2>1
  <2>3. QED
    BY <2>2 DEF R, h
<1>3. [Q EXCEPT !.high = Q.high] \in QueuesOf(B)
  BY <1>2, NewHigh
<1>4. [Q EXCEPT !.high = Q.high] = Q
  BY DEF QueuesOf
<1>5. QED
  BY <1>3, <1>4

\* FirstOf finds a slot that passes the test, or none does.
LEMMA FirstFound ==
  ASSUME NEW found, NEW n \in Nat, found \subseteq 1 .. n,
         NEW i, i = IF found = {} THEN 0 ELSE Queue!Min(found)
  PROVE  /\ i = 0 <=> found = {}
         /\ i # 0 => i \in found
<1>1. CASE found = {}
  BY <1>1
<1>2. CASE found # {}
  <2>1. found \subseteq Nat /\ Queue!Min(found) = Min(found)
    BY DEF Queue!Min, Min
  <2>2. Min(found) \in found
    BY <1>2, <2>1, LeastElement
  <2>3. QED
    BY <1>2, <2>1, <2>2
<1>3. QED
  BY <1>1, <1>2

\* A slot with a new packet keeps its type and its union.
LEMMA PacketReplaced ==
  ASSUME NEW T, NEW w \in Seq(T), NEW i \in 1 .. Len(w), NEW p, NEW r,
         w[i] \in [type : {w[i].type}, packet : {w[i].packet},
                   repeats : {w[i].repeats}, union : {w[i].union}],
         Queue!Slot(w[i].type, p, r, w[i].union) \in T
  PROVE  Queue!replacePacket(w, i, p, r) \in Seq(T)
<1> DEFINE e == [w[i] EXCEPT !.packet = p]
           d == [e EXCEPT !.repeats = r]
           w1 == [w EXCEPT ![i] = e]
<1>1. DOMAIN w = 1 .. Len(w)
  BY LenProperties
<1>2. d = Queue!Slot(w[i].type, p, r, w[i].union)
  <2>1. w[i] = [type |-> w[i].type, packet |-> w[i].packet,
                repeats |-> w[i].repeats, union |-> w[i].union]
    OBVIOUS
  <2>2. e = [type |-> w[i].type, packet |-> p, repeats |-> w[i].repeats, union |-> w[i].union]
    BY <2>1
  <2> HIDE DEF e
  <2>3. d = [type |-> w[i].type, packet |-> p, repeats |-> r, union |-> w[i].union]
    BY <2>2
  <2>4. QED
    BY <2>3 DEF Queue!Slot
<1>3. Queue!replacePacket(w, i, p, r) = [w1 EXCEPT ![i] = d]
  BY <1>1 DEF Queue!replacePacket
<1>4. [w1 EXCEPT ![i] = d] = [w EXCEPT ![i] = d]
  BY <1>1
<1> HIDE DEF e, d, w1
<1>5. [w EXCEPT ![i] = d] \in Seq(T)
  BY <1>2, ExceptSeq
<1>6. QED
  BY <1>3, <1>4, <1>5

\* What a slot is, field by field.
LEMMA HighSlot ==
  ASSUME NEW A, NEW s \in HighSlots(A)
  PROVE  /\ s \in [type : {s.type}, packet : {s.packet}, repeats : {s.repeats}, union : {s.union}]
         /\ s.type = "SPEED" /\ s.packet \in A /\ s.packet \in SpeedPackets /\ s.repeats \in Nat
         /\ s.union \in Locos \cup {0} /\ Queue!locoId(s) = s.union
         /\ s.union = s.packet.to \/ Stops(s.packet)
         /\ s.union = 0 \/ s.repeats = 0
<1>1. /\ s \in [type : {"SPEED"}, packet : SpeedPackets, repeats : Nat, union : Locos \cup {0}]
      /\ s.packet \in A
      /\ s.union = s.packet.to \/ Stops(s.packet)
      /\ s.union = 0 \/ s.repeats = 0
  BY DEF HighSlots
<1>2. s.union \in Locos \cup {0}
  BY <1>1
<1>3. Queue!locoId(s) = s.union
  BY <1>2, LocoIdIsUnion DEF Queue!locoId
<1>4. QED
  BY <1>1, <1>3

LEMMA LowSlot ==
  ASSUME NEW s \in LowSlots
  PROVE  /\ s \in [type : {s.type}, packet : {s.packet}, repeats : {s.repeats}, union : {s.union}]
         /\ s.type \in FnTypes /\ s.packet \in FnPackets /\ s.repeats = 0
         /\ s.union \in Locos /\ Queue!locoId(s) = s.union
<1>1. s.union \in Locos \cup {0}
  BY DEF LowSlots
<1>2. Queue!locoId(s) = s.union
  BY <1>1, LocoIdIsUnion DEF Queue!locoId
<1>3. QED
  BY <1>2 DEF LowSlots

\* Function packets have types and kinds of their own.
LEMMA FnApart ==
  /\ \A t \in FnTypes : t # "ACC_ON" /\ t # "ACC_OFF" /\ t # "SPEED"
  /\ \A k \in FnKinds : k # "speed"
  /\ \A g \in Groups : Queue!FnType(g) \in FnTypes /\ Queue!FnKind(g) \in FnKinds
<1>1. \A g \in Groups : g = 1 \/ g = 2 \/ g = 3 \/ g = 4 \/ g = 5
  BY DrivingAssumption
<1>2. /\ Queue!FnType(1) = "FUNCTION1" /\ Queue!FnType(2) = "FUNCTION2"
      /\ Queue!FnType(3) = "FUNCTION3" /\ Queue!FnType(4) = "FUNCTION4"
      /\ Queue!FnType(5) = "FUNCTION5"
      /\ Queue!FnKind(1) = "fn1" /\ Queue!FnKind(2) = "fn2" /\ Queue!FnKind(3) = "fn3"
      /\ Queue!FnKind(4) = "fn4" /\ Queue!FnKind(5) = "fn5"
  BY DEF Queue!FnType, Queue!FnKind
<1>3. \A g \in Groups : /\ Queue!FnType(g) \notin {"ACC_ON", "ACC_OFF", "SPEED"}
                        /\ Queue!FnKind(g) # "speed"
  BY <1>1, <1>2
<1>4. QED
  BY <1>3 DEF FnTypes, FnKinds

\* A speed packet for a loco takes the place of its older one or gets a slot of its own.
LEMMA SpeedQueued ==
  ASSUME NEW A, A \subseteq SpeedPackets, NEW Q \in QueuesOf(A), NEW p \in A, NEW l \in Locos,
         p.to = l
  PROVE  Queue!scheduleDCCSpeedPacket(Q, p, 0, l) \in QueuesOf(A)
<1> DEFINE R == Queue!scheduleDCCSpeedPacket(Q, p, 0, l)
           found == {i \in DOMAIN Q.high : Queue!locoId(Q.high[i]) = l}
           i == Queue!FirstOf(Q.high, LAMBDA s : Queue!locoId(s) = l)
           new == Queue!Slot("SPEED", p, 0, l)
<1>1. /\ Q.high \in Seq(HighSlots(A)) /\ DOMAIN Q.high = 1 .. Len(Q.high) /\ Len(Q.high) \in Nat
  BY QueueParts
<1>2. i = IF found = {} THEN 0 ELSE Queue!Min(found)
  BY DEF Queue!FirstOf
<1>3. R = IF i # 0 THEN [Q EXCEPT !.high = Queue!replacePacket(@, i, p, 0)]
          ELSE [Queue!getSlot(Q) EXCEPT !.high = Queue!addQueue(@, new)]
  BY DEF Queue!scheduleDCCSpeedPacket
<1>4. new \in HighSlots(A)
  BY DEF HighSlots, Queue!Slot
<1> HIDE DEF i, new, R
<1>5. i # 0 => i \in 1 .. Len(Q.high) /\ Queue!locoId(Q.high[i]) = l
  <2>1. found \subseteq 1 .. Len(Q.high)
    BY <1>1
  <2>2. i # 0 => i \in found
    <3> HIDE DEF found
    <3>1. QED
      BY <1>1, <1>2, <2>1, FirstFound
  <2>3. QED
    BY <1>1, <2>2
<1>6. CASE i # 0
  <2> DEFINE s == Q.high[i]
             h == Queue!replacePacket(Q.high, i, p, 0)
  <2>1. s \in HighSlots(A) /\ Queue!locoId(s) = l
    BY <1>1, <1>5, <1>6, ElementOfSeq
  <2>2. s.type = "SPEED" /\ s.union = l
        /\ s \in [type : {s.type}, packet : {s.packet}, repeats : {s.repeats}, union : {s.union}]
    <3> HIDE DEF s
    <3>1. QED
      BY <2>1, HighSlot
  <2>3. Queue!Slot(s.type, p, 0, s.union) \in HighSlots(A)
    <3> HIDE DEF s
    <3>1. QED
      BY <2>2 DEF HighSlots, Queue!Slot
  <2>4. h \in Seq(HighSlots(A))
    BY <1>1, <1>5, <1>6, <2>2, <2>3, PacketReplaced
  <2>5. R = [Q EXCEPT !.high = h]
    BY <1>3, <1>6
  <2> HIDE DEF h
  <2>6. QED
    BY <2>4, <2>5, NewHigh DEF R
<1>7. CASE i = 0
  <2> DEFINE G == Queue!getSlot(Q)
             h == Append(Q.high, new)
  <2>1. G \in QueuesOf(A) /\ G.high = Q.high
    BY SlotTaken
  <2>2. h \in Seq(HighSlots(A))
    BY <1>1, <1>4, AppendProperties
  <2>3. R = [G EXCEPT !.high = Append(G.high, new)]
    BY <1>3, <1>7 DEF Queue!addQueue
  <2> HIDE DEF G
  <2>4. R = [G EXCEPT !.high = h]
    BY <2>1, <2>3
  <2> HIDE DEF h
  <2>5. QED
    BY <2>1, <2>2, <2>4, NewHigh DEF R
<1>8. QED
  BY <1>6, <1>7

\* A function packet too.
LEMMA FunctionQueued ==
  ASSUME NEW A, NEW Q \in QueuesOf(A), NEW p \in FnPackets, NEW l \in Locos, NEW g \in Groups
  PROVE  Queue!scheduleDCCFunctionPacket(Q, p, l, g) \in QueuesOf(A)
<1> DEFINE R == Queue!scheduleDCCFunctionPacket(Q, p, l, g)
           T == Queue!FnType(g)
           found == {i \in DOMAIN Q.low : Queue!locoId(Q.low[i]) = l /\ Q.low[i].type = T}
           i == Queue!FirstOf(Q.low, LAMBDA s : Queue!locoId(s) = l /\ s.type = T)
           new == Queue!Slot(T, p, 0, l)
<1>1. /\ Q.low \in Seq(LowSlots) /\ DOMAIN Q.low = 1 .. Len(Q.low) /\ Len(Q.low) \in Nat
  BY QueueParts
<1>2. i = IF found = {} THEN 0 ELSE Queue!Min(found)
  BY DEF Queue!FirstOf
<1>3. R = IF i # 0 THEN [Q EXCEPT !.low = Queue!replacePacket(@, i, p, 0)]
          ELSE [Queue!getSlot(Q) EXCEPT !.low = Queue!addQueue(@, new)]
  BY DEF Queue!scheduleDCCFunctionPacket
<1>4. new \in LowSlots
  <2>1. T \in FnTypes
    BY FnApart
  <2>2. QED
    BY <2>1 DEF LowSlots, Queue!Slot
<1> HIDE DEF i, new, R
<1>5. i # 0 => i \in 1 .. Len(Q.low)
  <2>1. found \subseteq 1 .. Len(Q.low)
    BY <1>1
  <2>2. i # 0 => i \in found
    <3> HIDE DEF found
    <3>1. QED
      BY <1>1, <1>2, <2>1, FirstFound
  <2>3. QED
    BY <1>1, <2>2
<1>6. CASE i # 0
  <2> DEFINE s == Q.low[i]
             w == Queue!replacePacket(Q.low, i, p, 0)
  <2>1. s \in LowSlots
    BY <1>1, <1>5, <1>6, ElementOfSeq
  <2>2. s.type \in FnTypes /\ s.union \in Locos
        /\ s \in [type : {s.type}, packet : {s.packet}, repeats : {s.repeats}, union : {s.union}]
    <3> HIDE DEF s
    <3>1. QED
      BY <2>1, LowSlot
  <2>3. Queue!Slot(s.type, p, 0, s.union) \in LowSlots
    <3> HIDE DEF s
    <3>1. QED
      BY <2>2 DEF LowSlots, Queue!Slot
  <2>4. w \in Seq(LowSlots)
    BY <1>1, <1>5, <1>6, <2>2, <2>3, PacketReplaced
  <2>5. R = [Q EXCEPT !.low = w]
    BY <1>3, <1>6
  <2> HIDE DEF w
  <2>6. QED
    BY <2>4, <2>5, NewLow DEF R
<1>7. CASE i = 0
  <2> DEFINE G == Queue!getSlot(Q)
             w == Append(Q.low, new)
  <2>1. G \in QueuesOf(A) /\ G.low = Q.low
    BY SlotTaken
  <2>2. w \in Seq(LowSlots)
    BY <1>1, <1>4, AppendProperties
  <2>3. R = [G EXCEPT !.low = Append(G.low, new)]
    BY <1>3, <1>7 DEF Queue!addQueue
  <2> HIDE DEF G
  <2>4. R = [G EXCEPT !.low = w]
    BY <2>1, <2>3
  <2> HIDE DEF w
  <2>5. QED
    BY <2>1, <2>2, <2>4, NewLow DEF R
<1>8. QED
  BY <1>6, <1>7

\* An emergency stop for a loco leaves no packet that drives it, and one for all locos
\* leaves none that drives any.
LEMMA EstopQueued ==
  ASSUME NEW A, A \subseteq SpeedPackets, NEW B, B \subseteq SpeedPackets,
         NEW Q \in QueuesOf(A), NEW p \in B, Stops(p), NEW l \in Locos \cup {0},
         \A x \in A : (l # 0 /\ (x.to # l \/ Stops(x))) => x \in B
  PROVE  Queue!scheduleEstopPacket(Q, p, 4, l) \in QueuesOf(B)
<1> DEFINE R == Queue!scheduleEstopPacket(Q, p, 4, l)
           I == Queue!Spared(Q, l)
           kept == Queue!Pick(Q.high, I)
           f == Q.free + Len(Q.high) - Len(kept)
           recycled == [Q EXCEPT !.high = kept, !.free = f]
           new == Queue!Slot("SPEED", p, 4, 0)
<1>1. /\ Q.high \in Seq(HighSlots(A)) /\ DOMAIN Q.high = 1 .. Len(Q.high) /\ Len(Q.high) \in Nat
  BY QueueParts
<1>2. I \subseteq 1 .. Len(Q.high)
  BY <1>1 DEF Queue!Spared
<1>3. ASSUME NEW i \in I PROVE Q.high[i] \in HighSlots(B)
  <2> DEFINE s == Q.high[i]
  <2>1. i \in 1 .. Len(Q.high) /\ s \in HighSlots(A)
    BY <1>1, <1>2, ElementOfSeq
  <2>2. s.type = "ACC_OFF" \/ (l # 0 /\ Queue!locoId(s) # l)
    BY DEF Queue!Spared
  <2> HIDE DEF s
  <2>3. l # 0 /\ s.union # l /\ s.packet \in A /\ (s.union = s.packet.to \/ Stops(s.packet))
    BY <2>1, <2>2, HighSlot
  <2>4. s.packet \in B
    BY <2>3
  <2>5. s \in HighSlots(B)
    BY <2>1, <2>4 DEF HighSlots
  <2>6. QED
    BY <2>5 DEF s
<1>4. kept \in Seq(HighSlots(A)) /\ \E e : Embeds(e, kept, Q.high, I)
  <2>1. kept = Picked(Q.high, I)
    BY DEF Queue!Pick, Picked
  <2> HIDE DEF kept, I
  <2>2. QED
    BY <1>1, <1>2, <2>1, PickedEmbeds
<1> HIDE DEF kept
<1>5. kept \in Seq(HighSlots(B)) /\ Len(kept) \in Nat
  <2>1. PICK e : Embeds(e, kept, Q.high, I)
    BY <1>4
  <2>2. Len(kept) \in Nat /\ DOMAIN kept = 1 .. Len(kept) /\ kept = [j \in 1 .. Len(kept) |-> kept[j]]
    BY <1>4, LenProperties
  <2> HIDE DEF I
  <2>3. \A j \in 1 .. Len(kept) : kept[j] \in HighSlots(B)
    BY <1>3, <2>1 DEF Embeds
  <2> DEFINE T == HighSlots(B)
  <2> HIDE DEF T
  <2>4. kept \in [1 .. Len(kept) -> T]
    BY <2>2, <2>3 DEF T
  <2>5. kept \in Seq(T)
    BY <2>2, <2>4, SeqDef
  <2>6. QED
    BY <2>2, <2>5 DEF T
<1>6. f \in Int
  BY <1>1, <1>5 DEF QueuesOf
<1> HIDE DEF f
<1>7. recycled \in QueuesOf(B) /\ recycled.high = kept
  BY <1>5, <1>6 DEF QueuesOf
<1>8. R = [Queue!getSlot(recycled) EXCEPT !.high = Queue!jumpQueue(@, new)]
  BY DEF Queue!scheduleEstopPacket, kept, f
<1>9. new \in HighSlots(B)
  BY DEF HighSlots, Queue!Slot
<1> HIDE DEF recycled, new, R, I
<1> DEFINE G == Queue!getSlot(recycled)
           h == <<new>> \o kept
<1>10. G \in QueuesOf(B) /\ G.high = kept
  BY <1>7, SlotTaken
<1>11. R = [G EXCEPT !.high = <<new>> \o G.high]
  BY <1>8 DEF Queue!jumpQueue
<1> HIDE DEF G
<1>12. R = [G EXCEPT !.high = h]
  BY <1>10, <1>11
<1>13. h \in Seq(HighSlots(B))
  BY <1>5, <1>9, ConsElements
<1> HIDE DEF h
<1>14. QED
  BY <1>10, <1>12, <1>13, NewHigh DEF R

\* A slot that is sent leaves its queue: no slot here is repeated under a loco's number
\* and none is a coil's.
LEMMA SlotLeaves ==
  ASSUME NEW A, NEW Q \in QueuesOf(A), NEW which \in {"high", "low"}, NEW i \in 1 .. Len(Q[which])
  PROVE  /\ Queue!scheduleNextInternal(Q, which, i, 0) \in QueuesOf(A)
         /\ Q[which][i].packet \in A \cup FnPackets
<1> DEFINE s == Q[which][i]
           w == Queue!RemoveAt(Q[which], i)
           sent == [Q EXCEPT !.last = Queue!locoId(s)]
           removed == [sent EXCEPT ![which] = w]
           R == Queue!scheduleNextInternal(Q, which, i, 0)
<1>1. Q.high \in Seq(HighSlots(A)) /\ Q.low \in Seq(LowSlots) /\ Q.free \in Int
  BY DEF QueuesOf
<1>2. /\ s.type \in {"SPEED"} \cup FnTypes /\ s.union \in Locos \cup {0}
      /\ Queue!locoId(s) = s.union
      /\ s.union = 0 \/ s.repeats = 0
      /\ s.packet \in A \cup FnPackets
  <2>1. CASE which = "high"
    <3>1. s \in HighSlots(A)
      BY <1>1, <2>1, ElementOfSeq
    <3> HIDE DEF s
    <3>2. QED
      BY <3>1, HighSlot
  <2>2. CASE which = "low"
    <3>1. s \in LowSlots
      BY <1>1, <2>2, ElementOfSeq
    <3> HIDE DEF s
    <3>2. QED
      BY <3>1, LowSlot
  <2>3. QED
    BY <2>1, <2>2
<1>3. Queue!locoId(s) \in Nat /\ s.type # "ACC_ON"
  <2>1. s.union \in Nat
    BY <1>2, LocoIdIsUnion
  <2>2. QED
    BY <1>2, <2>1, FnApart
<1>4. R = [removed EXCEPT !.free = @ + 1]
  <2>1. ~(Queue!locoId(s) # 0 /\ s.repeats > 0)
    <3> HIDE DEF s
    <3>1. s.repeats = 0 => ~(s.repeats > 0)
      OBVIOUS
    <3>2. QED
      BY <1>2, <3>1
  <2>2. removed = [sent EXCEPT ![which] = Queue!RemoveAt(@, i)]
    BY DEF QueuesOf
  <2>3. QED
    BY <1>3, <2>1, <2>2 DEF Queue!scheduleNextInternal
<1>5. removed \in QueuesOf(A) /\ removed.free = Q.free
  <2>1. sent \in QueuesOf(A) /\ sent.free = Q.free
    BY <1>3 DEF QueuesOf
  <2>2. CASE which = "high"
    <3>1. w = RemoveAt(Q.high, i)
      BY <2>2 DEF Queue!RemoveAt, RemoveAt
    <3>2. w \in Seq(HighSlots(A))
      BY <1>1, <2>2, <3>1, RemoveAtElements
    <3> HIDE DEF w, sent
    <3>3. removed = [sent EXCEPT !.high = w]
      BY <2>2
    <3>4. QED
      BY <2>1, <3>2, <3>3 DEF QueuesOf
  <2>3. CASE which = "low"
    <3>1. w = RemoveAt(Q.low, i)
      BY <2>3 DEF Queue!RemoveAt, RemoveAt
    <3>2. w \in Seq(LowSlots)
      BY <1>1, <2>3, <3>1, RemoveAtElements
    <3> HIDE DEF w, sent
    <3>3. removed = [sent EXCEPT !.low = w]
      BY <2>3
    <3>4. QED
      BY <2>1, <3>2, <3>3 DEF QueuesOf
  <2>4. QED
    BY <2>2, <2>3
<1> HIDE DEF removed, R
<1>6. R \in QueuesOf(A)
  <2> DEFINE f == removed.free + 1
  <2>1. f \in Int
    BY <1>1, <1>5
  <2>2. R = [removed EXCEPT !.free = f]
    BY <1>4
  <2> HIDE DEF f
  <2>3. QED
    BY <1>5, <2>1, <2>2, NewFree
<1>7. QED
  BY <1>2, <1>6 DEF R

\* What scheduleNext sends is queued, or is the idle packet.
LEMMA NextSent ==
  ASSUME NEW A, NEW Q \in QueuesOf(A), NEW force \in BOOLEAN
  PROVE  LET n == Queue!scheduleNext(Q, force, 0)
         IN  n.q \in QueuesOf(A) /\ n.packet \in A \cup FnPackets \cup {Queue!IdlePacket}
<1> DEFINE n == Queue!scheduleNext(Q, force, 0)
           which == Queue!Source(Q, 0)
           i == Queue!Candidate(Q, which, 0)
<1>1. /\ Q.high \in Seq(HighSlots(A)) /\ DOMAIN Q.high = 1 .. Len(Q.high) /\ Len(Q.high) \in Nat
      /\ Q.low \in Seq(LowSlots) /\ DOMAIN Q.low = 1 .. Len(Q.low) /\ Len(Q.low) \in Nat
  BY QueueParts
<1>2. CASE which = "none"
  <2>1. n = [ok |-> force, packet |-> Queue!IdlePacket,
             q |-> IF force THEN [Q EXCEPT !.last = 0] ELSE Q]
    BY <1>2 DEF Queue!scheduleNext
  <2>2. [Q EXCEPT !.last = 0] \in QueuesOf(A)
    BY DEF QueuesOf
  <2>3. QED
    BY <2>1, <2>2
<1>3. CASE which # "none"
  <2>1. which \in {"high", "low"} /\ i # 0
    BY <1>3 DEF Queue!Source
  <2> DEFINE found == {j \in DOMAIN Q[which] : Queue!Sendable(Q, Q[which][j], 0)}
  <2>2. i = IF found = {} THEN 0 ELSE Queue!Min(found)
    BY DEF Queue!Candidate, Queue!FirstOf
  <2>3. DOMAIN Q[which] = 1 .. Len(Q[which]) /\ Len(Q[which]) \in Nat
    BY <1>1, <2>1
  <2>4. n = [ok |-> TRUE, packet |-> Q[which][i].packet,
             q |-> Queue!scheduleNextInternal(Q, which, i, 0)]
    BY <1>3 DEF Queue!scheduleNext
  <2> HIDE DEF which, i
  <2>5. i \in 1 .. Len(Q[which])
    <3>1. found \subseteq 1 .. Len(Q[which])
      BY <2>3
    <3>2. i \in found
      <4> HIDE DEF found
      <4>1. QED
        BY <2>1, <2>2, <2>3, <3>1, FirstFound
    <3>3. QED
      BY <3>1, <3>2
  <2>6. QED
    BY <2>1, <2>4, <2>5, SlotLeaves
<1>4. QED
  BY <1>2, <1>3

-----------------------------------------------------------------------------
(* Speed packets for the locos of a table.                                 *)

\* While the lock is as it is, a loco of L may be sent any speed;
LEMMA DrivingQueued ==
  ASSUME NEW L, L \subseteq Locos, estopIsLocked \in BOOLEAN,
         NEW Q \in QueuesOf(Driven(L, estopIsLocked)), NEW T, T \in Tables, NEW o \in Objs,
         T.slot[o].loco \in L, NEW code \in Codes
  PROVE  setThrottleDCC(Q, T, o, code) \in QueuesOf(Driven(L, estopIsLocked))
<1> DEFINE l == T.slot[o].loco
           own == IF T.slot[o].consistReverse THEN Reversed(code) ELSE code
           sent == IF estopIsLocked THEN SameDirection(own, 1) ELSE own
           p == Queue!SpeedPacket(l, sent)
           A == Driven(L, estopIsLocked)
<1>1. o # Null /\ l \in L /\ l \in Locos
  BY DEF Objs, Null
<1>2. setThrottleDCC(Q, T, o, code) =
         IF Speed(sent) = 1 THEN Queue!scheduleEstopPacket(Q, p, 4, l)
                            ELSE Queue!scheduleDCCSpeedPacket(Q, p, 0, l)
  BY <1>1 DEF setThrottleDCC
<1>3. own \in Codes
  BY CodesRight
<1> HIDE DEF own
<1>4. sent \in Codes /\ (estopIsLocked => Speed(sent) = 1)
  BY <1>3, CodesRight
<1> HIDE DEF sent
<1>5. p \in SpeedPackets /\ p.to = l /\ p.val = sent
  BY <1>1, <1>4 DEF SpeedPackets, Queue!SpeedPacket, Queue!Packet
<1>6. A \subseteq SpeedPackets
  BY DEF Driven
<1>7. p \in A
  BY <1>1, <1>4, <1>5 DEF Driven, Stops
<1> HIDE DEF p, A, l
<1>8. CASE Speed(sent) = 1
  <2>1. Stops(p)
    BY <1>5, <1>8 DEF Stops
  <2>2. Queue!scheduleEstopPacket(Q, p, 4, l) \in QueuesOf(A)
    <3>1. Q \in QueuesOf(A)
      BY DEF A
    <3>2. \A x \in A : (l # 0 /\ (x.to # l \/ Stops(x))) => x \in A
      OBVIOUS
    <3>3. QED
      BY <1>1, <1>6, <1>7, <2>1, <3>1, <3>2, EstopQueued
  <2>3. QED
    BY <1>2, <1>8, <2>2 DEF A
<1>9. CASE Speed(sent) # 1
  <2>1. Queue!scheduleDCCSpeedPacket(Q, p, 0, l) \in QueuesOf(A)
    <3>1. Q \in QueuesOf(A)
      BY DEF A
    <3>2. QED
      BY <1>1, <1>5, <1>6, <1>7, <3>1, SpeedQueued
  <2>2. QED
    BY <1>2, <1>9, <2>1 DEF A
<1>10. QED
  BY <1>8, <1>9

\* an emergency stop for one loco leaves nothing that drives it;
LEMMA LocoStopped ==
  ASSUME NEW L, L \subseteq Locos, estopIsLocked \in BOOLEAN,
         NEW Q \in QueuesOf(Driven(L, estopIsLocked)), NEW T, T \in Tables, NEW o \in Objs,
         T.slot[o].loco \in Locos
  PROVE  setThrottleDCC(Q, T, o, 1) \in QueuesOf(Driven(L \ {T.slot[o].loco}, estopIsLocked))
<1> DEFINE l == T.slot[o].loco
           own == IF T.slot[o].consistReverse THEN Reversed(1) ELSE 1
           sent == IF estopIsLocked THEN SameDirection(own, 1) ELSE own
           p == Queue!SpeedPacket(l, sent)
           A == Driven(L, estopIsLocked)
           B == Driven(L \ {l}, estopIsLocked)
<1>1. o # Null /\ l \in Locos
  BY DEF Objs, Null
<1>2. setThrottleDCC(Q, T, o, 1) =
         IF Speed(sent) = 1 THEN Queue!scheduleEstopPacket(Q, p, 4, l)
                            ELSE Queue!scheduleDCCSpeedPacket(Q, p, 0, l)
  BY <1>1 DEF setThrottleDCC
<1>3. own \in Codes /\ Speed(own) = 1
  <2>1. 1 \in Codes
    BY TableAssumption DEF Codes
  <2>2. QED
    BY <2>1, CodesRight
<1> HIDE DEF own
<1>4. sent \in Codes /\ Speed(sent) = 1
  BY <1>3, CodesRight
<1> HIDE DEF sent
<1>5. p \in SpeedPackets /\ p.to = l /\ p.val = sent
  BY <1>1, <1>4 DEF SpeedPackets, Queue!SpeedPacket, Queue!Packet
<1>6. Stops(p) /\ p \in B /\ A \subseteq SpeedPackets /\ B \subseteq SpeedPackets
  BY <1>4, <1>5 DEF Stops, Driven
<1>7. \A x \in A : (l # 0 /\ (x.to # l \/ Stops(x))) => x \in B
  BY DEF Driven
<1> HIDE DEF p, A, B, l
<1>8. Queue!scheduleEstopPacket(Q, p, 4, l) \in QueuesOf(B)
  <2>1. Q \in QueuesOf(A)
    BY DEF A
  <2>2. QED
    BY <1>1, <1>6, <1>7, <2>1, EstopQueued
<1>9. QED
  BY <1>2, <1>4, <1>8 DEF B, l

\* and one for all locos nothing that drives any.
LEMMA AllStopped ==
  ASSUME NEW L, L \subseteq Locos, NEW locked \in BOOLEAN,
         NEW Q \in QueuesOf(Driven(L, locked)), NEW code \in Codes, Speed(code) = 1
  PROVE  Queue!scheduleEstopPacket(Q, Queue!SpeedPacket(0, code), 4, 0) \in QueuesOf(Driven({}, TRUE))
<1> DEFINE p == Queue!SpeedPacket(0, code)
           A == Driven(L, locked)
           B == Driven({}, TRUE)
<1>1. p \in SpeedPackets /\ p.val = code
  BY DEF SpeedPackets, Queue!SpeedPacket, Queue!Packet
<1>2. Stops(p) /\ p \in B /\ A \subseteq SpeedPackets /\ B \subseteq SpeedPackets
  BY <1>1 DEF Stops, Driven
<1>3. 0 \in Locos \cup {0} /\ \A x \in A : (0 # 0 /\ (x.to # 0 \/ Stops(x))) => x \in B
  OBVIOUS
<1> HIDE DEF p, A, B
<1>4. Q \in QueuesOf(A)
  BY DEF A
<1>5. Queue!scheduleEstopPacket(Q, p, 4, 0) \in QueuesOf(B)
  BY <1>2, <1>3, <1>4, EstopQueued
<1>6. QED
  BY <1>5 DEF p, B

LEMMA BroadcastStops ==
  ASSUME NEW L, L \subseteq Locos, estopIsLocked \in BOOLEAN,
         NEW Q \in QueuesOf(Driven(L, estopIsLocked)), NEW T
  PROVE  setThrottleDCC(Q, T, Null, 1) \in QueuesOf(Driven({}, TRUE))
<1> DEFINE sent == IF estopIsLocked THEN SameDirection(1, 1) ELSE 1
<1>1. sent \in Codes /\ Speed(sent) = 1
  <2>1. 1 \in Codes
    BY TableAssumption DEF Codes
  <2>2. QED
    BY <2>1, CodesRight
<1>2. setThrottleDCC(Q, T, Null, 1) =
         IF Speed(sent) = 1 THEN Queue!scheduleEstopPacket(Q, Queue!SpeedPacket(0, sent), 4, 0)
                            ELSE Queue!scheduleDCCSpeedPacket(Q, Queue!SpeedPacket(0, sent), 0, 0)
  BY DEF setThrottleDCC
<1> HIDE DEF sent
<1>3. QED
  BY <1>1, <1>2, AllStopped

\* Fewer locos and a lock allow fewer packets.
LEMMA DrivenGrows ==
  ASSUME NEW L, NEW M, L \subseteq M, NEW locked, NEW Q \in QueuesOf(Driven(L, locked))
  PROVE  /\ Q \in QueuesOf(Driven(M, locked))
         /\ locked \in BOOLEAN => Q \in QueuesOf(Driven(M, FALSE))
<1>1. Driven(L, locked) \subseteq Driven(M, locked)
  BY DEF Driven
<1>2. locked \in BOOLEAN => Driven(L, locked) \subseteq Driven(M, FALSE)
  BY DEF Driven
<1>3. QED
  BY <1>1, <1>2, QueuesGrow

LEMMA StopsAllowed ==
  ASSUME NEW L, NEW locked, NEW Q \in QueuesOf(Driven({}, TRUE))
  PROVE  Q \in QueuesOf(Driven(L, locked))
<1>1. Driven({}, TRUE) \subseteq Driven(L, locked)
  BY DEF Driven
<1>2. QED
  BY <1>1, QueuesGrow

-----------------------------------------------------------------------------
(* Changes of what the slots hold that leave lists and consists alone.     *)

LiveLocos(T) == {T.slot[o].loco : o \in Live(T)}

Alike(T, t) ==
    /\ t \in Tables /\ t.chain = T.chain /\ t.recycler = T.recycler /\ t.count = T.count
    /\ t.chainModified = T.chainModified
    /\ \A x \in Objs : /\ t.slot[x].loco = T.slot[x].loco
                       /\ t.slot[x].consistLead = T.slot[x].consistLead
                       /\ t.slot[x].consistNext = T.slot[x].consistNext
                       /\ t.slot[x].consistReverse = T.slot[x].consistReverse

LEMMA AlikeSound ==
  ASSUME NEW T, Sound(T), NotReversed(T, {}), NEW t, Alike(T, t)
  PROVE  Sound(t) /\ NotReversed(t, {}) /\ Live(t) = Live(T) /\ LiveLocos(t) = LiveLocos(T)
<1>1. T \in Tables /\ Lists(T) /\ Links(T)
  BY DEF Sound
<1>2. Lists(t) /\ Live(t) = Live(T)
  <2>1. SameLists(T, t)
    BY DEF SameLists, Alike
  <2>2. QED
    BY <1>1, <2>1, SameListsSound
<1>3. Live(T) \subseteq Objs
  BY <1>1, LiveObjs
<1>4. Links(t)
  <2> DEFINE N == {x \in Objs : FALSE}
  <2>1. Live(t) = Live(T) \cup N /\ \A x \in N : FALSE
    BY <1>2
  <2>2. \A x \in Live(T) : /\ t.slot[x].consistLead = T.slot[x].consistLead
                           /\ t.slot[x].consistNext = T.slot[x].consistNext
    BY <1>3 DEF Alike
  <2> HIDE DEF N
  <2>3. QED
    BY <1>1, <2>1, <2>2, LinksGrow
<1>5. Sound(t)
  BY <1>2, <1>4 DEF Sound, Alike
<1>6. \A x \in Live(T) : /\ t.slot[x].consistReverse = T.slot[x].consistReverse
                         /\ inConsist(t, x) <=> inConsist(T, x)
                         /\ t.slot[x].loco = T.slot[x].loco
  BY <1>3 DEF Alike, inConsist, isConsistLead, isConsistFollower
<1>7. NotReversed(t, {})
  BY <1>2, <1>6 DEF NotReversed
<1>8. LiveLocos(t) = LiveLocos(T)
  BY <1>2, <1>6 DEF LiveLocos
<1>9. QED
  BY <1>2, <1>5, <1>7, <1>8

LEMMA AlikeItself == ASSUME NEW T \in Tables PROVE Alike(T, T)
  BY DEF Alike

LEMMA AlikeAgain ==
  ASSUME NEW T, NEW t, NEW u, Alike(T, t), Alike(t, u)
  PROVE  Alike(T, u)
  BY DEF Alike

\* New slots that keep loco and links.
LEMMA NewSlots ==
  ASSUME NEW T \in Tables, NEW s \in [Objs -> SlotRecs],
         \A x \in Objs : /\ s[x].loco = T.slot[x].loco
                         /\ s[x].consistLead = T.slot[x].consistLead
                         /\ s[x].consistNext = T.slot[x].consistNext
                         /\ s[x].consistReverse = T.slot[x].consistReverse
  PROVE  Alike(T, [T EXCEPT !.slot = s]) /\ [T EXCEPT !.slot = s].slot = s
  BY DEF Alike, Tables

LEMMA LocosOfLive ==
  ASSUME NEW T, Sound(T)
  PROVE  /\ LiveLocos(T) \subseteq Locos /\ T \in Tables
         /\ \A o \in Live(T) : o \in Objs /\ T.slot[o].loco \in LiveLocos(T)
  BY LiveObjs DEF LiveLocos, Sound, Lists

\* One loco of a consist is sent a speed.
LEMMA OneThrottled ==
  ASSUME NEW T, NEW L, L \subseteq Locos, estopIsLocked \in BOOLEAN,
         NEW acc, Alike(T, acc.t), acc.q \in QueuesOf(Driven(L, estopIsLocked)),
         NEW m \in Objs, T.slot[m].loco \in L, NEW code \in Codes
  PROVE  LET r == throttleOne(acc, m, code)
         IN  /\ r \in [t : {r.t}, q : {r.q}]
             /\ Alike(T, r.t) /\ r.q \in QueuesOf(Driven(L, estopIsLocked))
<1> DEFINE t == acc.t
           s == [t.slot EXCEPT ![m] = [@ EXCEPT !.speedCode = code]]
           u == [t EXCEPT !.slot = s]
           r == throttleOne(acc, m, code)
<1>1. t \in Tables /\ t.slot \in [Objs -> SlotRecs] /\ t.slot[m].loco = T.slot[m].loco
  BY DEF Alike, Tables
<1>2. r = [t |-> [acc.t EXCEPT !.slot[m].speedCode = code],
           q |-> setThrottleDCC(acc.q, acc.t, m, code)]
  BY DEF throttleOne
<1>3. [acc.t EXCEPT !.slot[m].speedCode = code] = u
  BY <1>1
<1>4. setThrottleDCC(acc.q, t, m, code) \in QueuesOf(Driven(L, estopIsLocked))
  <2> HIDE DEF t
  <2>1. acc.q \in QueuesOf(Driven(L, estopIsLocked))
    OBVIOUS
  <2>2. QED
    BY <1>1, <2>1, DrivingQueued
<1>5. Alike(t, u)
  <2> HIDE DEF t
  <2>1. /\ s \in [Objs -> SlotRecs]
        /\ \A x \in Objs : /\ s[x].loco = t.slot[x].loco
                           /\ s[x].consistLead = t.slot[x].consistLead
                           /\ s[x].consistNext = t.slot[x].consistNext
                           /\ s[x].consistReverse = t.slot[x].consistReverse
    BY <1>1 DEF SlotRecs
  <2> HIDE DEF s
  <2>2. QED
    BY <1>1, <2>1, NewSlots
<1> HIDE DEF u, s
<1>6. Alike(T, u)
  BY <1>5, AlikeAgain
<1>7. r = [t |-> u, q |-> setThrottleDCC(acc.q, acc.t, m, code)]
  BY <1>2, <1>3
<1> HIDE DEF r
<1>8. QED
  BY <1>4, <1>6, <1>7 DEF r

\* The lead's speed goes to all its consist.
LEMMA ConsistThrottled ==
  ASSUME NEW T, Sound(T), NEW L, L = LiveLocos(T), estopIsLocked \in BOOLEAN,
         NEW Q \in QueuesOf(Driven(L, estopIsLocked)),
         NEW o \in Live(T), T.slot[o].consistLead = Null, NEW code \in Codes
  PROVE  LET r == setThrottle2(Q, T, o, code)
         IN  Alike(T, r.t) /\ r.q \in QueuesOf(Driven(L, estopIsLocked))
<1> DEFINE ms == Members(T, o)
           n == Len(ms)
           Queued == QueuesOf(Driven(L, estopIsLocked))
           Accepted == [t : {t \in Tables : Alike(T, t)}, q : Queued]
           start == [t |-> T, q |-> Q]
           one(a, k) == throttleOne(a, ms[k], code)
           G == [x \in Accepted \X Nat |-> IF x[2] \in 1 .. n THEN one(x[1], x[2]) ELSE x[1]]
           F == CHOOSE F : F = [k \in 0 .. n |->
                    IF k = 0 THEN start ELSE throttleOne(F[k - 1], ms[k], code)]
<1>1. n \in Nat /\ \A k \in 1 .. n : ms[k] \in Objs /\ T.slot[ms[k]].loco \in L
  <2>1. n \in Nat /\ \A k \in 1 .. n : ms[k] \in Live(T)
    <3>1. Path(T, o, ms)
      BY MembersPath
    <3>2. QED
      BY <3>1 DEF Path
  <2>2. QED
    BY <2>1, LocosOfLive
<1>2. L \subseteq Locos /\ start \in Accepted
  BY LocosOfLive, AlikeItself
<1>3. ASSUME NEW a \in Accepted, NEW k \in 1 .. n PROVE one(a, k) \in Accepted
  <2>1. Alike(T, a.t) /\ a.q \in Queued
    OBVIOUS
  <2>2. LET r == one(a, k) IN r \in [t : {r.t}, q : {r.q}] /\ Alike(T, r.t) /\ r.q \in Queued
    BY <1>1, <1>2, <2>1, OneThrottled, ZenonT(60)
  <2> HIDE DEF one, Queued
  <2>3. QED
    BY <2>2 DEF Alike
<1>4. setThrottle2(Q, T, o, code) = F[n]
  BY DEF setThrottle2
<1> HIDE DEF ms, n, Accepted, start
<1>5. PICK f : f = [k \in 0 .. n |-> IF k = 0 THEN start ELSE throttleOne(f[k - 1], ms[k], code)]
  <2>1. G \in [Accepted \X Nat -> Accepted]
        /\ \A a \in Accepted, k \in 1 .. n : G[<<a, k>>] = one(a, k)
    <3>1. \A a \in Accepted, k \in Nat :
             (IF k \in 1 .. n THEN one(a, k) ELSE a) \in Accepted
      BY <1>3
    <3> HIDE DEF one
    <3>2. QED
      BY <1>1, <3>1
  <2> HIDE DEF G
  <2>2. PICK f : Walked(f, n, Accepted, start, G)
    BY <1>1, <1>2, <2>1, WalkExists
  <2>3. ASSUME NEW k \in 0 .. n
        PROVE  f[k] = IF k = 0 THEN start ELSE one(f[k - 1], k)
    <3>1. f[k] = IF k = 0 THEN start ELSE G[<<f[k - 1], k>>]
      BY <2>2 DEF Walked
    <3>2. k # 0 => k - 1 \in 0 .. n /\ k \in 1 .. n
      BY <1>1
    <3>3. k # 0 => f[k - 1] \in Accepted
      BY <2>2, <3>2 DEF Walked
    <3> HIDE DEF one
    <3>4. QED
      BY <2>1, <3>1, <3>2, <3>3
  <2>4. f = [k \in 0 .. n |-> f[k]]
    BY <2>2 DEF Walked
  <2>5. f = [k \in 0 .. n |-> IF k = 0 THEN start ELSE throttleOne(f[k - 1], ms[k], code)]
    BY <2>3, <2>4
  <2>6. QED
    BY <2>5
<1>6. F = [k \in 0 .. n |-> IF k = 0 THEN start ELSE throttleOne(F[k - 1], ms[k], code)]
  BY <1>5
<1> HIDE DEF F
<1> DEFINE U == {k \in 0 .. n : F[k] \in Accepted}
<1>7. 0 .. n \subseteq U
  <2>1. 0 \in U
    BY <1>1, <1>2, <1>6
  <2>2. ASSUME NEW k \in 0 .. n - 1, k \in U PROVE k + 1 \in U
    <3>1. F[k] \in Accepted /\ k + 1 \in 0 .. n /\ k + 1 \in 1 .. n /\ (k + 1) - 1 = k /\ k + 1 # 0
      BY <1>1, <2>2
    <3>2. F[k + 1] = one(F[k], k + 1)
      BY <1>6, <3>1
    <3> HIDE DEF one
    <3>3. one(F[k], k + 1) \in Accepted
      BY <1>3, <3>1
    <3>4. QED
      BY <3>1, <3>2, <3>3
  <2> HIDE DEF U
  <2>3. QED
    BY <1>1, <2>1, <2>2, BoundedInduction
<1>8. F[n] \in Accepted
  BY <1>1, <1>7
<1>9. QED
  BY <1>4, <1>8 DEF Accepted

LEMMA AlikeGrows ==
  ASSUME NEW T, Sound(T), NEW t, Alike(T, t)
  PROVE  Grows(T, t)
<1>1. Live(t) = Live(T)
  BY DEF Alike, Live
<1>2. QED
  BY <1>1, LocosOfLive DEF Alike, Grows

LEMMA GrowsAgain ==
  ASSUME NEW T, NEW t, NEW u, Grows(T, t), Grows(t, u)
  PROVE  Grows(T, u)
  BY DEF Grows

LEMMA GrowsLocos ==
  ASSUME NEW T, NEW t, Grows(T, t)
  PROVE  Live(T) \subseteq Live(t) /\ LiveLocos(T) \subseteq LiveLocos(t)
  BY DEF Grows, LiveLocos

\* A slot is found or made, and the table grows at most.
LEMMA SlotMade ==
  ASSUME NEW T, Sound(T), NotReversed(T, {}), NEW l \in Locos
  PROVE  LET g == getSlot(T, l)
         IN  /\ Sound(g.t) /\ NotReversed(g.t, {}) /\ Grows(T, g.t)
             /\ g.obj # Null => g.obj \in Objs /\ g.obj \in Live(g.t)
<1> DEFINE g == getSlot(T, l)
<1>1. /\ Sound(g.t) /\ Keeps(T, g.t)
      /\ g.obj # Null => g.obj \in Objs /\ g.obj \in Live(g.t)
  BY GetSlotSound
<1>2. NotReversed(g.t, {})
  BY GetSlotNotReversed
<1> HIDE DEF g
<1>3. Grows(T, g.t)
  BY <1>1 DEF Keeps, Grows
<1>4. QED
  BY <1>1, <1>2, <1>3 DEF g

\* A throttle for a loco.
LEMMA ThrottleRight ==
  ASSUME NEW T, Sound(T), NotReversed(T, {}), estopIsLocked \in BOOLEAN,
         NEW Q \in QueuesOf(Driven(LiveLocos(T), estopIsLocked)), NEW l \in Locos,
         NEW code \in Codes
  PROVE  LET r == setThrottle(Q, T, l, code)
         IN  /\ Sound(r.t) /\ NotReversed(r.t, {}) /\ Grows(T, r.t)
             /\ r.q \in QueuesOf(Driven(LiveLocos(r.t), estopIsLocked))
<1> DEFINE got == getSlot(T, l)
           t == got.t
           o == got.obj
           followers == Range(Members(t, o)) \ {o}
           s == [x \in Objs |->
                    IF x = o THEN [t.slot[x] EXCEPT !.targetSpeed = code]
                    ELSE IF x \in followers
                    THEN [t.slot[x] EXCEPT !.targetSpeed =
                             IF t.slot[x].consistReverse THEN Reversed(code) ELSE code]
                    ELSE t.slot[x]]
           aimed == [t EXCEPT !.slot = s]
           ignored == \/ o = Null
                      \/ isConsistFollower(t, o)
                      \/ t.slot[o].targetSpeed = code
           r == setThrottle(Q, T, l, code)
<1>1. r = IF ignored THEN [t |-> t, q |-> Q] ELSE setThrottle2(Q, aimed, o, code)
  BY DEF setThrottle
<1>2. /\ Sound(t) /\ NotReversed(t, {}) /\ Grows(T, t)
      /\ o # Null => o \in Objs /\ o \in Live(t)
  BY SlotMade
<1> HIDE DEF got, r, followers
<1>3. Q \in QueuesOf(Driven(LiveLocos(t), estopIsLocked))
  BY <1>2, GrowsLocos, DrivenGrows
<1>4. CASE ignored
  BY <1>1, <1>2, <1>3, <1>4 DEF r
<1>5. CASE ~ignored
  <2>1. o \in Live(t) /\ t.slot[o].consistLead = Null
    BY <1>2, <1>5 DEF isConsistFollower
  <2>2. t \in Tables /\ t.slot \in [Objs -> SlotRecs]
    BY <1>2 DEF Sound, Tables
  <2> HIDE DEF t, o, ignored
  <2>3. Alike(t, aimed)
    <3>1. Reversed(code) \in Codes
      BY CodesRight
    <3>2. \A x \in Objs : t.slot[x] \in SlotRecs
      BY <2>2
    <3>3. ASSUME NEW x \in Objs
          PROVE  /\ s[x] \in SlotRecs
                 /\ s[x].loco = t.slot[x].loco
                 /\ s[x].consistLead = t.slot[x].consistLead
                 /\ s[x].consistNext = t.slot[x].consistNext
                 /\ s[x].consistReverse = t.slot[x].consistReverse
      <4> DEFINE z == t.slot[x]
                 c == IF z.consistReverse THEN Reversed(code) ELSE code
      <4>1. s[x] = z \/ s[x] = [z EXCEPT !.targetSpeed = code] \/ s[x] = [z EXCEPT !.targetSpeed = c]
        OBVIOUS
      <4>2. z \in SlotRecs /\ c \in Codes
        BY <3>1, <3>2
      <4> HIDE DEF c, z, s
      <4>3. /\ s[x] \in SlotRecs
            /\ s[x].loco = z.loco /\ s[x].consistLead = z.consistLead
            /\ s[x].consistNext = z.consistNext /\ s[x].consistReverse = z.consistReverse
        BY <4>1, <4>2 DEF SlotRecs
      <4>4. QED
        BY <4>3 DEF z
    <3>4. s \in [Objs -> SlotRecs]
      <4>1. s = [x \in Objs |-> s[x]]
        OBVIOUS
      <4> HIDE DEF s
      <4>2. QED
        BY <3>3, <4>1
    <3> HIDE DEF s
    <3>5. QED
      BY <2>2, <3>3, <3>4, NewSlots
  <2> HIDE DEF aimed
  <2>4. /\ Sound(aimed) /\ NotReversed(aimed, {}) /\ Live(aimed) = Live(t)
        /\ LiveLocos(aimed) = LiveLocos(t) /\ Grows(t, aimed)
    BY <1>2, <2>3, AlikeSound, AlikeGrows
  <2>5. o \in Live(aimed) /\ aimed.slot[o].consistLead = Null
    <3>1. o \in Objs
      BY <1>2, <2>1, LocosOfLive
    <3>2. QED
      BY <2>1, <2>3, <2>4, <3>1 DEF Alike
  <2>6. /\ Alike(aimed, r.t)
        /\ r.q \in QueuesOf(Driven(LiveLocos(aimed), estopIsLocked))
    <3>1. Q \in QueuesOf(Driven(LiveLocos(aimed), estopIsLocked))
      BY <1>3, <2>4
    <3>2. QED
      BY <1>1, <1>5, <2>4, <2>5, <3>1, ConsistThrottled
  <2>7. /\ Sound(r.t) /\ NotReversed(r.t, {}) /\ Grows(aimed, r.t)
        /\ LiveLocos(r.t) = LiveLocos(aimed)
    BY <2>4, <2>6, AlikeSound, AlikeGrows
  <2>8. Grows(T, r.t)
    BY <1>2, <2>4, <2>7, GrowsAgain
  <2>9. QED
    BY <2>6, <2>7, <2>8 DEF r
<1>6. QED
  BY <1>4, <1>5

-----------------------------------------------------------------------------
(* The invariant.                                                          *)

DInv ==
    /\ Good
    /\ estopIsLocked \in BOOLEAN
    /\ q \in QueuesOf(Driven(LiveLocos(tb), estopIsLocked))
    /\ nextLocoReminder \in Objs \cup {Null}
    /\ (~tb.chainModified /\ nextLocoReminder # Null) => nextLocoReminder \in Live(tb)
    /\ loopStatus \in LoopStates
    /\ heard.speed \in [Locos -> Codes]

LEMMA TableRight ==
  ASSUME DInv
  PROVE  /\ Sound(tb) /\ tb \in Tables /\ LiveLocos(tb) \subseteq Locos
         /\ ~crashed => NotReversed(tb, {})
  BY LocosOfLive DEF DInv, Good

\* A command that leaves the table sound and every slot where it was, and queues
\* packets for live locos.
LEMMA CommandRight ==
  ASSUME DInv, NEW r, Command(r), Sound(r.t), NotReversed(r.t, {}), Grows(tb, r.t),
         estopIsLocked' \in BOOLEAN,
         r.q \in QueuesOf(Driven(LiveLocos(r.t), estopIsLocked'))
  PROVE  DInv'
<1>1. /\ tb' = r.t /\ q' = r.q /\ crashed' = crashed /\ nextLocoReminder' = nextLocoReminder
      /\ loopStatus' = loopStatus /\ heard' = heard
  BY DEF Command
<1> USE DEF Good
<1>2. Live(tb) \subseteq Live(tb') /\ (tb.chainModified => tb'.chainModified)
  BY <1>1, GrowsLocos DEF Grows
<1>3. LoopStates' = LoopStates
  BY DEF LoopStates
<1>4. Sound(tb') /\ NotReversed(tb', {}) /\ q' \in QueuesOf(Driven(LiveLocos(tb'), estopIsLocked'))
  BY <1>1
<1>5. Good'
  <2>1. ~crashed' /\ crashed' = crashed /\ crashed \in BOOLEAN
    BY DEF Command, DInv
  <2>2. QED
    BY <1>4, <2>1
<1>6. QED
  BY <1>1, <1>2, <1>3, <1>4, <1>5 DEF DInv

LEMMA SetThrottleRight ==
  ASSUME DInv, NEW l \in Locos, NEW code \in Codes, SetThrottle(l, code)
  PROVE  DInv'
<1> DEFINE r == setThrottle(q, tb, l, code)
<1>1. Command(r) /\ estopIsLocked' = estopIsLocked
  BY DEF SetThrottle
<1>2. /\ Sound(r.t) /\ NotReversed(r.t, {}) /\ Grows(tb, r.t)
      /\ r.q \in QueuesOf(Driven(LiveLocos(r.t), estopIsLocked))
  BY <1>1, TableRight, ThrottleRight DEF DInv, Command
<1> HIDE DEF r
<1>3. QED
  BY <1>1, <1>2, CommandRight DEF DInv

\* A command that changes what a slot holds.
LEMMA SlotCommand ==
  ASSUME DInv, NEW t, Sound(t), NotReversed(t, {}), Grows(tb, t), NEW u, Alike(t, u),
         Command([t |-> u, q |-> q]), UNCHANGED estopIsLocked
  PROVE  DInv'
<1> DEFINE r == [t |-> u, q |-> q]
<1>1. Sound(u) /\ NotReversed(u, {}) /\ Grows(tb, u) /\ LiveLocos(tb) \subseteq LiveLocos(u)
  BY AlikeSound, AlikeGrows, GrowsAgain, GrowsLocos
<1>2. q \in QueuesOf(Driven(LiveLocos(u), estopIsLocked))
  BY <1>1, DrivenGrows DEF DInv
<1>3. r.t = u /\ r.q = q /\ Command(r)
  OBVIOUS
<1> HIDE DEF r
<1>4. QED
  BY <1>1, <1>2, <1>3, CommandRight DEF DInv

-----------------------------------------------------------------------------
(* The commands preserve it.                                               *)

LEMMA SetFnRight ==
  ASSUME DInv, NEW l \in Locos, NEW g \in Groups, NEW v \in {"on", "off"}, SetFn(l, g, v)
  PROVE  DInv'
<1> DEFINE got == getSlot(tb, l)
           t == got.t
           o == got.obj
           changed == [t EXCEPT !.slot[o].functions[g] = v, !.slot[o].groupFlags = @ \cup {g}]
           u == IF o = Null THEN t ELSE IF t.slot[o].functions[g] = v THEN t ELSE changed
<1>1. Command([q |-> q, t |-> u]) /\ UNCHANGED estopIsLocked
  BY DEF SetFn
<1>2. /\ Sound(t) /\ NotReversed(t, {}) /\ Grows(tb, t)
      /\ o # Null => o \in Objs
  BY <1>1, TableRight, SlotMade DEF Command
<1> HIDE DEF got, u
<1>3. t \in Tables
  BY <1>2 DEF Sound
<1>4. o # Null => Alike(t, changed)
  <2> HAVE o # Null
  <2> DEFINE z == t.slot[o]
             f == [z.functions EXCEPT ![g] = v]
             y == [z EXCEPT !.functions = f]
             x == [y EXCEPT !.groupFlags = z.groupFlags \cup {g}]
             s == [t.slot EXCEPT ![o] = x]
  <2>1. t.slot \in [Objs -> SlotRecs] /\ o \in Objs /\ z \in SlotRecs
    BY <1>2, <1>3 DEF Tables
  <2>2. f \in [Groups -> {"on", "off"}] /\ z.groupFlags \cup {g} \in SUBSET Groups
    BY <2>1 DEF SlotRecs
  <2>3. changed = [t EXCEPT !.slot = s]
    <3>1. [t EXCEPT !.slot[o].functions[g] = v] = [t EXCEPT !.slot = [t.slot EXCEPT ![o] = y]]
      BY <2>1
    <3> DEFINE d == [t EXCEPT !.slot[o].functions[g] = v]
    <3>2. changed = [d EXCEPT !.slot[o].groupFlags = @ \cup {g}]
      OBVIOUS
    <3>3. d = [t EXCEPT !.slot = [t.slot EXCEPT ![o] = y]]
      BY <3>1
    <3> HIDE DEF d, f
    <3>4. d.slot = [t.slot EXCEPT ![o] = y] /\ d.slot[o] = y /\ y.groupFlags = z.groupFlags
      BY <1>3, <2>1, <3>3 DEF Tables, SlotRecs
    <3>5. [d.slot EXCEPT ![o] = x] = s
      BY <2>1, <3>4
    <3>6. [d EXCEPT !.slot = s] = [t EXCEPT !.slot = s]
      BY <1>3, <3>3 DEF Tables
    <3>7. changed = [d EXCEPT !.slot = [d.slot EXCEPT ![o] = [d.slot[o] EXCEPT !.groupFlags = d.slot[o].groupFlags \cup {g}]]]
      BY <3>2, Zenon
    <3>8. [d.slot[o] EXCEPT !.groupFlags = d.slot[o].groupFlags \cup {g}] = x
      BY <3>4
    <3> HIDE DEF changed, s, x, y, z
    <3>9. QED
      BY <3>5, <3>6, <3>7, <3>8
  <2> HIDE DEF f, changed
  <2>4. /\ x \in SlotRecs /\ x.loco = z.loco /\ x.consistLead = z.consistLead
        /\ x.consistNext = z.consistNext /\ x.consistReverse = z.consistReverse
    <3> HIDE DEF z
    <3>1. z \in SlotRecs
      BY <2>1
    <3>2. QED
      BY <2>2, <3>1 DEF SlotRecs
  <2> HIDE DEF x
  <2>5. /\ s \in [Objs -> SlotRecs]
        /\ \A k \in Objs : /\ s[k].loco = t.slot[k].loco
                           /\ s[k].consistLead = t.slot[k].consistLead
                           /\ s[k].consistNext = t.slot[k].consistNext
                           /\ s[k].consistReverse = t.slot[k].consistReverse
    BY <2>1, <2>4
  <2> HIDE DEF s
  <2>6. QED
    BY <1>3, <2>3, <2>5, NewSlots
<1>5. Alike(t, u)
  BY <1>3, <1>4, AlikeItself DEF u
<1>6. Command([t |-> u, q |-> q])
  BY <1>1
<1> HIDE DEF t
<1>7. QED
  BY <1>1, <1>2, <1>5, <1>6, SlotCommand

\* findSlot finds an object of the list, if any.
LEMMA SlotLive ==
  ASSUME DInv, NEW l, findSlot(tb, l) # Null
  PROVE  /\ findSlot(tb, l) \in Live(tb) /\ findSlot(tb, l) \in Objs
         /\ tb.slot[findSlot(tb, l)].loco = l
         /\ tb \in Tables /\ tb.slot[findSlot(tb, l)] \in SlotRecs
<1>1. tb \in Tables /\ Lists(tb)
  BY TableRight DEF Sound
<1>2. /\ findSlot(tb, l) \in Live(tb) /\ findSlot(tb, l) \in Objs
      /\ tb.slot[findSlot(tb, l)].loco = l
  BY <1>1, FindSlotFinds
<1>3. QED
  BY <1>1, <1>2 DEF Tables

LEMMA SaveSpeedRight ==
  ASSUME DInv, NEW l \in Locos, SaveSpeed(l)
  PROVE  DInv'
<1> DEFINE o == findSlot(tb, l)
           z == tb.slot[o]
           x == [z EXCEPT !.savedSpeedCode = z.targetSpeed]
           s == [tb.slot EXCEPT ![o] = x]
           u == [tb EXCEPT !.slot = s]
<1>1. o # Null /\ UNCHANGED estopIsLocked
      /\ Command([q |-> q, t |-> [tb EXCEPT !.slot[o].savedSpeedCode = tb.slot[o].targetSpeed]])
  BY DEF SaveSpeed
<1>2. o \in Objs /\ tb \in Tables /\ z \in SlotRecs
  BY <1>1, SlotLive
<1> HIDE DEF o
<1>3. tb.slot \in [Objs -> SlotRecs]
  BY <1>2 DEF Tables
<1>4. [tb EXCEPT !.slot[o].savedSpeedCode = tb.slot[o].targetSpeed] = u
  BY <1>2, <1>3
<1>5. /\ x \in SlotRecs /\ x.loco = z.loco /\ x.consistLead = z.consistLead
      /\ x.consistNext = z.consistNext /\ x.consistReverse = z.consistReverse
  <2> HIDE DEF z
  <2>1. QED
    BY <1>2 DEF SlotRecs
<1>6. Alike(tb, u)
  <2> HIDE DEF x
  <2>1. /\ s \in [Objs -> SlotRecs]
        /\ \A k \in Objs : /\ s[k].loco = tb.slot[k].loco
                           /\ s[k].consistLead = tb.slot[k].consistLead
                           /\ s[k].consistNext = tb.slot[k].consistNext
                           /\ s[k].consistReverse = tb.slot[k].consistReverse
    BY <1>2, <1>3, <1>5
  <2> HIDE DEF s
  <2>2. QED
    BY <1>2, <2>1, NewSlots
<1> HIDE DEF u
<1>7. Command([t |-> u, q |-> q])
  BY <1>1, <1>4
<1>8. Sound(tb) /\ NotReversed(tb, {}) /\ Grows(tb, tb)
  BY <1>1, TableRight DEF Command, Grows
<1>9. QED
  BY <1>1, <1>6, <1>7, <1>8, SlotCommand

LEMMA RestoreSpeedRight ==
  ASSUME DInv, NEW l \in Locos, RestoreSpeed(l)
  PROVE  DInv'
<1> DEFINE c == tb.slot[findSlot(tb, l)].savedSpeedCode
<1>1. c \in Codes
  BY SlotLive DEF RestoreSpeed, SlotRecs
<1>2. SetThrottle(l, c)
  BY DEF RestoreSpeed
<1> HIDE DEF c
<1>3. QED
  BY <1>1, <1>2, SetThrottleRight

\* The place of a live object in the list.
LEMMA PlaceFound ==
  ASSUME NEW T \in Tables, NEW o \in Live(T)
  PROVE  LET at == CHOOSE i \in DOMAIN T.chain : T.chain[i] = o
         IN  /\ at \in DOMAIN T.chain /\ T.chain[at] = o
             /\ at \in 1 .. Len(T.chain) /\ Len(T.chain) \in Nat
<1>1. T.chain \in Seq(Objs) /\ DOMAIN T.chain = 1 .. Len(T.chain) /\ Len(T.chain) \in Nat
  BY DEF Tables
<1>2. \E i \in DOMAIN T.chain : T.chain[i] = o
  BY DEF Live, Range
<1>3. QED
  BY <1>1, <1>2

\* Nothing or a live object comes after one.
LEMMA AfterLive ==
  ASSUME NEW T \in Tables, NEW o \in Live(T)
  PROVE  After(T, o) \in Live(T) \cup {Null}
<1> DEFINE at == CHOOSE i \in DOMAIN T.chain : T.chain[i] = o
<1>1. at \in 1 .. Len(T.chain) /\ Len(T.chain) \in Nat
  BY PlaceFound
<1>2. After(T, o) = IF at = Len(T.chain) THEN Null ELSE T.chain[at + 1]
  BY DEF After
<1> HIDE DEF at
<1>3. CASE at = Len(T.chain)
  BY <1>2, <1>3
<1>4. CASE at # Len(T.chain)
  <2>1. at + 1 \in 1 .. Len(T.chain)
    BY <1>1, <1>4
  <2>2. T.chain \in Seq(Objs)
    BY DEF Tables
  <2>3. T.chain[at + 1] \in Live(T)
    BY <2>1, <2>2, LenProperties DEF Live, Range
  <2>4. QED
    BY <1>2, <1>4, <2>3
<1>5. QED
  BY <1>3, <1>4

LEMMA ForgetLocoRight ==
  ASSUME DInv, NEW l \in Locos, ForgetLoco(l)
  PROVE  DInv'
<1> DEFINE o == findSlot(tb, l)
<1>1. /\ Forget(l) /\ Resumes(o) /\ q' = setThrottleDCC(q, tb, o, 1)
      /\ loopStatus' = loopStatus /\ estopIsLocked' = estopIsLocked /\ heard' = heard
  BY DEF ForgetLoco
<1>2. Good
  BY DEF DInv
<1>3. /\ Good' /\ crashed' = crashed /\ tb'.chainModified /\ o \in Live(tb)
      /\ \A x \in Live(tb) \ {o} : x \in Live(tb') /\ tb'.slot[x].loco = tb.slot[x].loco
  BY <1>1, <1>2, ForgetRight
<1>4. o \in Objs /\ tb.slot[o].loco = l /\ tb \in Tables
  <2>1. o # Null
    BY <1>1 DEF Forget
  <2>2. QED
    BY <2>1, SlotLive
<1> HIDE DEF o
<1>5. nextLocoReminder' \in Objs \cup {Null}
  <2>1. After(tb, o) \in Objs \cup {Null}
    BY <1>3, <1>4, AfterLive, LiveObjs
  <2>2. nextLocoReminder' = IF nextLocoReminder = o THEN After(tb, o) ELSE nextLocoReminder
    BY <1>1 DEF Resumes
  <2>3. QED
    BY <2>1, <2>2 DEF DInv
<1>6. q' \in QueuesOf(Driven(LiveLocos(tb) \ {l}, estopIsLocked))
  <2>1. LiveLocos(tb) \subseteq Locos
    BY TableRight
  <2>2. QED
    BY <1>1, <1>4, <2>1, LocoStopped DEF DInv
<1>7. LiveLocos(tb) \ {l} \subseteq LiveLocos(tb')
  BY <1>3, <1>4 DEF LiveLocos
<1>8. q' \in QueuesOf(Driven(LiveLocos(tb'), estopIsLocked'))
  <2> DEFINE L == LiveLocos(tb) \ {l}
             M == LiveLocos(tb')
  <2>1. L \subseteq M /\ q' \in QueuesOf(Driven(L, estopIsLocked))
    BY <1>6, <1>7
  <2> HIDE DEF L, M
  <2>2. q' \in QueuesOf(Driven(M, estopIsLocked))
    BY <2>1, DrivenGrows
  <2>3. QED
    BY <1>1, <2>2 DEF M
<1>9. LoopStates' = LoopStates
  BY DEF LoopStates
<1>10. QED
  BY <1>1, <1>3, <1>5, <1>8, <1>9 DEF DInv

LEMMA ForgetAllRight ==
  ASSUME DInv, ForgetAllLocos
  PROVE  DInv'
<1>1. /\ tb' = forgetAll(tb) /\ crashed' = crashed /\ nextLocoReminder' = Null
      /\ q' = setThrottleDCC(q, tb, Null, 1)
      /\ loopStatus' = loopStatus /\ estopIsLocked' = estopIsLocked /\ heard' = heard
  BY DEF ForgetAllLocos, ForgetAll
<1>2. tb' = forgetAll(EmptyTable)
  BY <1>1 DEF forgetAll
<1>3. Sound(tb') /\ Live(tb') = {}
  BY <1>2, EmptySound
<1>4. NotReversed(tb', {})
  BY <1>3 DEF NotReversed
<1>5. q' \in QueuesOf(Driven({}, TRUE))
  <2>1. LiveLocos(tb) \subseteq Locos
    BY TableRight
  <2>2. QED
    BY <1>1, <2>1, BroadcastStops DEF DInv
<1>6. q' \in QueuesOf(Driven(LiveLocos(tb'), estopIsLocked'))
  BY <1>5, StopsAllowed
<1>7. LoopStates' = LoopStates
  BY DEF LoopStates
<1>8. Good'
  <2>1. ~crashed'
    BY <1>1 DEF ForgetAllLocos, ForgetAll
  <2>2. QED
    BY <1>1, <1>3, <1>4, <2>1 DEF DInv, Good
<1>9. QED
  BY <1>1, <1>3, <1>6, <1>7, <1>8 DEF DInv

LEMMA EstopAllRight ==
  ASSUME DInv, EstopAll
  PROVE  DInv'
<1> DEFINE stop(x) == SameDirection(tb.slot[x].targetSpeed, 1)
           s == [x \in Objs |->
                    IF x \in Range(tb.chain)
                    THEN [tb.slot[x] EXCEPT !.speedCode = stop(x), !.targetSpeed = stop(x)]
                    ELSE tb.slot[x]]
           u == [tb EXCEPT !.slot = s]
           r == [q |-> setThrottleDCC(q, tb, Null, 1), t |-> u]
<1>1. Command(r) /\ UNCHANGED estopIsLocked
  BY DEF EstopAll
<1>2. Sound(tb) /\ NotReversed(tb, {}) /\ tb \in Tables /\ LiveLocos(tb) \subseteq Locos
  BY <1>1, TableRight DEF Command
<1>3. ASSUME NEW x \in Objs
      PROVE  /\ s[x] \in SlotRecs
             /\ s[x].loco = tb.slot[x].loco
             /\ s[x].consistLead = tb.slot[x].consistLead
             /\ s[x].consistNext = tb.slot[x].consistNext
             /\ s[x].consistReverse = tb.slot[x].consistReverse
  <2> DEFINE z == tb.slot[x]
             c == SameDirection(z.targetSpeed, 1)
  <2>1. s[x] = z \/ s[x] = [z EXCEPT !.speedCode = c, !.targetSpeed = c]
    OBVIOUS
  <2>2. z \in SlotRecs
    BY <1>2 DEF Tables
  <2>3. c \in Codes
    <3> HIDE DEF z
    <3>1. z.targetSpeed \in Codes
      BY <2>2 DEF SlotRecs
    <3>2. QED
      BY <3>1, CodesRight
  <2> HIDE DEF c, z, s
  <2>4. /\ s[x] \in SlotRecs
        /\ s[x].loco = z.loco /\ s[x].consistLead = z.consistLead
        /\ s[x].consistNext = z.consistNext /\ s[x].consistReverse = z.consistReverse
    BY <2>1, <2>2, <2>3, ZenonT(60) DEF SlotRecs
  <2>5. QED
    BY <2>4 DEF z
<1>4. s \in [Objs -> SlotRecs]
  <2>1. s = [x \in Objs |-> s[x]]
    OBVIOUS
  <2> HIDE DEF s
  <2>2. QED
    BY <1>3, <2>1
<1> HIDE DEF s
<1>5. Alike(tb, u)
  BY <1>2, <1>3, <1>4, NewSlots
<1> HIDE DEF u
<1>6. Sound(u) /\ NotReversed(u, {}) /\ Grows(tb, u)
  BY <1>2, <1>5, AlikeSound, AlikeGrows
<1>7. r.q \in QueuesOf(Driven(LiveLocos(u), estopIsLocked'))
  <2>1. setThrottleDCC(q, tb, Null, 1) \in QueuesOf(Driven({}, TRUE))
    BY <1>2, BroadcastStops DEF DInv
  <2>2. QED
    BY <2>1, StopsAllowed
<1>8. r.t = u
  OBVIOUS
<1> HIDE DEF r
<1>9. QED
  BY <1>1, <1>6, <1>7, <1>8, CommandRight DEF DInv

LEMMA EstopLockRight ==
  ASSUME DInv, NEW lock \in BOOLEAN, EstopLock(lock)
  PROVE  DInv'
<1> DEFINE r == [t |-> tb, q |-> IF lock
                  THEN Queue!scheduleEstopPacket(q, Queue!SpeedPacket(0, 1), 4, 0) ELSE q]
           L == LiveLocos(tb)
<1>1. Command(r) /\ estopIsLocked # lock /\ estopIsLocked' = lock
  BY DEF EstopLock
<1>2. /\ Sound(tb) /\ NotReversed(tb, {}) /\ Grows(tb, tb) /\ L \subseteq Locos
      /\ q \in QueuesOf(Driven(L, estopIsLocked))
  BY <1>1, TableRight DEF DInv, Grows, Command
<1>3. r.t = tb /\ r.q = IF lock
                  THEN Queue!scheduleEstopPacket(q, Queue!SpeedPacket(0, 1), 4, 0) ELSE q
  OBVIOUS
<1> HIDE DEF r, L
<1>4. r.q \in QueuesOf(Driven(L, lock))
  <2>1. CASE lock
    <3>1. 1 \in Codes /\ Speed(1) = 1
      <4>1. 1 \in Codes
        BY TableAssumption DEF Codes
      <4>2. QED
        BY <4>1, CodesRight
    <3>2. r.q \in QueuesOf(Driven({}, TRUE))
      BY <1>2, <1>3, <2>1, <3>1, AllStopped DEF DInv
    <3>3. QED
      BY <3>2, StopsAllowed
  <2>2. CASE ~lock
    BY <1>2, <1>3, <2>2, DrivenGrows DEF DInv
  <2>3. QED
    BY <2>1, <2>2
<1>5. estopIsLocked' \in BOOLEAN /\ r.q \in QueuesOf(Driven(LiveLocos(r.t), estopIsLocked'))
  BY <1>1, <1>3, <1>4 DEF L
<1>6. Sound(r.t) /\ NotReversed(r.t, {}) /\ Grows(tb, r.t)
  BY <1>2, <1>3
<1>7. QED
  BY <1>1, <1>5, <1>6, CommandRight

\* A consist command may use a null slot when the table is full; the links stay right.
LEMMA ConsistsRight ==
  ASSUME DInv, Consists
  PROVE  DInv'
<1>1. /\ q' = q /\ nextLocoReminder' = nextLocoReminder /\ loopStatus' = loopStatus
      /\ estopIsLocked' = estopIsLocked /\ heard' = heard
  BY DEF Consists
<1>2. Sound(tb) /\ NotReversed(tb, {}) /\ ~crashed /\ crashed \in BOOLEAN
  BY TableRight DEF DInv, Good, Consists, ConsistCommand, BuildConsist, BreakConsist
<1>3. Good' /\ Grows(tb, tb')
  <2>1. ASSUME NEW p \in Params, ConsistCommand(p)
        PROVE  Good' /\ Grows(tb, tb')
    <3>1. tb' = parse(tb, p).t /\ crashed' = parse(tb, p).crash
      BY <2>1 DEF ConsistCommand
    <3>2. QED
      BY <1>2, <3>1, ParseSound DEF Good
  <2>2. ASSUME NEW l \in Locos, NEW k \in Locos, NEW r \in BOOLEAN, BuildConsist(l, k, r)
        PROVE  Good' /\ Grows(tb, tb')
    BY <1>2, <2>2, BuildConsistSound DEF BuildConsist, Good
  <2>3. ASSUME NEW l \in Locos, BreakConsist(l)
        PROVE  Good' /\ Grows(tb, tb')
    <3> DEFINE t == deleteAnyConsist(tb, l)
    <3>1. tb' = t /\ crashed' = crashed
      BY <1>2, <2>3 DEF BreakConsist
    <3>2. /\ Sound(t) /\ NotReversed(t, {}) /\ Live(t) = Live(tb) /\ SameLists(tb, t)
          /\ t.chainModified = tb.chainModified
      BY <1>2, DeleteSound, DeleteNotReversed
    <3> HIDE DEF t
    <3>3. Grows(tb, t)
      BY <1>2, <3>2, LocosOfLive DEF SameLists, Grows
    <3>4. QED
      BY <1>2, <3>1, <3>2, <3>3 DEF Good
  <2>4. QED
    BY <2>1, <2>2, <2>3 DEF Consists
<1>4. q' \in QueuesOf(Driven(LiveLocos(tb'), estopIsLocked'))
  <2> DEFINE M == LiveLocos(tb')
  <2>1. LiveLocos(tb) \subseteq M
    BY <1>3, GrowsLocos
  <2> HIDE DEF M
  <2>2. q \in QueuesOf(Driven(M, estopIsLocked))
    BY <2>1, DrivenGrows DEF DInv
  <2>3. QED
    BY <1>1, <2>2 DEF M
<1>5. Live(tb) \subseteq Live(tb') /\ (tb.chainModified => tb'.chainModified)
  BY <1>3, GrowsLocos DEF Grows
<1>6. LoopStates' = LoopStates
  BY DEF LoopStates
<1>7. QED
  BY <1>1, <1>3, <1>4, <1>5, <1>6 DEF DInv

\* What a throttle command means is a speed code.
LEMMA ThrottleCodes ==
  ASSUME NEW cab, NEW speed, NEW direction, ThrottleCode(cab, speed, direction) # Refused
  PROVE  ThrottleCode(cab, speed, direction) \in Codes
<1> DEFINE dcc == CASE speed < 0 -> 1 [] speed = 0 -> 0 [] OTHER -> speed + 1
<1>1. /\ speed \in -1 .. HALF - 2 /\ direction \in {0, 1}
      /\ ThrottleCode(cab, speed, direction) = direction * HALF + dcc
  BY DEF ThrottleCode, Refused
<1>2. HALF \in Nat /\ HALF > 2
  BY TableAssumption
<1>3. dcc \in 0 .. HALF - 1
  BY <1>1, <1>2
<1> HIDE DEF dcc
<1>4. direction * HALF = 0 \/ direction * HALF = HALF
  BY <1>1, <1>2
<1>5. QED
  BY <1>1, <1>2, <1>3, <1>4 DEF Codes

LEMMA ThrottleCommandRight ==
  ASSUME DInv, NEW cab \in Locos \cup {0}, NEW order, ThrottleCommand(cab, order)
  PROVE  DInv'
<1> DEFINE code == ThrottleCode(cab, order[1], order[2])
<1>1. /\ code # Refused
      /\ IF cab # 0 THEN SetThrottle(cab, code) ELSE EstopAll
  BY DEF ThrottleCommand
<1>2. code \in Codes
  BY <1>1, ThrottleCodes
<1> HIDE DEF code
<1>3. CASE cab # 0
  BY <1>1, <1>2, <1>3, SetThrottleRight
<1>4. CASE cab = 0
  BY <1>1, <1>4, EstopAllRight
<1>5. QED
  BY <1>3, <1>4

-----------------------------------------------------------------------------
(* The reminder loop preserves it.                                         *)

LEMMA LoopStatesRight ==
  /\ Cardinality(LoopStates) \in Nat \ {0}
  /\ LoopStates = 0 .. Cardinality(LoopStates) - 1
<1> DEFINE n == Cardinality(Groups)
<1>1. n \in Nat /\ n # 0
  <2>1. IsFiniteSet(1 .. 5)
    <3> DEFINE b == 5
    <3>1. b \in Int /\ 1 \in Int
      OBVIOUS
    <3> HIDE DEF b
    <3>2. IsFiniteSet(1 .. b)
      BY <3>1, FS_Interval
    <3>3. QED
      BY <3>2 DEF b
  <2>2. IsFiniteSet(Groups)
    BY <2>1, DrivingAssumption, FS_Subset
  <2>3. QED
    BY <2>2, DrivingAssumption, FS_CardinalityType, FS_EmptySet
<1> HIDE DEF n
<1>2. LoopStates = 0 .. 2 * n - 1
  BY DEF LoopStates, n
<1>3. Cardinality(0 .. 2 * n - 1) = 2 * n
  <2>1. 0 \in Int /\ 2 * n - 1 \in Int /\ ~(0 > 2 * n - 1)
    BY <1>1
  <2>2. Cardinality(0 .. 2 * n - 1) = (2 * n - 1) - 0 + 1
    BY <2>1, FS_Interval
  <2>3. QED
    BY <1>1, <2>2
<1>4. QED
  BY <1>1, <1>2, <1>3

\* A reminder drives only locos of the table.
LEMMA ReminderRight ==
  ASSUME DInv, NEW T, Sound(T), NotReversed(T, {}),
         NEW Q \in QueuesOf(Driven(LiveLocos(T), estopIsLocked)),
         NEW o \in Live(T), NEW status \in LoopStates, Reminds(T, o, status)
  PROVE  LET r == issueReminder(Q, T, o, status)
         IN  Alike(T, r.t) /\ r.q \in QueuesOf(Driven(LiveLocos(T), estopIsLocked))
<1> DEFINE r == issueReminder(Q, T, o, status)
           g == (status + 1) \div 2
           loco == T.slot[o].loco
           p == Queue!Packet(loco, Queue!FnKind(g), T.slot[o].functions[g])
<1>1. o \in Objs /\ T \in Tables /\ loco \in Locos
  BY LocosOfLive
<1>2. T.slot[o] \in SlotRecs
  BY <1>1 DEF Tables
<1>3. CASE status % 2 = 0
  <2>1. r = setThrottle2(Q, T, o, T.slot[o].targetSpeed)
    BY <1>3 DEF issueReminder
  <2>2. T.slot[o].consistLead = Null /\ T.slot[o].targetSpeed \in Codes
    BY <1>2, <1>3 DEF Reminds, isConsistFollower, SlotRecs
  <2>3. QED
    BY <2>1, <2>2, ConsistThrottled DEF DInv
<1>4. CASE status % 2 # 0
  <2>1. r = [t |-> T, q |-> Queue!scheduleDCCFunctionPacket(Q, p, loco, g)]
    BY <1>4 DEF issueReminder
  <2>2. g \in Groups
    BY <1>2, <1>4 DEF Reminds, SlotRecs
  <2> HIDE DEF g
  <2>3. p \in FnPackets
    <3>1. T.slot[o].functions[g] \in {"on", "off"} /\ Queue!FnKind(g) \in FnKinds
      BY <1>2, <2>2, FnApart DEF SlotRecs
    <3>2. QED
      BY <1>1, <3>1 DEF FnPackets, Queue!Packet
  <2> HIDE DEF p
  <2>4. Queue!scheduleDCCFunctionPacket(Q, p, loco, g) \in QueuesOf(Driven(LiveLocos(T), estopIsLocked))
    <3> DEFINE A == Driven(LiveLocos(T), estopIsLocked)
    <3> HIDE DEF A, loco
    <3>1. Q \in QueuesOf(A)
      BY DEF A
    <3>2. Queue!scheduleDCCFunctionPacket(Q, p, loco, g) \in QueuesOf(A)
      BY <1>1, <2>2, <2>3, <3>1, FunctionQueued
    <3>3. QED
      BY <3>2 DEF A
  <2>5. Alike(T, T)
    BY <1>1, AlikeItself
  <2>6. QED
    BY <2>1, <2>4, <2>5
<1>5. QED
  BY <1>3, <1>4

\* A pass of issueReminders leaves its pointer on the list it has seen.
LEMMA RemindersRight ==
  ASSUME DInv, ~crashed
  PROVE  LET r == issueReminders(q, tb)
         IN  /\ Sound(r.t) /\ NotReversed(r.t, {})
             /\ r.q \in QueuesOf(Driven(LiveLocos(r.t), estopIsLocked))
             /\ r.status \in LoopStates /\ r.next \in Live(r.t) \cup {Null}
<1> DEFINE restart == tb.chainModified \/ nextLocoReminder = Null
           T1 == IF restart THEN [tb EXCEPT !.chainModified = FALSE] ELSE tb
           status == IF restart /\ tb.chain # <<>>
                     THEN (loopStatus + 1) % Cardinality(LoopStates) ELSE loopStatus
           first == IF restart THEN 1
                    ELSE CHOOSE i \in DOMAIN tb.chain : tb.chain[i] = nextLocoReminder
           due == {i \in first..Len(tb.chain) : Reminds(tb, tb.chain[i], status)}
           least == CHOOSE i \in due : \A j \in due : i <= j
           o == tb.chain[least]
           m == issueReminder(q, T1, o, status)
           r == issueReminders(q, tb)
<1>1. r = IF due = {} THEN [q |-> q, t |-> T1, status |-> status, next |-> Null]
          ELSE [q |-> m.q, t |-> m.t, status |-> status, next |-> After(tb, o)]
  BY DEF issueReminders
<1>2. Sound(tb) /\ NotReversed(tb, {}) /\ tb \in Tables
  BY TableRight
<1>3. Sound(T1) /\ NotReversed(T1, {}) /\ T1.slot = tb.slot /\ T1.chain = tb.chain
  <2>1. CASE restart
    <3>1. T1 = [tb EXCEPT !.chainModified = FALSE]
      BY <2>1
    <3>2. T1.slot = tb.slot /\ T1.chain = tb.chain
      BY <1>2, <3>1 DEF Tables
    <3> HIDE DEF T1
    <3>3. QED
      BY <1>2, <3>1, <3>2, SeeChainSound
  <2>2. CASE ~restart
    BY <1>2, <2>2
  <2>3. QED
    BY <2>1, <2>2
<1>4. Live(T1) = Live(tb) /\ LiveLocos(T1) = LiveLocos(tb)
  BY <1>3 DEF Live, LiveLocos
<1>5. status \in LoopStates
  <2>1. loopStatus \in LoopStates
    BY DEF DInv
  <2>2. (loopStatus + 1) % Cardinality(LoopStates) \in LoopStates
    <3> DEFINE n == Cardinality(LoopStates)
               k == loopStatus + 1
    <3>1. n \in Nat \ {0} /\ LoopStates = 0 .. n - 1
      BY LoopStatesRight
    <3> HIDE DEF n
    <3>2. k \in Nat
      BY <2>1, <3>1
    <3> HIDE DEF k
    <3>3. k % n \in 0 .. n - 1
      BY <3>1, <3>2
    <3>4. QED
      BY <3>1, <3>3 DEF n, k
  <2>3. QED
    BY <2>1, <2>2
<1>6. q \in QueuesOf(Driven(LiveLocos(T1), estopIsLocked))
  BY <1>4 DEF DInv
<1>7. /\ tb.chain \in Seq(Objs) /\ DOMAIN tb.chain = 1 .. Len(tb.chain) /\ Len(tb.chain) \in Nat
  BY <1>2, LenProperties DEF Tables
<1>8. first \in Nat /\ first >= 1
  <2>1. CASE restart
    BY <2>1
  <2>2. CASE ~restart
    <3>1. nextLocoReminder \in Live(tb)
      BY <2>2 DEF DInv
    <3>2. (CHOOSE i \in DOMAIN tb.chain : tb.chain[i] = nextLocoReminder) \in 1 .. Len(tb.chain)
      BY <1>2, <3>1, PlaceFound
    <3>3. first \in 1 .. Len(tb.chain)
      BY <2>2, <3>2
    <3> HIDE DEF first
    <3>4. QED
      BY <1>7, <3>3
  <2>3. QED
    BY <2>1, <2>2
<1> HIDE DEF r, restart, first, status
<1>9. CASE due = {}
  <2>1. r = [q |-> q, t |-> T1, status |-> status, next |-> Null]
    BY <1>1, <1>9
  <2> HIDE DEF T1, due
  <2>2. QED
    BY <1>3, <1>5, <1>6, <2>1 DEF r
<1>10. CASE due # {}
  <2>1. least \in due
    <3>1. due \subseteq Nat
      BY <1>7, <1>8
    <3> HIDE DEF due
    <3>2. Min(due) \in due /\ \A y \in due : Min(due) <= y
      BY <1>10, <3>1, LeastElement
    <3>3. QED
      BY <3>2
  <2> HIDE DEF least
  <2>2. least \in 1 .. Len(tb.chain) /\ Reminds(tb, o, status)
    BY <1>7, <1>8, <2>1
  <2>3. o \in Live(tb)
    BY <1>7, <2>2 DEF Live, Range
  <2> HIDE DEF o
  <2>4. Reminds(T1, o, status) /\ o \in Live(T1)
    BY <1>3, <1>4, <2>2, <2>3 DEF Reminds, isConsistFollower
  <2>5. After(tb, o) \in Live(tb) \cup {Null}
    BY <1>2, <2>3, AfterLive
  <2> HIDE DEF T1
  <2>6. Alike(T1, m.t) /\ m.q \in QueuesOf(Driven(LiveLocos(T1), estopIsLocked))
    BY <1>3, <1>5, <1>6, <2>4, ReminderRight
  <2>7. r = [q |-> m.q, t |-> m.t, status |-> status, next |-> After(tb, o)]
    BY <1>1, <1>10
  <2> HIDE DEF m
  <2>8. /\ Sound(m.t) /\ NotReversed(m.t, {}) /\ Live(m.t) = Live(tb)
        /\ LiveLocos(m.t) = LiveLocos(T1)
    BY <1>3, <1>4, <2>6, AlikeSound
  <2>9. QED
    BY <1>5, <2>5, <2>6, <2>7, <2>8 DEF r
<1>11. QED
  BY <1>9, <1>10

\* What a pass of DCC::loop leaves and what it sends.
LEMMA PassRight ==
  ASSUME DInv, ~crashed
  PROVE  /\ Sound(loop.t) /\ NotReversed(loop.t, {})
         /\ loop.q \in QueuesOf(Driven(LiveLocos(loop.t), estopIsLocked))
         /\ loop.status \in LoopStates /\ loop.next \in Objs \cup {Null}
         /\ (~loop.t.chainModified /\ loop.next # Null) => loop.next \in Live(loop.t)
         /\ loop.packet.kind = "speed" => loop.packet.val \in Codes
<1> DEFINE pending == Queue!scheduleNext(q, FALSE, 0)
           rem == issueReminders(q, tb)
           forced == Queue!scheduleNext(rem.q, TRUE, 0)
<1>1. loop = IF pending.ok
             THEN [packet |-> pending.packet, q |-> pending.q, t |-> tb,
                   status |-> loopStatus, next |-> nextLocoReminder]
             ELSE [packet |-> forced.packet, q |-> forced.q, t |-> rem.t,
                   status |-> rem.status, next |-> rem.next]
  BY DEF loop
<1>2. ASSUME NEW L, NEW p \in Driven(L, estopIsLocked) \cup FnPackets \cup {Queue!IdlePacket},
             p.kind = "speed"
      PROVE  p.val \in Codes
  <2>1. p \notin FnPackets
    BY <1>2, FnApart DEF FnPackets
  <2>2. p # Queue!IdlePacket
    BY <1>2 DEF Queue!IdlePacket, Queue!Packet
  <2>3. QED
    BY <1>2, <2>1, <2>2 DEF Driven, SpeedPackets
<1>3. CASE pending.ok
  <2> DEFINE A == Driven(LiveLocos(tb), estopIsLocked)
  <2>1. pending.q \in QueuesOf(A) /\ pending.packet \in A \cup FnPackets \cup {Queue!IdlePacket}
    <3>1. q \in QueuesOf(A)
      BY DEF DInv
    <3> HIDE DEF A
    <3>2. QED
      BY <3>1, NextSent
  <2>2. pending.packet.kind = "speed" => pending.packet.val \in Codes
    BY <1>2, <2>1
  <2> HIDE DEF pending, A
  <2>3. /\ loop.t = tb /\ loop.q = pending.q /\ loop.packet = pending.packet
        /\ loop.status = loopStatus /\ loop.next = nextLocoReminder
    BY <1>1, <1>3
  <2>4. QED
    BY <2>1, <2>2, <2>3, TableRight DEF DInv, A
<1>4. CASE ~pending.ok
  <2> DEFINE A == Driven(LiveLocos(rem.t), estopIsLocked)
  <2>1. /\ Sound(rem.t) /\ NotReversed(rem.t, {}) /\ rem.q \in QueuesOf(A)
        /\ rem.status \in LoopStates /\ rem.next \in Live(rem.t) \cup {Null}
    BY RemindersRight
  <2> HIDE DEF rem, A
  <2>2. forced.q \in QueuesOf(A) /\ forced.packet \in A \cup FnPackets \cup {Queue!IdlePacket}
    BY <2>1, NextSent
  <2>3. forced.packet.kind = "speed" => forced.packet.val \in Codes
    BY <1>2, <2>2 DEF A
  <2>4. rem.next \in Objs \cup {Null}
    BY <2>1, LocosOfLive
  <2> HIDE DEF pending, forced
  <2>5. /\ loop.t = rem.t /\ loop.q = forced.q /\ loop.packet = forced.packet
        /\ loop.status = rem.status /\ loop.next = rem.next
    BY <1>1, <1>4
  <2>6. QED
    BY <2>1, <2>2, <2>3, <2>4, <2>5 DEF A
<1>5. QED
  BY <1>3, <1>4

LEMMA LoopRight ==
  ASSUME DInv, NEW l, NEW kind, Loop(l, kind)
  PROVE  DInv'
<1>1. PICK by \in SUBSET Addressed(loop.packet) :
        /\ tb' = loop.t /\ q' = loop.q
        /\ loopStatus' = loop.status /\ nextLocoReminder' = loop.next
        /\ heard' = Obey(heard, loop.packet, by)
        /\ crashed' = crashed /\ estopIsLocked' = estopIsLocked
        /\ ~crashed /\ crashed \in BOOLEAN
  BY DEF Loop, DInv, Good
<1>2. heard'.speed \in [Locos -> Codes]
  <2> DEFINE p == loop.packet
             h == [x \in Locos |-> IF x \in by /\ p.kind = "speed" THEN p.val ELSE heard.speed[x]]
  <2>1. p.kind = "speed" => p.val \in Codes
    BY <1>1, PassRight
  <2>2. heard.speed \in [Locos -> Codes]
    BY DEF DInv
  <2>3. heard'.speed = h
    BY <1>1 DEF Obey
  <2> HIDE DEF p
  <2>4. h \in [Locos -> Codes]
    BY <2>1, <2>2
  <2>5. QED
    BY <2>3, <2>4
<1> DEFINE n == loop
<1>3. /\ Sound(n.t) /\ NotReversed(n.t, {})
      /\ n.q \in QueuesOf(Driven(LiveLocos(n.t), estopIsLocked))
      /\ n.status \in LoopStates /\ n.next \in Objs \cup {Null}
      /\ (~n.t.chainModified /\ n.next # Null) => n.next \in Live(n.t)
  BY <1>1, PassRight
<1>4. /\ tb' = n.t /\ q' = n.q /\ loopStatus' = n.status /\ nextLocoReminder' = n.next
      /\ crashed' = crashed /\ estopIsLocked' = estopIsLocked
  BY <1>1
<1>5. LoopStates' = LoopStates
  BY DEF LoopStates
<1> HIDE DEF n
<1>6. Good'
  BY <1>1, <1>3, <1>4 DEF Good
<1>7. QED
  BY <1>2, <1>3, <1>4, <1>5, <1>6 DEF DInv

LEMMA InvStarts == DInit => DInv
<1> SUFFICES ASSUME DInit PROVE DInv
  OBVIOUS
<1>1. /\ tb = EmptyTable /\ crashed = FALSE /\ q = Queue!NoQueue /\ nextLocoReminder = Null
      /\ loopStatus = 0 /\ estopIsLocked = FALSE
      /\ heard = [speed |-> [l \in Locos |-> Stopped],
                  fn |-> [l \in Locos |-> [g \in Groups |-> "off"]]]
  BY DEF DInit, TInit
<1>2. Sound(tb) /\ NotReversed(tb, {})
  <2>1. Sound(tb) /\ Live(tb) = {}
    BY <1>1, EmptySound
  <2>2. QED
    BY <2>1 DEF NotReversed
<1>3. q \in QueuesOf(Driven(LiveLocos(tb), estopIsLocked))
  <2> DEFINE A == Driven(LiveLocos(tb), estopIsLocked)
  <2> HIDE DEF A
  <2>1. <<>> \in Seq(HighSlots(A)) /\ <<>> \in Seq(LowSlots)
    OBVIOUS
  <2>2. q \in QueuesOf(A)
    BY <1>1, <2>1 DEF QueuesOf, Queue!NoQueue
  <2>3. QED
    BY <2>2 DEF A
<1>4. 0 \in LoopStates
  BY LoopStatesRight
<1>5. Stopped \in Codes
  BY TableAssumption DEF Stopped, Codes
<1>6. QED
  BY <1>1, <1>2, <1>3, <1>4, <1>5 DEF DInv, Good

LEMMA InvStep == DInv /\ [DNext]_vars => DInv'
<1>1. ASSUME DInv, DNext PROVE DInv'
  <2>1. ASSUME NEW l \in Locos, NEW g \in Groups, NEW v \in {"on", "off"}, SetFn(l, g, v)
        PROVE  DInv'
    BY <1>1, <2>1, SetFnRight
  <2>2. ASSUME NEW l \in Locos, SaveSpeed(l) PROVE DInv'
    BY <1>1, <2>2, SaveSpeedRight
  <2>3. ASSUME NEW l \in Locos, RestoreSpeed(l) PROVE DInv'
    BY <1>1, <2>3, RestoreSpeedRight
  <2>4. ASSUME NEW cab \in Locos \cup {0}, ForgetCommand(cab) PROVE DInv'
    <3>1. CASE cab = 0
      BY <1>1, <2>4, <3>1, ForgetAllRight DEF ForgetCommand
    <3>2. CASE cab # 0
      <4>1. cab \in Locos /\ ForgetLoco(cab)
        BY <2>4, <3>2 DEF ForgetCommand
      <4>2. QED
        BY <1>1, <4>1, ForgetLocoRight
    <3>3. QED
      BY <3>1, <3>2
  <2>5. ASSUME NEW cab \in Locos \cup {0}, NEW order \in Orders, ThrottleCommand(cab, order)
        PROVE  DInv'
    BY <1>1, <2>5, ThrottleCommandRight
  <2>6. ASSUME NEW p \in {"P", "R", "none"}, StopCommand(p) PROVE DInv'
    <3>1. EstopLock(TRUE) \/ EstopLock(FALSE) \/ EstopAll
      BY <2>6 DEF StopCommand
    <3>2. QED
      BY <1>1, <3>1, EstopLockRight, EstopAllRight
  <2>7. ASSUME Consists PROVE DInv'
    BY <1>1, <2>7, ConsistsRight
  <2>8. ASSUME Loop(0, "any") PROVE DInv'
    BY <1>1, <2>8, LoopRight
  <2>9. QED
    BY <1>1, <2>1, <2>2, <2>3, <2>4, <2>5, <2>6, <2>7, <2>8 DEF DNext
<1>2. ASSUME DInv, UNCHANGED vars PROVE DInv'
  <2>1. LoopStates' = LoopStates
    BY DEF LoopStates
  <2>2. QED
    BY <1>2, <2>1 DEF DInv, Good, vars
<1>3. QED
  BY <1>1, <1>2

LEMMA InvAlways == DSafety => []DInv
<1>1. QED
  BY InvStarts, InvStep, PTL DEF DSafety

-----------------------------------------------------------------------------
(* The properties.                                                         *)

\* The reminder loop follows no stale pointer, with any number of locos and commands.
THEOREM RemindersSoundAlways == DSafety => []RemindersSound
<1>1. ASSUME DInv PROVE DTypeOK
  <2>1. tb \in Tables
    BY <1>1, TableRight
  <2>2. \A o \in Objs : tb.slot[o] \in SlotRecs
    BY <2>1 DEF Tables
  <2>3. QED
    BY <1>1, <2>2 DEF DInv, DTypeOK, SlotRecs
<1>2. ASSUME DInv PROVE NoStalePointer
  BY <1>2 DEF DInv, NoStalePointer, InChain, Live
<1>3. DInv => RemindersSound
  BY <1>1, <1>2 DEF RemindersSound
<1>4. QED
  BY <1>3, InvAlways, PTL

\* What is locked or forgotten stays stopped, whatever was queued, is reminded or asked
\* for.
THEOREM StopsHoldAlways == DSafety => []StopsHold
<1>1. ASSUME DInv, NEW p \in QueuedSpeeds
      PROVE  /\ Stops(p) \/ (~estopIsLocked /\ p.to \in LiveLocos(tb))
             /\ p \in SpeedPackets
  <2> DEFINE A == Driven(LiveLocos(tb), estopIsLocked)
  <2>1. q \in QueuesOf(A)
    BY <1>1 DEF DInv
  <2> HIDE DEF A
  <2>2. q.high \in Seq(HighSlots(A)) /\ DOMAIN q.high = 1 .. Len(q.high)
    BY <2>1, QueueParts
  <2>3. PICK i \in 1 .. Len(q.high) : p = q.high[i].packet
    BY <1>1, <2>2 DEF QueuedSpeeds
  <2>4. q.high[i] \in HighSlots(A)
    BY <2>2, <2>3, ElementOfSeq
  <2>5. p \in A
    BY <2>3, <2>4 DEF HighSlots
  <2>6. QED
    BY <2>5 DEF A, Driven
<1>2. ASSUME DInv PROVE LockStopsAll
  BY <1>1, <1>2 DEF LockStopsAll, Stops
<1>3. ASSUME DInv PROVE ForgottenIsStopped
  <2>1. tb \in Tables /\ Lists(tb)
    BY <1>3, TableRight DEF Sound
  <2>2. ASSUME NEW p \in QueuedSpeeds, findSlot(tb, p.to) = Null PROVE Stops(p)
    <3>1. p.to \notin LiveLocos(tb)
      <4>1. Null \notin Live(tb)
        BY <2>1, LiveObjs DEF Null, Objs
      <4>2. \A x \in Live(tb) : tb.slot[x].loco # p.to
        BY <2>1, <2>2, <4>1, FindSlotFinds
      <4>3. QED
        BY <4>2 DEF LiveLocos
    <3>2. QED
      BY <1>1, <1>3, <3>1
  <2>3. QED
    BY <2>2 DEF ForgottenIsStopped, Stops
<1>4. DInv => StopsHold
  BY <1>2, <1>3 DEF StopsHold
<1>5. QED
  BY <1>4, InvAlways, PTL

\* While locos are driven too: throttles, functions, saved speeds, stops and reminders
\* leave lists and consists sound, whatever consists are made and broken meanwhile.
THEOREM DrivenTableSound == DSafety => []TableSound
<1>1. DInv => TableSound
  BY GoodSound DEF DInv
<1>2. QED
  BY <1>1, InvAlways, PTL
=============================================================================
