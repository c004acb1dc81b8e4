---------------------------- MODULE ExrailProofs ----------------------------
(***************************************************************************)
(* Sections are exclusive (SectionExclusive), whatever the layout, as long *)
(* as it is used as EXRAIL's documents teach (Guarded), and however many   *)
(* tasks there are.                                                        *)
(*                                                                         *)
(* The invariant Sound says that whoever is in a section holds it and is   *)
(* alone there, and that wherever a task may still be sent from outside    *)
(* the program (the returns on its stack, the starts the LCC adapter was   *)
(* told) is outside every section.  Most steps are Calm: they make tasks   *)
(* outside the sections and kill blink tasks, whatever handlers run.  A    *)
(* kill takes a task out of the ring (Gone), and an instruction moves its  *)
(* task by one of the ways that Guarded speaks of.                         *)
(***************************************************************************)
EXTENDS Exrail, DataLemmas, FiniteSetTheorems

-----------------------------------------------------------------------------
(* The ring: sequences without repetition.                                 *)

Ring(r) == r \in Seq(Addr) /\ \A i, j \in 1 .. Len(r) : r[i] = r[j] => i = j

LEMMA RingParts ==
  ASSUME NEW r, Ring(r)
  PROVE  /\ r \in Seq(Addr) /\ Len(r) \in Nat /\ DOMAIN r = 1 .. Len(r)
         /\ Range(r) = {r[i] : i \in 1 .. Len(r)} /\ Range(r) \subseteq Addr
         /\ IsInjective(r)
<1>1. r \in Seq(Addr) /\ Len(r) \in Nat /\ DOMAIN r = 1 .. Len(r)
  BY LenProperties DEF Ring
<1>2. Range(r) = {r[i] : i \in 1 .. Len(r)}
  BY <1>1 DEF Range
<1>3. QED
  BY <1>1, <1>2, ElementOfSeq DEF Ring, IsInjective

\* A new task comes second.
LEMMA RingInsert ==
  ASSUME NEW r, Ring(r), NEW a \in Addr, a \notin Range(r)
  PROVE  LET n == IF r = <<>> THEN <<a>> ELSE <<Head(r), a>> \o Tail(r)
         IN  Ring(n) /\ Range(n) = Range(r) \cup {a}
<1> DEFINE n == IF r = <<>> THEN <<a>> ELSE <<Head(r), a>> \o Tail(r)
<1>1. r \in Seq(Addr) /\ Len(r) \in Nat /\ Range(r) = {r[i] : i \in 1 .. Len(r)}
  BY RingParts
<1>2. CASE r = <<>>
  <2>1. n = <<a>> /\ n \in Seq(Addr) /\ Len(n) = 1 /\ n[1] = a
    BY <1>2
  <2>2. Ring(n)
    BY <2>1 DEF Ring
  <2> HIDE DEF n
  <2>3. Range(n) = {n[i] : i \in 1 .. Len(n)}
    BY <2>2, RingParts
  <2>4. Range(n) = {a}
    BY <2>1, <2>3
  <2>5. Range(r) = {}
    BY <1>1, <1>2
  <2>6. QED
    BY <2>2, <2>4, <2>5 DEF n
<1>3. CASE r # <<>>
  <2>1. Len(r) \in Nat \ {0} /\ Head(r) = r[1] /\ r[1] \in Addr
    BY <1>1, <1>3, ElementOfSeq, EmptySeq
  <2> DEFINE h == <<Head(r), a>>
             t == Tail(r)
  <2>2. h \in Seq(Addr) /\ Len(h) = 2 /\ h[1] = r[1] /\ h[2] = a
    BY <2>1
  <2>3. t \in Seq(Addr) /\ Len(t) = Len(r) - 1 /\ \A i \in 1 .. Len(t) : t[i] = r[i + 1]
    BY <1>1, <1>3, <2>1, HeadTailProperties
  <2> HIDE DEF h, t
  <2> DEFINE m == h \o t
  <2>4. m \in Seq(Addr) /\ Len(m) = Len(r) + 1
        /\ \A i \in 1 .. Len(m) : m[i] = IF i <= 2 THEN h[i] ELSE t[i - 2]
    <3>1. m \in Seq(Addr) /\ Len(m) = Len(h) + Len(t)
          /\ \A i \in 1 .. Len(h) + Len(t) : m[i] = IF i <= Len(h) THEN h[i] ELSE t[i - Len(h)]
      BY <2>2, <2>3, ConcatProperties
    <3>2. Len(h) + Len(t) = Len(r) + 1
      BY <2>1, <2>2, <2>3
    <3> HIDE DEF m
    <3>3. QED
      BY <2>2, <3>1, <3>2
  <2> HIDE DEF m
  <2>5. ASSUME NEW i \in 1 .. Len(m)
        PROVE  m[i] = IF i = 1 THEN r[1] ELSE IF i = 2 THEN a ELSE r[i - 1]
    <3>1. CASE i <= 2
      BY <2>2, <2>4, <3>1
    <3>2. CASE i > 2
      <4>1. i - 2 \in 1 .. Len(t) /\ i - 2 + 1 = i - 1
        BY <2>1, <2>3, <2>4, <3>2
      <4>2. QED
        BY <2>3, <2>4, <3>2, <4>1, SMTT(30)
    <3>3. QED
      BY <3>1, <3>2
  <2>6. \A i \in 1 .. Len(r) : r[i] # a
    BY <1>1
  <2>7. \A i, j \in 1 .. Len(r) : r[i] = r[j] => i = j
    BY DEF Ring
  <2>8. ASSUME NEW i \in 1 .. Len(m), NEW j \in 1 .. Len(m), m[i] = m[j] PROVE i = j
    <3>1. /\ i > 2 => i - 1 \in 1 .. Len(r) /\ i - 1 # 1
          /\ j > 2 => j - 1 \in 1 .. Len(r) /\ j - 1 # 1
          /\ 1 \in 1 .. Len(r)
      BY <2>1, <2>4
    <3>2. QED
      BY <2>5, <2>6, <2>7, <2>8, <3>1
  <2>9. Ring(m)
    BY <2>4, <2>8 DEF Ring
  <2>10. Range(m) = {m[i] : i \in 1 .. Len(m)}
    BY <2>9, RingParts
  <2>11. Range(m) \subseteq Range(r) \cup {a}
    <3> SUFFICES ASSUME NEW i \in 1 .. Len(m) PROVE m[i] \in Range(r) \cup {a}
      BY <2>10
    <3>1. i # 2 => (IF i = 1 THEN 1 ELSE i - 1) \in 1 .. Len(r)
      BY <2>1, <2>4
    <3>2. QED
      BY <1>1, <2>5, <3>1
  <2>12. Range(r) \cup {a} \subseteq Range(m)
    <3>1. ASSUME NEW i \in 1 .. Len(r) PROVE r[i] \in Range(m)
      <4>1. (IF i = 1 THEN 1 ELSE i + 1) \in 1 .. Len(m)
        BY <2>1, <2>4
      <4>2. m[IF i = 1 THEN 1 ELSE i + 1] = r[i]
        BY <2>5, <4>1
      <4>3. QED
        BY <2>10, <4>1, <4>2
    <3>2. 2 \in 1 .. Len(m) /\ m[2] = a
      BY <2>1, <2>4, <2>5
    <3>3. QED
      BY <1>1, <2>10, <3>1, <3>2
  <2>13. n = m
    BY <1>3 DEF m, h, t
  <2> HIDE DEF n
  <2>14. QED
    BY <2>9, <2>11, <2>12, <2>13 DEF n
<1>4. QED
  BY <1>2, <1>3

\* A task leaves; the one after it becomes the first.
LEMMA RingRemove ==
  ASSUME NEW r, Ring(r), NEW k \in 1 .. Len(r)
  PROVE  LET n == SubSeq(r, k + 1, Len(r)) \o SubSeq(r, 1, k - 1)
         IN  Ring(n) /\ Range(n) = Range(r) \ {r[k]}
<1> DEFINE t == SubSeq(r, k + 1, Len(r))
           h == SubSeq(r, 1, k - 1)
           n == t \o h
<1>1. r \in Seq(Addr) /\ Len(r) \in Nat /\ Range(r) = {r[i] : i \in 1 .. Len(r)}
  BY RingParts
<1>2. t \in Seq(Addr) /\ Len(t) = Len(r) - k /\ \A i \in 1 .. Len(t) : t[i] = r[i + k]
  <2>1. \A i \in k + 1 .. Len(r) : r[i] \in Addr
    BY <1>1, ElementOfSeq
  <2>2. Len(t) = Len(r) - k /\ \A i \in 1 .. Len(t) : t[i] = r[i + k]
    BY <1>1
  <2>3. QED
    BY <1>1, <2>1, <2>2, SubSeqProperties
<1>3. h \in Seq(Addr) /\ Len(h) = k - 1 /\ \A i \in 1 .. Len(h) : h[i] = r[i]
  <2>1. \A i \in 1 .. k - 1 : r[i] \in Addr
    BY <1>1, ElementOfSeq
  <2>2. Len(h) = k - 1 /\ \A i \in 1 .. Len(h) : h[i] = r[i]
    BY <1>1
  <2>3. QED
    BY <1>1, <2>1, <2>2, SubSeqProperties
<1> HIDE DEF t, h
<1>4. n \in Seq(Addr) /\ Len(n) = Len(r) - 1
      /\ \A i \in 1 .. Len(n) : n[i] = IF i <= Len(r) - k THEN t[i] ELSE h[i - (Len(r) - k)]
  <2>1. n \in Seq(Addr) /\ Len(n) = Len(t) + Len(h)
        /\ \A i \in 1 .. Len(t) + Len(h) : n[i] = IF i <= Len(t) THEN t[i] ELSE h[i - Len(t)]
    BY <1>2, <1>3, ConcatProperties
  <2>2. Len(t) + Len(h) = Len(r) - 1
    BY <1>1, <1>2, <1>3
  <2> HIDE DEF n
  <2>3. QED
    BY <1>2, <2>1, <2>2
<1> HIDE DEF n
<1> DEFINE at(i) == IF i <= Len(r) - k THEN i + k ELSE i - (Len(r) - k)
<1>5. ASSUME NEW i \in 1 .. Len(n)
      PROVE  at(i) \in 1 .. Len(r) /\ at(i) # k /\ n[i] = r[at(i)]
  <2>1. CASE i <= Len(r) - k
    <3>1. i \in 1 .. Len(t) /\ n[i] = t[i]
      BY <1>1, <1>2, <1>4, <2>1
    <3>2. i + k \in 1 .. Len(r) /\ i + k # k
      BY <1>1, <1>2, <2>1, <3>1
    <3>3. QED
      BY <1>2, <2>1, <3>1, <3>2
  <2>2. CASE ~(i <= Len(r) - k)
    <3>1. i - (Len(r) - k) \in 1 .. Len(h)
      BY <1>1, <1>3, <1>4, <2>2
    <3>2. QED
      BY <1>1, <1>3, <1>4, <2>2, <3>1, SMTT(30)
  <2>3. QED
    BY <2>1, <2>2
<1>6. \A i, j \in 1 .. Len(r) : r[i] = r[j] => i = j
  BY DEF Ring
<1>7. ASSUME NEW i \in 1 .. Len(n), NEW j \in 1 .. Len(n), n[i] = n[j] PROVE i = j
  <2>1. at(i) = at(j)
    BY <1>5, <1>6, <1>7
  <2>2. QED
    BY <1>1, <1>4, <2>1
<1>8. Ring(n)
  BY <1>4, <1>7 DEF Ring
<1>9. Range(n) = {n[i] : i \in 1 .. Len(n)}
  BY <1>8, RingParts
<1>10. Range(n) \subseteq Range(r) \ {r[k]}
  <2> SUFFICES ASSUME NEW i \in 1 .. Len(n) PROVE n[i] \in Range(r) \ {r[k]}
    BY <1>9
  <2> HIDE DEF at
  <2>1. QED
    BY <1>1, <1>5, <1>6
<1>11. ASSUME NEW i \in 1 .. Len(r), i # k PROVE r[i] \in Range(n)
  <2> DEFINE j == IF i > k THEN i - k ELSE i + (Len(r) - k)
  <2>1. j \in 1 .. Len(n) /\ at(j) = i
    BY <1>1, <1>4, <1>11
  <2> HIDE DEF at, j
  <2>2. QED
    BY <1>5, <1>9, <2>1
<1>12. QED
  BY <1>1, <1>8, <1>10, <1>11 DEF n, t, h

\* loopTask moves on.
LEMMA RingTurns ==
  ASSUME NEW r, Ring(r), r # <<>>
  PROVE  LET n == Append(Tail(r), Head(r))
         IN  Ring(n) /\ Range(n) = Range(r) /\ n # <<>> /\ Head(n) \in Range(n)
<1> DEFINE t == Tail(r)
           n == Append(t, Head(r))
<1>1. r \in Seq(Addr) /\ Len(r) \in Nat \ {0} /\ Range(r) = {r[i] : i \in 1 .. Len(r)}
  BY RingParts, EmptySeq
<1>2. Head(r) = r[1] /\ r[1] \in Addr
  BY <1>1, ElementOfSeq
<1>3. t \in Seq(Addr) /\ Len(t) = Len(r) - 1 /\ \A i \in 1 .. Len(t) : t[i] = r[i + 1]
  BY <1>1, HeadTailProperties
<1> HIDE DEF t
<1>4. n \in Seq(Addr) /\ Len(n) = Len(r)
      /\ \A i \in 1 .. Len(n) : n[i] = IF i < Len(r) THEN t[i] ELSE r[1]
  BY <1>1, <1>2, <1>3, AppendProperties
<1> HIDE DEF n
<1> DEFINE at(i) == IF i < Len(r) THEN i + 1 ELSE 1
<1>5. ASSUME NEW i \in 1 .. Len(n)
      PROVE  at(i) \in 1 .. Len(r) /\ n[i] = r[at(i)]
  BY <1>1, <1>3, <1>4
<1>6. \A i, j \in 1 .. Len(r) : r[i] = r[j] => i = j
  BY DEF Ring
<1>7. ASSUME NEW i \in 1 .. Len(n), NEW j \in 1 .. Len(n), n[i] = n[j] PROVE i = j
  <2>1. at(i) = at(j)
    BY <1>5, <1>6, <1>7
  <2>2. QED
    BY <1>1, <1>4, <2>1
<1>8. Ring(n)
  BY <1>4, <1>7 DEF Ring
<1>9. Range(n) = {n[i] : i \in 1 .. Len(n)}
  BY <1>8, RingParts
<1>10. Range(n) \subseteq Range(r)
  BY <1>1, <1>5, <1>9
<1>11. ASSUME NEW i \in 1 .. Len(r) PROVE r[i] \in Range(n)
  <2> DEFINE j == IF i > 1 THEN i - 1 ELSE Len(r)
  <2>1. j \in 1 .. Len(n) /\ at(j) = i
    BY <1>1, <1>4
  <2> HIDE DEF at, j
  <2>2. QED
    BY <1>5, <1>9, <2>1
<1>12. n # <<>> /\ Head(n) = n[1] /\ 1 \in 1 .. Len(n)
  BY <1>1, <1>4
<1>13. QED
  BY <1>1, <1>8, <1>9, <1>10, <1>11, <1>12 DEF n, t

-----------------------------------------------------------------------------
(* The program.                                                            *)

Code == prog.code
Zone(s) == prog.zones[s]

\* The instructions outside every section.
Open == {pc \in DOMAIN Code : \A s \in DOMAIN prog.zones : pc \notin Zone(s)}

LEMMA CodeParts ==
  ASSUME prog \in Programs
  PROVE  /\ Len(Code) \in Nat \ {0} /\ DOMAIN Code = 1 .. Len(Code)
         /\ Code[Len(Code)].op = "ENDEXRAIL"
         /\ \A pc \in DOMAIN Code : Code[pc].op # "ENDEXRAIL" => pc + 1 \in DOMAIN Code
         /\ \A s \in DOMAIN prog.zones : Guarded(prog, s)
<1>1. /\ Len(Code) \in Nat \ {0} /\ DOMAIN Code = 1 .. Len(Code)
      /\ Code[Len(Code)].op = "ENDEXRAIL"
      /\ \A s \in DOMAIN prog.zones : Guarded(prog, s)
  BY ProgramsAssumption DEF Code
<1>2. QED
  BY <1>1

\* Tasks start outside the sections.
LEMMA EntriesOpen ==
  ASSUME prog \in Programs, NEW pc \in DOMAIN Code
  PROVE  /\ 1 \in Open
         /\ Code[pc].op \in Events \cup {"ROUTE", "AUTOMATION", "SEQUENCE", "AUTOSTART"} => pc \in Open
         /\ Code[pc].op \in {"ONSENSOR", "ONBUTTON", "ONLCC"} => pc + 1 \in Open
<1>1. \A s \in DOMAIN prog.zones : Zone(s) \cap Entries(Code) = {}
  BY CodeParts DEF Guarded, Zone, Code
<1>2. 1 \in Entries(Code) /\ 1 \in DOMAIN Code
  BY CodeParts DEF Entries
<1>3. Code[pc].op \in Events \cup {"ROUTE", "AUTOMATION", "SEQUENCE", "AUTOSTART"} => pc \in Entries(Code)
  BY DEF Entries
<1>4. Code[pc].op \in {"ONSENSOR", "ONBUTTON", "ONLCC"} => pc + 1 \in Entries(Code) /\ pc + 1 \in DOMAIN Code
  BY CodeParts DEF Entries
<1>5. QED
  BY <1>1, <1>2, <1>3, <1>4 DEF Open

LEMMA LeastOne ==
  ASSUME NEW S, S # {}, S \subseteq Nat
  PROVE  Least(S) \in S /\ \A j \in S : Least(S) <= j
<1>1. Min(S) \in S /\ \A j \in S : Min(S) <= j
  BY LeastElement
<1>2. QED
  BY <1>1 DEF Least

\* A route that is known is an entry.
LEMMA FindOpen ==
  ASSUME prog \in Programs, NEW id, find(id) # 0
  PROVE  find(id) \in Open
<1> DEFINE R == LookList({"ROUTE", "AUTOMATION"}, id)
           S == LookList({"SEQUENCE"}, id)
<1>1. DOMAIN Code \subseteq Nat
  BY CodeParts
<1>2. R \subseteq Open /\ S \subseteq Open /\ Open \subseteq Nat
  <2>1. \A pc \in R \cup S : pc \in DOMAIN Code
           /\ Code[pc].op \in Events \cup {"ROUTE", "AUTOMATION", "SEQUENCE", "AUTOSTART"}
    BY DEF LookList, Code
  <2>2. QED
    BY <1>1, <2>1, EntriesOpen DEF Open
<1>3. find(id) = IF R # {} THEN Least(R) ELSE IF S # {} THEN Least(S) ELSE 0
  BY DEF find
<1> HIDE DEF R, S
<1>4. (R # {} => Least(R) \in R) /\ (S # {} => Least(S) \in S)
  BY <1>2, LeastOne
<1>5. QED
  BY <1>2, <1>3, <1>4

-----------------------------------------------------------------------------
(* The statics: what changes of them leave alone.                          *)

\* The members that matter here are there.
Shaped(y) ==
    /\ {"ring", "task", "reserved", "lcc"} \subseteq DOMAIN y
    /\ DOMAIN y.task = Addr
    /\ \A a \in Addr : {"pc", "stack", "blink"} \subseteq DOMAIN y.task[a]
    /\ Ring(y.ring)

Kept(y, z, a) ==
    /\ z.task[a].pc = y.task[a].pc /\ z.task[a].stack = y.task[a].stack
    /\ Blinking(z, a) <=> Blinking(y, a)

\* A task that has been made blinks, or starts outside the sections.
Begun(z, a) ==
    /\ z.task[a].stack = <<>>
    /\ z.task[a].pc \in DOMAIN Code
    /\ Blinking(z, a) \/ z.task[a].pc \in Open

\* From y to z tasks were made and blink tasks killed; the others are where they were,
\* and nothing was reserved or freed.
Calm(y, z) ==
    /\ Shaped(z)
    /\ z.reserved = y.reserved /\ z.lcc = y.lcc
    /\ \A a \in Range(z.ring) : (a \in Range(y.ring) /\ Kept(y, z, a)) \/ Begun(z, a)
    /\ \A a \in Range(y.ring) : ~Blinking(y, a) => a \in Range(z.ring) /\ Kept(y, z, a)

LEMMA CalmSelf ==
  ASSUME NEW y, Shaped(y)
  PROVE  Calm(y, y)
BY DEF Calm, Kept

LEMMA CalmTrans ==
  ASSUME NEW y, NEW z, NEW w, Calm(y, z), Calm(z, w)
  PROVE  Calm(y, w)
<1>1. ASSUME NEW a \in Range(w.ring)
      PROVE  (a \in Range(y.ring) /\ Kept(y, w, a)) \/ Begun(w, a)
  <2>1. CASE Begun(w, a)
    BY <2>1
  <2>2. CASE a \in Range(z.ring) /\ Kept(z, w, a)
    BY <2>2 DEF Calm, Kept, Begun
  <2>3. QED
    BY <2>1, <2>2 DEF Calm
<1>2. ASSUME NEW a \in Range(y.ring), ~Blinking(y, a)
      PROVE  a \in Range(w.ring) /\ Kept(y, w, a)
  BY <1>2 DEF Calm, Kept
<1>3. QED
  BY <1>1, <1>2 DEF Calm

\* Members that do not matter.
LEMMA CalmAside ==
  ASSUME NEW y, Shaped(y), NEW z, {"ring", "task", "reserved", "lcc"} \subseteq DOMAIN z,
         z.ring = y.ring, z.task = y.task, z.reserved = y.reserved, z.lcc = y.lcc
  PROVE  Calm(y, z)
BY DEF Calm, Kept, Shaped, Blinking

\* A new task comes into the ring; the others stay as they are.
LEMMA NewTaskMakes ==
  ASSUME NEW y, Shaped(y), CanStart(y), NEW pc, NEW loco, NEW invert, NEW on
  PROVE  LET a == Least(Fresh(y))
             z == newTask(y, pc, loco, invert, on)
         IN  /\ a \in Addr /\ a \notin Range(y.ring)
             /\ Shaped(z) /\ z.reserved = y.reserved /\ z.lcc = y.lcc
             /\ Range(z.ring) = Range(y.ring) \cup {a}
             /\ z.task[a].pc = pc /\ z.task[a].stack = <<>>
             /\ \A b \in Range(y.ring) : Kept(y, z, b)
<1> DEFINE a == Least(Fresh(y))
           z == newTask(y, pc, loco, invert, on)
<1>1. a \in Addr /\ a \notin Range(y.ring)
  <2>1. Fresh(y) # {} /\ Fresh(y) \subseteq Nat
    BY AddrAssumption DEF CanStart, Fresh
  <2>2. a \in Fresh(y)
    BY <2>1, LeastOne
  <2>3. QED
    BY <2>2 DEF Fresh
<1>2. /\ z.ring = (IF y.ring = <<>> THEN <<a>> ELSE <<Head(y.ring), a>> \o Tail(y.ring))
      /\ z.reserved = y.reserved /\ z.lcc = y.lcc
      /\ {"ring", "task", "reserved", "lcc"} \subseteq DOMAIN z
      /\ DOMAIN z.task = Addr
      /\ \A b \in Addr \ {a} : z.task[b] = y.task[b]
      /\ {"pc", "stack", "blink"} \subseteq DOMAIN z.task[a]
      /\ z.task[a].pc = pc /\ z.task[a].stack = <<>>
  BY <1>1 DEF newTask, Shaped
<1> HIDE DEF z, a
<1>3. Ring(z.ring) /\ Range(z.ring) = Range(y.ring) \cup {a}
  BY <1>1, <1>2, RingInsert DEF Shaped
<1>4. Shaped(z)
  BY <1>2, <1>3 DEF Shaped
<1>5. \A b \in Range(y.ring) : Kept(y, z, b)
  BY <1>1, <1>2, RingParts DEF Kept, Blinking, Shaped
<1>6. QED
  BY <1>1, <1>2, <1>3, <1>4, <1>5 DEF z, a

LEMMA NewTaskCalm ==
  ASSUME NEW y, Shaped(y), NEW pc \in Open, NEW loco, NEW invert, NEW on
  PROVE  Calm(y, newTask(y, pc, loco, invert, on))
<1>1. CASE ~CanStart(y)
  BY <1>1, CalmSelf DEF newTask
<1>2. CASE CanStart(y)
  BY <1>2, NewTaskMakes, SMTT(30) DEF Calm, Begun, Open
<1>3. QED
  BY <1>1, <1>2

\* A kill takes a task out of the ring and changes no other.
Gone(y, z, S) ==
    /\ Shaped(z) /\ z.task = y.task
    /\ z.reserved = y.reserved /\ z.lcc = y.lcc
    /\ Range(z.ring) = Range(y.ring) \ S

LEMMA StopKeeps ==
  ASSUME NEW y, Shaped(y), NEW l, NEW v
  PROVE  LET z == Stop(y, l, v)
         IN  /\ {"ring", "task", "reserved", "lcc"} \subseteq DOMAIN z
             /\ z.ring = y.ring /\ z.task = y.task
             /\ z.reserved = y.reserved /\ z.lcc = y.lcc
             /\ z.ids = y.ids
BY DEF Stop, setThrottle, Shaped

LEMMA KillGone ==
  ASSUME NEW y, Shaped(y), NEW a \in Range(y.ring)
  PROVE  Gone(y, kill(y, a), {a})
<1> DEFINE i == CHOOSE j \in 1 .. Len(y.ring) : y.ring[j] = a
           z == IF y.task[a].on = NoEvent THEN Stop(y, y.task[a].loco, 1) ELSE y
           w == kill(y, a)
<1>1. i \in 1 .. Len(y.ring) /\ y.ring[i] = a
  BY RingParts DEF Shaped
<1>2. /\ {"ring", "task", "reserved", "lcc"} \subseteq DOMAIN z
      /\ z.ring = y.ring /\ z.task = y.task
      /\ z.reserved = y.reserved /\ z.lcc = y.lcc
  BY StopKeeps DEF Shaped
<1>3. w = [z EXCEPT !.ids = @ \ {y.task[a].id},
                    !.ring = SubSeq(@, i + 1, Len(@)) \o SubSeq(@, 1, i - 1)]
  BY DEF kill
<1> HIDE DEF z, i, w
<1>4. /\ w.ring = SubSeq(y.ring, i + 1, Len(y.ring)) \o SubSeq(y.ring, 1, i - 1)
      /\ {"ring", "task", "reserved", "lcc"} \subseteq DOMAIN w
      /\ w.task = y.task /\ w.reserved = y.reserved /\ w.lcc = y.lcc
  BY <1>2, <1>3
<1>5. Ring(w.ring) /\ Range(w.ring) = Range(y.ring) \ {a}
  BY <1>1, <1>4, RingRemove DEF Shaped
<1>6. QED
  BY <1>4, <1>5 DEF Gone, Shaped, w
\* Killing some leaves the others.
LEMMA KillEachGone ==
  ASSUME NEW y, Shaped(y), NEW S
  PROVE  Gone(y, killEach(y, S), S)
<1> DEFINE n == Len(y.ring)
           Step(z, k) == IF y.ring[k] \in S THEN kill(z, y.ring[k]) ELSE z
           Walks(f, m) == f = [k \in 0 .. m |-> IF k = 0 THEN y ELSE Step(f[k - 1], k)]
           Text(f, k) == IF k = 0 THEN y
                         ELSE IF y.ring[k] \in S THEN With(f[k - 1], LAMBDA z : kill(z, y.ring[k]))
                         ELSE f[k - 1]
           w == CHOOSE f : f = [k \in 0 .. n |-> Text(f, k)]
<1>1. n \in Nat /\ \A i \in 1 .. n : y.ring[i] \in Range(y.ring)
  BY RingParts DEF Shaped
<1>2. killEach(y, S) = w[n]
  BY DEF killEach
<1>0. ASSUME NEW f, NEW k PROVE Text(f, k) = IF k = 0 THEN y ELSE Step(f[k - 1], k)
  BY DEF With
<1> HIDE DEF Step, Text, n
<1>3. \E f : Walks(f, n)
  <2> DEFINE T == {m \in Nat : \E f : Walks(f, m)}
  <2>1. 0 \in T
    <3>1. Walks([k \in 0 .. 0 |-> y], 0)
      OBVIOUS
    <3>2. QED
      BY <3>1
  <2>2. ASSUME NEW m \in Nat, m \in T PROVE m + 1 \in T
    <3>1. PICK f : Walks(f, m)
      BY <2>2
    <3> DEFINE h == [k \in 0 .. m + 1 |-> IF k <= m THEN f[k] ELSE Step(f[m], m + 1)]
    <3>2. ASSUME NEW k \in 0 .. m + 1
          PROVE  h[k] = IF k = 0 THEN y ELSE Step(h[k - 1], k)
      <4>1. CASE k <= m
        BY <3>1, <4>1
      <4>2. CASE k = m + 1
        BY <4>2
      <4>3. QED
        BY <4>1, <4>2
    <3>3. Walks(h, m + 1)
      BY <3>2
    <3> HIDE DEF h, Walks
    <3>4. QED
      BY <3>3
  <2> HIDE DEF T
  <2>3. Nat \subseteq T
    BY <2>1, <2>2, SetInduction
  <2>4. QED
    BY <1>1, <2>3 DEF T
<1>4. w = [k \in 0 .. n |-> IF k = 0 THEN y ELSE Step(w[k - 1], k)]
  <2>1. PICK f : Walks(f, n)
    BY <1>3
  <2>2. \E g : g = [k \in 0 .. n |-> Text(g, k)]
    <3>1. f = [k \in 0 .. n |-> Text(f, k)]
      BY <1>0, <2>1
    <3>2. QED
      BY <3>1
  <2>3. w = [k \in 0 .. n |-> Text(w, k)]
    BY <2>2
  <2> HIDE DEF w
  <2>4. QED
    BY <1>0, <2>3
<1> HIDE DEF w
<1> DEFINE Done(k) == {y.ring[i] : i \in 1 .. k} \cap S
           T == {k \in 0 .. n : Gone(y, w[k], Done(k))}
<1>5. 0 \in T
  <2>1. w[0] = y
    BY <1>1, <1>4
  <2>2. Gone(y, y, {})
    BY DEF Gone
  <2>3. QED
    BY <1>1, <2>1, <2>2
<1>6. ASSUME NEW k \in 0 .. n - 1, k \in T PROVE k + 1 \in T
  <2>1. k + 1 \in 1 .. n /\ k + 1 \in 0 .. n /\ w[k + 1] = Step(w[k], k + 1)
    BY <1>1, <1>4
  <2>2. Gone(y, w[k], Done(k))
    BY <1>6
  <2> DEFINE a == y.ring[k + 1]
  <2>3. Done(k + 1) = Done(k) \cup ({a} \cap S)
    BY <2>1
  <2>4. a \in Range(y.ring) /\ a \notin Done(k)
    BY <1>1, <2>1 DEF Shaped, Ring, n
  <2> HIDE DEF a, Done
  <2>5. CASE a \in S
    <3>1. w[k + 1] = kill(w[k], a)
      BY <2>1, <2>5 DEF Step, a
    <3>2. Shaped(w[k]) /\ a \in Range(w[k].ring)
      BY <2>2, <2>4 DEF Gone
    <3>3. Gone(w[k], w[k + 1], {a})
      BY <3>1, <3>2, KillGone
    <3>4. Gone(y, w[k + 1], Done(k + 1))
      BY <2>2, <2>3, <2>5, <3>3 DEF Gone
    <3>5. QED
      BY <2>1, <3>4
  <2>6. CASE a \notin S
    <3>1. w[k + 1] = w[k] /\ Done(k + 1) = Done(k)
      BY <2>1, <2>3, <2>6 DEF Step, a
    <3>2. QED
      BY <2>1, <2>2, <3>1
  <2>7. QED
    BY <2>5, <2>6
<1> HIDE DEF T
<1>7. n \in T
  BY <1>1, <1>5, <1>6, BoundedInduction
<1>8. Range(y.ring) \ Done(n) = Range(y.ring) \ S
  BY RingParts DEF Shaped, n
<1> HIDE DEF Done
<1>9. QED
  BY <1>2, <1>7, <1>8 DEF T, Gone

\* Blink tasks of a pin are killed;
LEMMA KillBlinkCalm ==
  ASSUME NEW y, Shaped(y), NEW p
  PROVE  Calm(y, killBlinkOnVpin(y, p))
<1> DEFINE hits == {a \in Addr : Blinking(y, a) /\ y.task[a].blinkPin = p}
           e == killEach(y, hits)
           z == [e EXCEPT !.hung = @ \/ (Head(y.ring) \in hits /\ Len(y.ring) > 1)]
<1>1. killBlinkOnVpin(y, p) = IF y.ring = <<>> THEN y ELSE z
  BY DEF killBlinkOnVpin
<1>2. \A a \in hits : Blinking(y, a)
  OBVIOUS
<1>3. Gone(y, e, hits)
  BY KillEachGone
<1> HIDE DEF hits, e
<1>4. /\ z.ring = e.ring /\ z.task = e.task /\ z.reserved = e.reserved /\ z.lcc = e.lcc
      /\ {"ring", "task", "reserved", "lcc"} \subseteq DOMAIN z
  BY <1>3 DEF Gone, Shaped
<1> HIDE DEF z
<1>5. Calm(y, e)
  BY <1>2, <1>3 DEF Calm, Gone, Kept, Blinking
<1>6. Calm(e, z)
  BY <1>3, <1>4, CalmAside DEF Gone
<1>7. QED
  BY <1>1, <1>5, <1>6, CalmSelf, CalmTrans

\* then the pin is written.
LEMMA WritePinCalm ==
  ASSUME NEW y, Shaped(y), NEW p, NEW on
  PROVE  Calm(y, writePin(y, p, on))
<1> DEFINE e == killBlinkOnVpin(y, p)
           z == [e EXCEPT !.pin[p] = on]
<1>1. Calm(y, e)
  BY KillBlinkCalm
<1> HIDE DEF e
<1>2. Shaped(e)
  BY <1>1 DEF Calm
<1>3. /\ z.ring = e.ring /\ z.task = e.task /\ z.reserved = e.reserved /\ z.lcc = e.lcc
      /\ {"ring", "task", "reserved", "lcc"} \subseteq DOMAIN z
  BY <1>2 DEF Shaped
<1> HIDE DEF z
<1>4. Calm(e, z)
  BY <1>2, <1>3, CalmAside
<1>5. QED
  BY <1>1, <1>4, CalmTrans DEF writePin, e, z
LEMMA StartCalm ==
  ASSUME NEW y, Shaped(y), NEW pc \in Open, NEW loco
  PROVE  Calm(y, startNonRecursiveTask(y, pc, loco))
BY CalmSelf, NewTaskCalm DEF startNonRecursiveTask

\* Every event starts its handlers, one after the other.
LEMMA HandleEventCalm ==
  ASSUME prog \in Programs, NEW y, Shaped(y), NEW kind \in Events, NEW id, NEW loco
  PROVE  Calm(y, handleEvent(y, kind, id, loco))
<1> DEFINE n == Len(prog.code)
           handlers == LookList({kind}, id)
           Step(z, k) == IF k \in handlers THEN startNonRecursiveTask(z, k, loco) ELSE z
           Walks(f, m) == f = [k \in 0 .. m |-> IF k = 0 THEN y ELSE Step(f[k - 1], k)]
           Text(f, k) == IF k = 0 THEN y
                         ELSE IF k \in handlers
                              THEN With(f[k - 1], LAMBDA z : startNonRecursiveTask(z, k, loco))
                         ELSE f[k - 1]
           w == CHOOSE f : f = [k \in 0 .. n |-> Text(f, k)]
<1>1. n \in Nat
  BY CodeParts DEF Code
<1>0. handlers \subseteq Open
  BY EntriesOpen DEF LookList, Code
<1>2. handleEvent(y, kind, id, loco) = w[n]
  BY DEF handleEvent
<1>3. ASSUME NEW f, NEW k PROVE Text(f, k) = IF k = 0 THEN y ELSE Step(f[k - 1], k)
  BY DEF With
<1> HIDE DEF Step, Text, n
<1>4. \E f : Walks(f, n)
  <2> DEFINE T == {m \in Nat : \E f : Walks(f, m)}
  <2>1. 0 \in T
    <3>1. Walks([k \in 0 .. 0 |-> y], 0)
      OBVIOUS
    <3>2. QED
      BY <3>1
  <2>2. ASSUME NEW m \in Nat, m \in T PROVE m + 1 \in T
    <3>1. PICK f : Walks(f, m)
      BY <2>2
    <3> DEFINE h == [k \in 0 .. m + 1 |-> IF k <= m THEN f[k] ELSE Step(f[m], m + 1)]
    <3>2. ASSUME NEW k \in 0 .. m + 1
          PROVE  h[k] = IF k = 0 THEN y ELSE Step(h[k - 1], k)
      <4>1. CASE k <= m
        BY <3>1, <4>1
      <4>2. CASE k = m + 1
        BY <4>2
      <4>3. QED
        BY <4>1, <4>2
    <3>3. Walks(h, m + 1)
      BY <3>2
    <3> HIDE DEF h, Walks
    <3>4. QED
      BY <3>3
  <2> HIDE DEF T
  <2>3. Nat \subseteq T
    BY <2>1, <2>2, SetInduction
  <2>4. QED
    BY <1>1, <2>3 DEF T
<1>5. w = [k \in 0 .. n |-> IF k = 0 THEN y ELSE Step(w[k - 1], k)]
  <2>1. PICK f : Walks(f, n)
    BY <1>4
  <2>2. \E g : g = [k \in 0 .. n |-> Text(g, k)]
    <3>1. f = [k \in 0 .. n |-> Text(f, k)]
      BY <1>3, <2>1
    <3>2. QED
      BY <3>1
  <2>3. w = [k \in 0 .. n |-> Text(w, k)]
    BY <2>2
  <2> HIDE DEF w
  <2>4. QED
    BY <1>3, <2>3
<1> HIDE DEF w
<1> DEFINE T == {k \in 0 .. n : Calm(y, w[k])}
<1>6. 0 \in T
  BY <1>1, <1>5, CalmSelf
<1>7. ASSUME NEW k \in 0 .. n - 1, k \in T PROVE k + 1 \in T
  <2>1. k + 1 \in 1 .. n /\ k + 1 \in 0 .. n /\ w[k + 1] = Step(w[k], k + 1)
    BY <1>1, <1>5
  <2>2. Calm(y, w[k]) /\ Shaped(w[k])
    BY <1>7 DEF Calm
  <2>3. Calm(w[k], w[k + 1])
    <3>1. CASE k + 1 \in handlers
      BY <1>0, <2>1, <2>2, <3>1, StartCalm DEF Step
    <3>2. CASE k + 1 \notin handlers
      BY <2>1, <2>2, <3>2, CalmSelf DEF Step
    <3>3. QED
      BY <3>1, <3>2
  <2>4. QED
    BY <2>1, <2>2, <2>3, CalmTrans
<1> HIDE DEF T
<1>8. n \in T
  BY <1>1, <1>6, <1>7, BoundedInduction
<1>9. QED
  BY <1>2, <1>8 DEF T

LEMMA SetClosedCalm ==
  ASSUME prog \in Programs, NEW y, Shaped(y), NEW n, NEW closed
  PROVE  Calm(y, setClosed(y, n, closed))
<1> DEFINE z == [y EXCEPT !.closed[n] = closed]
           kind == IF closed THEN "ONCLOSE" ELSE "ONTHROW"
<1>1. Calm(y, z) /\ Shaped(z)
  <2>1. /\ z.ring = y.ring /\ z.task = y.task /\ z.reserved = y.reserved /\ z.lcc = y.lcc
        /\ {"ring", "task", "reserved", "lcc"} \subseteq DOMAIN z
    BY DEF Shaped
  <2> HIDE DEF z
  <2>2. QED
    BY <2>1, CalmAside DEF Calm
<1>2. setClosed(y, n, closed) = IF n \notin Turnouts THEN y ELSE handleEvent(z, kind, n, 0)
  BY DEF setClosed
<1>3. kind \in Events
  BY DEF Events
<1> HIDE DEF z, kind
<1>4. Calm(z, handleEvent(z, kind, n, 0))
  BY <1>1, <1>3, HandleEventCalm
<1>5. QED
  BY <1>1, <1>2, <1>4, CalmSelf, CalmTrans

LEMMA SignalPinsCalm ==
  ASSUME NEW y, Shaped(y), NEW id, NEW rag
  PROVE  Calm(y, SignalPins(y, id, rag))
<1> DEFINE Lamp(z, c) ==
             IF prog.lamps[id][c] = 0 THEN z ELSE writePin(z, prog.lamps[id][c], c = rag)
<1>1. ASSUME NEW z, Shaped(z), NEW c PROVE Calm(z, Lamp(z, c)) /\ Shaped(Lamp(z, c))
  <2>1. Calm(z, Lamp(z, c))
    BY <1>1, CalmSelf, WritePinCalm
  <2>2. QED
    BY <2>1 DEF Calm
<1>2. SignalPins(y, id, rag) = Lamp(Lamp(Lamp(y, "RED"), "AMBER"), "GREEN")
  BY DEF SignalPins
<1> HIDE DEF Lamp
<1>3. QED
  BY <1>1, <1>2, CalmTrans

LEMMA DoSignalCalm ==
  ASSUME prog \in Programs, NEW y, Shaped(y), NEW id, NEW rag \in {"RED", "AMBER", "GREEN"}
  PROVE  Calm(y, doSignal(y, id, rag))
<1> DEFINE kind == [RED |-> "ONRED", AMBER |-> "ONAMBER", GREEN |-> "ONGREEN"][rag]
           z == handleEvent(y, kind, id, 0)
           shown == [z EXCEPT !.signal[id] = rag]
<1>1. doSignal(y, id, rag) = IF id \notin Signals THEN z
                             ELSE IF id \in prog.dccx THEN shown ELSE SignalPins(shown, id, rag)
  BY DEF doSignal
<1>2. kind \in Events
  BY DEF Events
<1> HIDE DEF kind
<1>3. Calm(y, z) /\ Shaped(z)
  BY <1>2, HandleEventCalm DEF Calm
<1> HIDE DEF z
<1>4. Calm(z, shown) /\ Shaped(shown)
  <2>1. /\ shown.ring = z.ring /\ shown.task = z.task /\ shown.reserved = z.reserved /\ shown.lcc = z.lcc
        /\ {"ring", "task", "reserved", "lcc"} \subseteq DOMAIN shown
    BY <1>3 DEF Shaped
  <2> HIDE DEF shown
  <2>2. QED
    BY <1>3, <2>1, CalmAside DEF Calm
<1> HIDE DEF shown
<1>5. Calm(shown, SignalPins(shown, id, rag))
  BY <1>4, SignalPinsCalm
<1>6. QED
  BY <1>1, <1>3, <1>4, <1>5, CalmTrans

LEMMA AspectCalm ==
  ASSUME prog \in Programs, NEW y, Shaped(y), NEW id, NEW aspect
  PROVE  Calm(y, signalAspectEvent(y, id, aspect))
BY CalmSelf, DoSignalCalm DEF signalAspectEvent

\* SET and RESET write pins in a row.
Written(y, i) ==
    LET written[k \in 0 .. i.m] ==
            IF k = 0 THEN y
            ELSE With(written[k - 1], LAMBDA z : writePin(z, i.n + k - 1, i.op = "SET"))
    IN written[i.m]

LEMMA WrittenCalm ==
  ASSUME NEW y, Shaped(y), NEW i, i.m \in Nat
  PROVE  Calm(y, Written(y, i))
<1> DEFINE n == i.m
           Step(z, k) == writePin(z, i.n + k - 1, i.op = "SET")
           Walks(f, m) == f = [k \in 0 .. m |-> IF k = 0 THEN y ELSE Step(f[k - 1], k)]
           Text(f, k) == IF k = 0 THEN y
                         ELSE With(f[k - 1], LAMBDA z : writePin(z, i.n + k - 1, i.op = "SET"))
           w == CHOOSE f : f = [k \in 0 .. n |-> Text(f, k)]
<1>1. n \in Nat
  OBVIOUS
<1>2. Written(y, i) = w[n]
  BY DEF Written
<1>3. ASSUME NEW f, NEW k PROVE Text(f, k) = IF k = 0 THEN y ELSE Step(f[k - 1], k)
  BY DEF With
<1> HIDE DEF Step, Text, n
<1>4. \E f : Walks(f, n)
  <2> DEFINE T == {m \in Nat : \E f : Walks(f, m)}
  <2>1. 0 \in T
    <3>1. Walks([k \in 0 .. 0 |-> y], 0)
      OBVIOUS
    <3>2. QED
      BY <3>1
  <2>2. ASSUME NEW m \in Nat, m \in T PROVE m + 1 \in T
    <3>1. PICK f : Walks(f, m)
      BY <2>2
    <3> DEFINE h == [k \in 0 .. m + 1 |-> IF k <= m THEN f[k] ELSE Step(f[m], m + 1)]
    <3>2. ASSUME NEW k \in 0 .. m + 1
          PROVE  h[k] = IF k = 0 THEN y ELSE Step(h[k - 1], k)
      <4>1. CASE k <= m
        BY <3>1, <4>1
      <4>2. CASE k = m + 1
        BY <4>2
      <4>3. QED
        BY <4>1, <4>2
    <3>3. Walks(h, m + 1)
      BY <3>2
    <3> HIDE DEF h, Walks
    <3>4. QED
      BY <3>3
  <2> HIDE DEF T
  <2>3. Nat \subseteq T
    BY <2>1, <2>2, SetInduction
  <2>4. QED
    BY <1>1, <2>3 DEF T
<1>5. w = [k \in 0 .. n |-> IF k = 0 THEN y ELSE Step(w[k - 1], k)]
  <2>1. PICK f : Walks(f, n)
    BY <1>4
  <2>2. \E g : g = [k \in 0 .. n |-> Text(g, k)]
    <3>1. f = [k \in 0 .. n |-> Text(f, k)]
      BY <1>3, <2>1
    <3>2. QED
      BY <3>1
  <2>3. w = [k \in 0 .. n |-> Text(w, k)]
    BY <2>2
  <2> HIDE DEF w
  <2>4. QED
    BY <1>3, <2>3
<1> HIDE DEF w
<1> DEFINE T == {k \in 0 .. n : Calm(y, w[k])}
<1>6. 0 \in T
  BY <1>1, <1>5, CalmSelf
<1>7. ASSUME NEW k \in 0 .. n - 1, k \in T PROVE k + 1 \in T
  <2>1. k + 1 \in 1 .. n /\ k + 1 \in 0 .. n /\ w[k + 1] = Step(w[k], k + 1)
    BY <1>1, <1>5
  <2>2. Calm(y, w[k]) /\ Shaped(w[k])
    BY <1>7 DEF Calm
  <2>3. Calm(w[k], w[k + 1])
    BY <2>1, <2>2, WritePinCalm DEF Step
  <2>4. QED
    BY <2>1, <2>2, <2>3, CalmTrans
<1> HIDE DEF T
<1>8. n \in T
  BY <1>1, <1>6, <1>7, BoundedInduction
<1>9. QED
  BY <1>2, <1>8 DEF T

\* begin: the AUTOSTARTs,
LEMMA AutostartedCalm ==
  ASSUME prog \in Programs, NEW y, Shaped(y)
  PROVE  Calm(y, Autostarted(y))
<1> DEFINE n == Len(prog.code)
           Step(z, k) == IF prog.code[k].op = "AUTOSTART" THEN newTask(z, k, 0, FALSE, NoEvent) ELSE z
           Walks(f, m) == f = [k \in 0 .. m |-> IF k = 0 THEN y ELSE Step(f[k - 1], k)]
           Text(f, k) == IF k = 0 THEN y
                         ELSE IF prog.code[k].op = "AUTOSTART"
                              THEN With(f[k - 1], LAMBDA z : newTask(z, k, 0, FALSE, NoEvent))
                         ELSE f[k - 1]
           w == CHOOSE f : f = [k \in 0 .. n |-> Text(f, k)]
<1>1. n \in Nat
  BY CodeParts DEF Code
<1>0. \A k \in 1 .. n : prog.code[k].op = "AUTOSTART" => k \in Open
  BY CodeParts, EntriesOpen DEF Code
<1>2. Autostarted(y) = w[n]
  BY DEF Autostarted
<1>3. ASSUME NEW f, NEW k PROVE Text(f, k) = IF k = 0 THEN y ELSE Step(f[k - 1], k)
  BY DEF With
<1> HIDE DEF Step, Text, n
<1>4. \E f : Walks(f, n)
  <2> DEFINE T == {m \in Nat : \E f : Walks(f, m)}
  <2>1. 0 \in T
    <3>1. Walks([k \in 0 .. 0 |-> y], 0)
      OBVIOUS
    <3>2. QED
      BY <3>1
  <2>2. ASSUME NEW m \in Nat, m \in T PROVE m + 1 \in T
    <3>1. PICK f : Walks(f, m)
      BY <2>2
    <3> DEFINE h == [k \in 0 .. m + 1 |-> IF k <= m THEN f[k] ELSE Step(f[m], m + 1)]
    <3>2. ASSUME NEW k \in 0 .. m + 1
          PROVE  h[k] = IF k = 0 THEN y ELSE Step(h[k - 1], k)
      <4>1. CASE k <= m
        BY <3>1, <4>1
      <4>2. CASE k = m + 1
        BY <4>2
      <4>3. QED
        BY <4>1, <4>2
    <3>3. Walks(h, m + 1)
      BY <3>2
    <3> HIDE DEF h, Walks
    <3>4. QED
      BY <3>3
  <2> HIDE DEF T
  <2>3. Nat \subseteq T
    BY <2>1, <2>2, SetInduction
  <2>4. QED
    BY <1>1, <2>3 DEF T
<1>5. w = [k \in 0 .. n |-> IF k = 0 THEN y ELSE Step(w[k - 1], k)]
  <2>1. PICK f : Walks(f, n)
    BY <1>4
  <2>2. \E g : g = [k \in 0 .. n |-> Text(g, k)]
    <3>1. f = [k \in 0 .. n |-> Text(f, k)]
      BY <1>3, <2>1
    <3>2. QED
      BY <3>1
  <2>3. w = [k \in 0 .. n |-> Text(w, k)]
    BY <2>2
  <2> HIDE DEF w
  <2>4. QED
    BY <1>3, <2>3
<1> HIDE DEF w
<1> DEFINE T == {k \in 0 .. n : Calm(y, w[k])}
<1>6. 0 \in T
  BY <1>1, <1>5, CalmSelf
<1>7. ASSUME NEW k \in 0 .. n - 1, k \in T PROVE k + 1 \in T
  <2>1. k + 1 \in 1 .. n /\ k + 1 \in 0 .. n /\ w[k + 1] = Step(w[k], k + 1)
    BY <1>1, <1>5
  <2>2. Calm(y, w[k]) /\ Shaped(w[k])
    BY <1>7 DEF Calm
  <2>3. Calm(w[k], w[k + 1])
    <3>1. CASE prog.code[k + 1].op = "AUTOSTART"
      BY <1>0, <2>1, <2>2, <3>1, NewTaskCalm DEF Step
    <3>2. CASE prog.code[k + 1].op # "AUTOSTART"
      BY <2>1, <2>2, <3>2, CalmSelf DEF Step
    <3>3. QED
      BY <3>1, <3>2
  <2>4. QED
    BY <2>1, <2>2, <2>3, CalmTrans
<1> HIDE DEF T
<1>8. n \in T
  BY <1>1, <1>6, <1>7, BoundedInduction
<1>9. QED
  BY <1>2, <1>8 DEF T

\* and the signals.
LEMMA AllRedCalm ==
  ASSUME prog \in Programs, NEW y, Shaped(y)
  PROVE  Calm(y, AllRed(y))
<1> DEFINE ids == SetToSeq(Signals)
           n == Len(ids)
           Step(z, k) == doSignal(z, ids[k], "RED")
           Walks(f, m) == f = [k \in 0 .. m |-> IF k = 0 THEN y ELSE Step(f[k - 1], k)]
           Text(f, k) == IF k = 0 THEN y
                         ELSE With(f[k - 1], LAMBDA z : doSignal(z, ids[k], "RED"))
           w == CHOOSE f : f = [k \in 0 .. n |-> Text(f, k)]
<1>1. n \in Nat
  <2>1. IsFiniteSet(Signals)
    BY AddrAssumption
  <2>0. Cardinality(Signals) \in Nat /\ ExistsBijection(1 .. Cardinality(Signals), Signals)
    BY <2>1, FS_CardinalityType
  <2>2. PICK b : b \in [1 .. Cardinality(Signals) -> Signals] /\ IsInjective(b)
    BY <2>0 DEF ExistsBijection, Bijection, Injection
  <2>3. ids \in [1 .. Cardinality(Signals) -> Signals]
    BY <2>2 DEF SetToSeq
  <2> HIDE DEF ids
  <2>4. QED
    BY <2>0, <2>3
<1>2. AllRed(y) = w[n]
  BY DEF AllRed
<1>3. ASSUME NEW f, NEW k PROVE Text(f, k) = IF k = 0 THEN y ELSE Step(f[k - 1], k)
  BY DEF With
<1> HIDE DEF Step, Text, n
<1>4. \E f : Walks(f, n)
  <2> DEFINE T == {m \in Nat : \E f : Walks(f, m)}
  <2>1. 0 \in T
    <3>1. Walks([k \in 0 .. 0 |-> y], 0)
      OBVIOUS
    <3>2. QED
      BY <3>1
  <2>2. ASSUME NEW m \in Nat, m \in T PROVE m + 1 \in T
    <3>1. PICK f : Walks(f, m)
      BY <2>2
    <3> DEFINE h == [k \in 0 .. m + 1 |-> IF k <= m THEN f[k] ELSE Step(f[m], m + 1)]
    <3>2. ASSUME NEW k \in 0 .. m + 1
          PROVE  h[k] = IF k = 0 THEN y ELSE Step(h[k - 1], k)
      <4>1. CASE k <= m
        BY <3>1, <4>1
      <4>2. CASE k = m + 1
        BY <4>2
      <4>3. QED
        BY <4>1, <4>2
    <3>3. Walks(h, m + 1)
      BY <3>2
    <3> HIDE DEF h, Walks
    <3>4. QED
      BY <3>3
  <2> HIDE DEF T
  <2>3. Nat \subseteq T
    BY <2>1, <2>2, SetInduction
  <2>4. QED
    BY <1>1, <2>3 DEF T
<1>5. w = [k \in 0 .. n |-> IF k = 0 THEN y ELSE Step(w[k - 1], k)]
  <2>1. PICK f : Walks(f, n)
    BY <1>4
  <2>2. \E g : g = [k \in 0 .. n |-> Text(g, k)]
    <3>1. f = [k \in 0 .. n |-> Text(f, k)]
      BY <1>3, <2>1
    <3>2. QED
      BY <3>1
  <2>3. w = [k \in 0 .. n |-> Text(w, k)]
    BY <2>2
  <2> HIDE DEF w
  <2>4. QED
    BY <1>3, <2>3
<1> HIDE DEF w
<1> DEFINE T == {k \in 0 .. n : Calm(y, w[k])}
<1>6. 0 \in T
  BY <1>1, <1>5, CalmSelf
<1>7. ASSUME NEW k \in 0 .. n - 1, k \in T PROVE k + 1 \in T
  <2>1. k + 1 \in 1 .. n /\ k + 1 \in 0 .. n /\ w[k + 1] = Step(w[k], k + 1)
    BY <1>1, <1>5
  <2>2. Calm(y, w[k]) /\ Shaped(w[k])
    BY <1>7 DEF Calm
  <2>3. Calm(w[k], w[k + 1])
    BY <2>1, <2>2, DoSignalCalm DEF Step
  <2>4. QED
    BY <2>1, <2>2, <2>3, CalmTrans
<1> HIDE DEF T
<1>8. n \in T
  BY <1>1, <1>6, <1>7, BoundedInduction
<1>9. QED
  BY <1>2, <1>8 DEF T
-----------------------------------------------------------------------------
(* The invariant.                                                          *)

\* Who is in a section; a blink task has no place in the program.
Inside(y, s) == {a \in Range(y.ring) : y.task[a].pc \in Zone(s) /\ ~Blinking(y, a)}

\* Tasks return to, and events of the adapter start, outside the sections.  Whoever is in
\* a section that no user freed is alone there and holds it.
Sound(y, freed) ==
    /\ Shaped(y)
    /\ \A a \in Range(y.ring) : y.task[a].pc \in DOMAIN Code /\ y.task[a].stack \in Seq(Open)
    /\ y.lcc \in [pc : DOMAIN Code, index : Nat, lookup : [1 .. countLCCLookup -> Open]]
    /\ \A s \in DOMAIN prog.zones \ freed :
          /\ Inside(y, s) # {} => s \in y.reserved
          /\ \A a, b \in Inside(y, s) : a = b

\* Calm changes preserve it,
LEMMA CalmSound ==
  ASSUME NEW y, NEW z, NEW freed, Sound(y, freed), Calm(y, z)
  PROVE  Sound(z, freed)
<1>1. ASSUME NEW a \in Range(z.ring)
      PROVE  z.task[a].pc \in DOMAIN Code /\ z.task[a].stack \in Seq(Open)
  <2>1. <<>> \in Seq(Open)
    OBVIOUS
  <2>2. QED
    BY <2>1 DEF Sound, Calm, Kept, Begun
<1>2. ASSUME NEW s \in DOMAIN prog.zones PROVE Inside(z, s) \subseteq Inside(y, s)
  BY DEF Calm, Inside, Kept, Begun, Open
<1>3. Shaped(z) /\ z.lcc = y.lcc /\ z.reserved = y.reserved
  BY DEF Calm
<1>4. ASSUME NEW s \in DOMAIN prog.zones \ freed
      PROVE  /\ Inside(z, s) # {} => s \in z.reserved
             /\ \A a, b \in Inside(z, s) : a = b
  BY <1>2, <1>3 DEF Sound
<1>5. QED
  BY <1>1, <1>3, <1>4 DEF Sound

\* and so do kills and the turns of the ring.
LEMMA GoneSound ==
  ASSUME NEW y, NEW z, NEW freed, NEW S, Sound(y, freed), Gone(y, z, S)
  PROVE  Sound(z, freed)
<1>1. ASSUME NEW s \in DOMAIN prog.zones PROVE Inside(z, s) \subseteq Inside(y, s)
  BY DEF Gone, Inside, Blinking
<1>2. QED
  BY <1>1 DEF Sound, Gone

\* A task that is served, not a blink task.
Serves(y, a, freed) ==
    prog \in Programs /\ Sound(y, freed) /\ a \in Range(y.ring) /\ ~Blinking(y, a)

\* One task changes its place or its stack.
Steps(z, w, a) ==
    /\ Shaped(w) /\ w.ring = z.ring /\ w.lcc = z.lcc /\ w.reserved = z.reserved
    /\ \A b \in Addr \ {a} : Kept(z, w, b)
    /\ Blinking(w, a) <=> Blinking(z, a)

Placed(z, a, pc) == [z EXCEPT !.task[a].pc = pc]
Stacked(z, a, stack) == [z EXCEPT !.task[a].stack = stack]

LEMMA PlacedSteps ==
  ASSUME NEW z, Shaped(z), NEW a \in Addr, NEW pc
  PROVE  LET w == Placed(z, a, pc)
         IN  Steps(z, w, a) /\ w.task[a].pc = pc /\ w.task[a].stack = z.task[a].stack
<1> DEFINE w == Placed(z, a, pc)
<1>1. /\ w.ring = z.ring /\ w.lcc = z.lcc /\ w.reserved = z.reserved
      /\ {"ring", "task", "reserved", "lcc"} \subseteq DOMAIN w
      /\ DOMAIN w.task = Addr
      /\ \A b \in Addr \ {a} : w.task[b] = z.task[b]
      /\ {"pc", "stack", "blink"} \subseteq DOMAIN w.task[a]
      /\ w.task[a].pc = pc /\ w.task[a].stack = z.task[a].stack /\ w.task[a].blink = z.task[a].blink
  BY DEF Shaped, Placed
<1> HIDE DEF w
<1>2. Shaped(w) /\ (\A b \in Addr \ {a} : Kept(z, w, b)) /\ (Blinking(w, a) <=> Blinking(z, a))
  BY <1>1 DEF Shaped, Kept, Blinking
<1>3. QED
  BY <1>1, <1>2 DEF Steps, w

LEMMA StackedSteps ==
  ASSUME NEW z, Shaped(z), NEW a \in Addr, NEW stack
  PROVE  LET w == Stacked(z, a, stack)
         IN  Steps(z, w, a) /\ w.task[a].pc = z.task[a].pc /\ w.task[a].stack = stack
<1> DEFINE w == Stacked(z, a, stack)
<1>1. /\ w.ring = z.ring /\ w.lcc = z.lcc /\ w.reserved = z.reserved
      /\ {"ring", "task", "reserved", "lcc"} \subseteq DOMAIN w
      /\ DOMAIN w.task = Addr
      /\ \A b \in Addr \ {a} : w.task[b] = z.task[b]
      /\ {"pc", "stack", "blink"} \subseteq DOMAIN w.task[a]
      /\ w.task[a].pc = z.task[a].pc /\ w.task[a].stack = stack /\ w.task[a].blink = z.task[a].blink
  BY DEF Shaped, Stacked
<1> HIDE DEF w
<1>2. Shaped(w) /\ (\A b \in Addr \ {a} : Kept(z, w, b)) /\ (Blinking(w, a) <=> Blinking(z, a))
  BY <1>1 DEF Shaped, Kept, Blinking
<1>3. QED
  BY <1>1, <1>2 DEF Steps, w

\* SKIPOP places a task one further.
LEMMA SkipSteps ==
  ASSUME NEW z, Shaped(z), NEW a \in Addr
  PROVE  /\ SKIPOP(z, a) = Placed(z, a, z.task[a].pc + 1)
         /\ Steps(z, SKIPOP(z, a), a)
         /\ SKIPOP(z, a).task[a].pc = z.task[a].pc + 1
         /\ SKIPOP(z, a).task[a].stack = z.task[a].stack
<1>1. SKIPOP(z, a) = Placed(z, a, z.task[a].pc + 1)
  BY DEF SKIPOP, Placed, Shaped
<1> DEFINE pc == z.task[a].pc + 1
<1>2. SKIPOP(z, a) = Placed(z, a, pc) /\ pc = z.task[a].pc + 1
  BY <1>1
<1> HIDE DEF pc
<1>3. QED
  BY <1>1, <1>2, PlacedSteps

\* It may go anywhere where it does not come into a section.
LEMMA MovedSound ==
  ASSUME NEW y, NEW a, NEW freed, Serves(y, a, freed), NEW z, Calm(y, z), NEW w, Steps(z, w, a),
         w.task[a].stack \in Seq(Open), w.task[a].pc \in DOMAIN Code,
         \A s \in DOMAIN prog.zones : w.task[a].pc \in Zone(s) => y.task[a].pc \in Zone(s)
  PROVE  Sound(w, freed)
<1>1. Sound(z, freed) /\ Sound(y, freed)
  BY CalmSound DEF Serves
<1>2. a \in Range(z.ring) /\ Kept(y, z, a) /\ ~Blinking(z, a) /\ Range(z.ring) \subseteq Addr
  BY RingParts DEF Serves, Calm, Kept, Shaped
<1>3. ASSUME NEW s \in DOMAIN prog.zones PROVE Inside(w, s) \subseteq Inside(z, s)
  <2>1. ASSUME NEW b \in Inside(w, s), b # a PROVE b \in Inside(z, s)
    BY <1>2, <2>1 DEF Inside, Kept, Steps
  <2>2. a \in Inside(w, s) => a \in Inside(z, s)
    BY <1>2 DEF Inside, Kept
  <2>3. QED
    BY <2>1, <2>2
<1>4. ASSUME NEW b \in Range(w.ring)
      PROVE  w.task[b].pc \in DOMAIN Code /\ w.task[b].stack \in Seq(Open)
  BY <1>1, <1>2 DEF Sound, Kept, Steps
<1>5. QED
  BY <1>1, <1>3, <1>4 DEF Sound, Steps

\* What a served task is.
LEMMA ServedTask ==
  ASSUME NEW y, NEW a, NEW freed, Serves(y, a, freed)
  PROVE  /\ prog \in Programs /\ Sound(y, freed) /\ Shaped(y)
         /\ a \in Addr /\ a \in Range(y.ring) /\ ~Blinking(y, a)
         /\ y.task[a].pc \in DOMAIN Code /\ y.task[a].pc \in Nat
         /\ y.task[a].stack \in Seq(Open)
         /\ Instr(y, a) = Code[y.task[a].pc] /\ Op(y, a) = Instr(y, a).op
BY CodeParts, RingParts DEF Serves, Sound, Shaped, Instr, Op, Code

\* SKIPOP, after all but a few instructions.
Steady(op) == op \notin Leaves \cup {"RESERVE", "IFRESERVE"}

LEMMA SkipSound ==
  ASSUME NEW y, NEW a, NEW freed, Serves(y, a, freed), NEW z, Calm(y, z), Steady(Op(y, a))
  PROVE  Sound(SKIPOP(z, a), freed)
<1> DEFINE pc == y.task[a].pc
<1>1. /\ a \in Addr /\ pc \in DOMAIN Code /\ pc \in Nat /\ prog \in Programs
      /\ y.task[a].stack \in Seq(Open) /\ a \in Range(y.ring) /\ ~Blinking(y, a)
      /\ Op(y, a) = Code[pc].op
  BY ServedTask
<1>2. a \in Range(z.ring) /\ z.task[a].pc = pc /\ z.task[a].stack = y.task[a].stack /\ Shaped(z)
  BY <1>1 DEF Calm, Kept
<1>3. pc + 1 \in DOMAIN Code
  BY <1>1, CodeParts DEF Steady, Leaves
<1>4. ASSUME NEW s \in DOMAIN prog.zones, pc + 1 \in Zone(s) PROVE pc \in Zone(s)
  BY <1>1, <1>4, CodeParts DEF Guarded, Steady, Zone, Code
<1>5. Steps(z, SKIPOP(z, a), a) /\ SKIPOP(z, a).task[a].pc = pc + 1
      /\ SKIPOP(z, a).task[a].stack = y.task[a].stack
  BY <1>1, <1>2, SkipSteps
<1> DEFINE w == SKIPOP(z, a)
<1> HIDE DEF w
<1>6. QED
  BY <1>1, <1>3, <1>4, <1>5, MovedSound DEF w

\* Into a section: the task reserves it, and nobody was there.
LEMMA ReserveSound ==
  ASSUME NEW y, NEW a, NEW freed, Serves(y, a, freed), Op(y, a) \in {"RESERVE", "IFRESERVE"},
         Instr(y, a).n \notin y.reserved
  PROVE  Sound(SKIPOP([y EXCEPT !.reserved = @ \cup {Instr(y, a).n}], a), freed)
<1> DEFINE pc == y.task[a].pc
           n == Instr(y, a).n
           z == [y EXCEPT !.reserved = @ \cup {n}]
           w == SKIPOP(z, a)
<1>1. /\ a \in Addr /\ pc \in DOMAIN Code /\ pc \in Nat /\ prog \in Programs
      /\ y.task[a].stack \in Seq(Open) /\ a \in Range(y.ring) /\ ~Blinking(y, a)
      /\ Op(y, a) = Code[pc].op /\ n = Code[pc].n /\ Shaped(y) /\ Sound(y, freed)
  BY ServedTask
<1>2. pc + 1 \in DOMAIN Code
  BY <1>1, CodeParts
<1>3. ASSUME NEW s \in DOMAIN prog.zones, pc + 1 \in Zone(s) PROVE pc \in Zone(s) \/ s = n
  BY <1>1, <1>3, CodeParts DEF Guarded, Leaves, Zone, Code
<1>4. /\ z.ring = y.ring /\ z.task = y.task /\ z.lcc = y.lcc
      /\ z.reserved = y.reserved \cup {n}
      /\ {"ring", "task", "reserved", "lcc"} \subseteq DOMAIN z
  BY <1>1 DEF Shaped
<1> HIDE DEF pc, n, z
<1>5. Shaped(z)
  BY <1>1, <1>4 DEF Shaped
<1>6. /\ Shaped(w) /\ w.ring = z.ring /\ w.lcc = z.lcc /\ w.reserved = z.reserved
      /\ \A b \in Addr \ {a} : Kept(z, w, b)
      /\ w.task[a].pc = pc + 1 /\ w.task[a].stack = z.task[a].stack
      /\ Blinking(w, a) <=> Blinking(z, a)
  BY <1>1, <1>4, <1>5, SkipSteps DEF Steps, pc
<1> HIDE DEF w
<1>8. Range(y.ring) \subseteq Addr
  BY <1>1, RingParts DEF Shaped
<1>9. ASSUME NEW b \in Range(w.ring)
      PROVE  w.task[b].pc \in DOMAIN Code /\ w.task[b].stack \in Seq(Open)
  BY <1>1, <1>2, <1>4, <1>6, <1>8 DEF Sound, Kept
<1>10. ASSUME NEW s \in DOMAIN prog.zones, NEW b \in Inside(w, s)
       PROVE  b \in Inside(y, s) \/ (b = a /\ s = n)
  <2>1. CASE b = a
    BY <1>1, <1>3, <1>4, <1>6, <1>10, <2>1 DEF Inside, pc
  <2>2. CASE b # a
    BY <1>4, <1>6, <1>8, <1>10, <2>2 DEF Inside, Kept, Blinking
  <2>3. QED
    BY <2>1, <2>2
<1>11. ASSUME NEW s \in DOMAIN prog.zones \ freed
       PROVE  /\ Inside(w, s) # {} => s \in w.reserved
              /\ \A b, c \in Inside(w, s) : b = c
  <2>1. CASE s = n
    <3>1. Inside(y, s) = {}
      BY <1>1, <2>1 DEF Sound, n
    <3>2. QED
      BY <1>4, <1>6, <1>10, <2>1, <3>1
  <2>2. CASE s # n
    BY <1>1, <1>4, <1>6, <1>10, <2>2 DEF Sound
  <2>3. QED
    BY <2>1, <2>2
<1>12. Sound(w, freed)
  BY <1>1, <1>4, <1>6, <1>9, <1>11 DEF Sound
<1>13. QED
  BY <1>12 DEF w, z, n

\* Out of it: the task that frees it was alone there.
LEMMA FreeSound ==
  ASSUME NEW y, NEW a, NEW freed, Serves(y, a, freed), Op(y, a) = "FREE"
  PROVE  Sound(SKIPOP([y EXCEPT !.reserved = @ \ {Instr(y, a).n}], a), freed)
<1> DEFINE pc == y.task[a].pc
           n == Instr(y, a).n
           z == [y EXCEPT !.reserved = @ \ {n}]
           v == SKIPOP(y, a)
           w == [z EXCEPT !.task[a].pc = pc + 1]
<1>1. /\ a \in Addr /\ pc \in DOMAIN Code /\ pc \in Nat /\ prog \in Programs
      /\ a \in Range(y.ring) /\ ~Blinking(y, a)
      /\ Op(y, a) = Code[pc].op /\ n = Code[pc].n /\ Shaped(y) /\ Sound(y, freed)
  BY ServedTask
<1>2. Sound(v, freed)
  <2>1. Steady(Op(y, a))
    BY SMTT(30) DEF Steady, Leaves
  <2>2. QED
    BY <1>1, <2>1, CalmSelf, SkipSound
<1>3. n \in DOMAIN prog.zones => pc \in Zone(n) /\ pc + 1 \notin Zone(n)
  BY <1>1, CodeParts DEF Guarded, Zone, Code
<1>4. /\ v.ring = y.ring /\ v.lcc = y.lcc /\ v.reserved = y.reserved /\ v.task[a].pc = pc + 1
      /\ Blinking(v, a) <=> Blinking(y, a)
      /\ \A b \in Addr \ {a} : Kept(y, v, b)
  BY <1>1, SkipSteps DEF Steps
<1>5. /\ w.ring = v.ring /\ w.task = v.task /\ w.lcc = v.lcc
      /\ w.reserved = v.reserved \ {n}
      /\ {"ring", "task", "reserved", "lcc"} \subseteq DOMAIN w
  BY <1>1 DEF Shaped, SKIPOP
<1>6. SKIPOP(z, a) = w
  BY <1>1 DEF SKIPOP, Shaped
<1> HIDE DEF pc, n, z, v, w
<1>7. Range(y.ring) \subseteq Addr
  BY <1>1, RingParts DEF Shaped
<1>8. ASSUME NEW s \in DOMAIN prog.zones PROVE Inside(w, s) = Inside(v, s)
  BY <1>5 DEF Inside, Blinking
<1>9. n \in DOMAIN prog.zones \ freed => Inside(v, n) = {}
  <2> SUFFICES ASSUME n \in DOMAIN prog.zones \ freed, NEW b \in Inside(v, n) PROVE FALSE
    OBVIOUS
  <2>1. a \in Inside(y, n) /\ b # a
    BY <1>1, <1>3, <1>4 DEF Inside, pc
  <2>2. b \in Inside(y, n)
    BY <1>4, <1>7, <2>1 DEF Inside, Kept
  <2>3. QED
    BY <1>1, <2>1, <2>2 DEF Sound
<1>10. Shaped(w)
  BY <1>2, <1>5 DEF Shaped, Sound
<1>11. Sound(w, freed)
  BY <1>2, <1>5, <1>8, <1>9, <1>10 DEF Sound
<1>12. QED
  BY <1>6, <1>11 DEF z, n

-----------------------------------------------------------------------------
(* Changes of the members of tasks that leave them where they are.         *)

LEMMA CalmTask ==
  ASSUME NEW y, Shaped(y), NEW z, {"ring", "task", "reserved", "lcc"} \subseteq DOMAIN z,
         z.ring = y.ring, z.reserved = y.reserved, z.lcc = y.lcc, DOMAIN z.task = Addr,
         \A b \in Addr : /\ {"pc", "stack", "blink"} \subseteq DOMAIN z.task[b]
                         /\ z.task[b].pc = y.task[b].pc /\ z.task[b].stack = y.task[b].stack
                         /\ Blinking(z, b) <=> Blinking(y, b)
  PROVE  Calm(y, z)
<1>1. Shaped(z)
  BY DEF Shaped
<1>2. Range(y.ring) \subseteq Addr
  BY RingParts DEF Shaped
<1>3. QED
  BY <1>1, <1>2 DEF Calm, Kept

\* delayMe, the end of a delay, and the task's loco.
LEMMA MemberCalm ==
  ASSUME NEW y, Shaped(y), NEW a \in Addr, NEW v
  PROVE  /\ Calm(y, [y EXCEPT !.task[a].delayed = v])
         /\ Calm(y, [y EXCEPT !.task[a].loco = v])
         /\ Calm(y, [y EXCEPT !.task[a].invert = v])
<1> DEFINE d == [y EXCEPT !.task[a].delayed = v]
           l == [y EXCEPT !.task[a].loco = v]
           i == [y EXCEPT !.task[a].invert = v]
<1>1. Calm(y, d)
  <2>1. /\ d.ring = y.ring /\ d.reserved = y.reserved /\ d.lcc = y.lcc /\ DOMAIN d.task = Addr
        /\ {"ring", "task", "reserved", "lcc"} \subseteq DOMAIN d
        /\ \A b \in Addr : /\ {"pc", "stack", "blink"} \subseteq DOMAIN d.task[b]
                           /\ d.task[b].pc = y.task[b].pc /\ d.task[b].stack = y.task[b].stack
                           /\ d.task[b].blink = y.task[b].blink
    BY DEF Shaped
  <2> HIDE DEF d
  <2>2. QED
    BY <2>1, CalmTask DEF Blinking
<1>2. Calm(y, l)
  <2>1. /\ l.ring = y.ring /\ l.reserved = y.reserved /\ l.lcc = y.lcc /\ DOMAIN l.task = Addr
        /\ {"ring", "task", "reserved", "lcc"} \subseteq DOMAIN l
        /\ \A b \in Addr : /\ {"pc", "stack", "blink"} \subseteq DOMAIN l.task[b]
                           /\ l.task[b].pc = y.task[b].pc /\ l.task[b].stack = y.task[b].stack
                           /\ l.task[b].blink = y.task[b].blink
    BY DEF Shaped
  <2> HIDE DEF l
  <2>2. QED
    BY <2>1, CalmTask DEF Blinking
<1>3. Calm(y, i)
  <2>1. /\ i.ring = y.ring /\ i.reserved = y.reserved /\ i.lcc = y.lcc /\ DOMAIN i.task = Addr
        /\ {"ring", "task", "reserved", "lcc"} \subseteq DOMAIN i
        /\ \A b \in Addr : /\ {"pc", "stack", "blink"} \subseteq DOMAIN i.task[b]
                           /\ i.task[b].pc = y.task[b].pc /\ i.task[b].stack = y.task[b].stack
                           /\ i.task[b].blink = y.task[b].blink
    BY DEF Shaped
  <2> HIDE DEF i
  <2>2. QED
    BY <2>1, CalmTask DEF Blinking
<1>4. QED
  BY <1>1, <1>2, <1>3

LEMMA TakeCalm ==
  ASSUME NEW y, Shaped(y), NEW a \in Addr, NEW l, NEW inv
  PROVE  Calm(y, [y EXCEPT !.task[a].loco = l, !.task[a].invert = inv])
<1> DEFINE z == [y EXCEPT !.task[a].loco = l]
           w == [z EXCEPT !.task[a].invert = inv]
<1>1. Calm(y, z) /\ Shaped(z)
  BY MemberCalm, ZenonT(60) DEF Calm
<1>2. w = [y EXCEPT !.task[a].loco = l, !.task[a].invert = inv]
  BY DEF Shaped
<1> HIDE DEF z
<1>3. Calm(z, w)
  BY <1>1, MemberCalm
<1> HIDE DEF w
<1>4. QED
  BY <1>1, <1>2, <1>3, CalmTrans DEF w, z

\* What an AT remembers.
LEMMA WaitCalm ==
  ASSUME NEW y, Shaped(y), NEW a \in Addr, ~Blinking(y, a),
         NEW v, v \notin {"blink_low", "blink_high"}
  PROVE  Calm(y, [y EXCEPT !.task[a].blink = v])
<1> DEFINE d == [y EXCEPT !.task[a].blink = v]
<1>1. /\ d.ring = y.ring /\ d.reserved = y.reserved /\ d.lcc = y.lcc /\ DOMAIN d.task = Addr
      /\ {"ring", "task", "reserved", "lcc"} \subseteq DOMAIN d
      /\ \A b \in Addr : /\ {"pc", "stack", "blink"} \subseteq DOMAIN d.task[b]
                         /\ d.task[b].pc = y.task[b].pc /\ d.task[b].stack = y.task[b].stack
                         /\ d.task[b].blink = IF b = a THEN v ELSE y.task[b].blink
  BY DEF Shaped
<1> HIDE DEF d
<1>2. \A b \in Addr : Blinking(d, b) <=> Blinking(y, b)
  BY <1>1 DEF Blinking
<1>3. QED
  BY <1>1, <1>2, CalmTask DEF d

LEMMA DelaySound ==
  ASSUME NEW y, NEW freed, Sound(y, freed), NEW a \in Addr, NEW z, Calm(y, z)
  PROVE  Sound(delayMe(z, a), freed)
<1>1. Shaped(z)
  BY DEF Calm
<1>2. Calm(z, delayMe(z, a))
  BY <1>1, MemberCalm DEF delayMe
<1>3. QED
  BY <1>2, CalmTrans, CalmSound

\* The loco table.
LEMMA StopCalm ==
  ASSUME NEW y, Shaped(y), NEW l, NEW v, NEW fwd
  PROVE  /\ Calm(y, setThrottle(y, l, v, fwd)) /\ Calm(y, Stop(y, l, v))
         /\ Calm(y, estopAll(y))
<1>1. Calm(y, setThrottle(y, l, v, fwd))
  <2> DEFINE z == setThrottle(y, l, v, fwd)
  <2>1. /\ {"ring", "task", "reserved", "lcc"} \subseteq DOMAIN z
        /\ z.ring = y.ring /\ z.task = y.task /\ z.reserved = y.reserved /\ z.lcc = y.lcc
    BY DEF setThrottle, Shaped
  <2> HIDE DEF z
  <2>2. QED
    BY <2>1, CalmAside DEF z
<1>2. Calm(y, Stop(y, l, v))
  <2> DEFINE z == Stop(y, l, v)
  <2>1. /\ {"ring", "task", "reserved", "lcc"} \subseteq DOMAIN z
        /\ z.ring = y.ring /\ z.task = y.task /\ z.reserved = y.reserved /\ z.lcc = y.lcc
    BY StopKeeps
  <2> HIDE DEF z
  <2>2. QED
    BY <2>1, CalmAside DEF z
<1>3. Calm(y, estopAll(y))
  <2> DEFINE z == estopAll(y)
  <2>1. /\ {"ring", "task", "reserved", "lcc"} \subseteq DOMAIN z
        /\ z.ring = y.ring /\ z.task = y.task /\ z.reserved = y.reserved /\ z.lcc = y.lcc
    BY DEF estopAll, Shaped
  <2> HIDE DEF z
  <2>2. QED
    BY <2>1, CalmAside DEF z
<1>4. QED
  BY <1>1, <1>2, <1>3

LEMMA KillSound ==
  ASSUME NEW y, NEW freed, Sound(y, freed), NEW a \in Range(y.ring)
  PROVE  Sound(kill(y, a), freed)
<1>1. Gone(y, kill(y, a), {a})
  BY KillGone DEF Sound
<1>2. QED
  BY <1>1, GoneSound

LEMMA KillAllSound ==
  ASSUME NEW y, NEW freed, Sound(y, freed)
  PROVE  Sound(KillAll(y), freed)
<1>1. Gone(y, KillAll(y), Range(y.ring))
  BY KillEachGone DEF Sound, KillAll
<1>2. QED
  BY <1>1, GoneSound

\* FOLLOW and CALL, to a route that is known or not.
LEMMA GotoSound ==
  ASSUME NEW y, NEW a, NEW freed, Serves(y, a, freed), NEW id
  PROVE  Sound(Goto(y, a, find(id)), freed)
<1>1. CASE find(id) = 0
  BY <1>1, ServedTask, KillSound DEF Goto
<1>2. CASE find(id) # 0
  <2> DEFINE pc == find(id)
             w == Placed(y, a, pc)
  <2>1. pc \in Open
    BY <1>2, ServedTask, FindOpen
  <2>2. Goto(y, a, find(id)) = w
    BY <1>2 DEF Goto, Placed
  <2> HIDE DEF pc
  <2>3. Steps(y, w, a) /\ w.task[a].pc = pc /\ w.task[a].stack = y.task[a].stack
    BY ServedTask, PlacedSteps
  <2> HIDE DEF w
  <2>4. Sound(w, freed)
    BY <2>1, <2>3, ServedTask, CalmSelf, MovedSound DEF Open
  <2>5. QED
    BY <2>2, <2>4
<1>3. QED
  BY <1>1, <1>2

LEMMA CallSound ==
  ASSUME NEW y, NEW a, NEW freed, Serves(y, a, freed), Op(y, a) \in {"CALL", "RANDOM_CALL"}, NEW id
  PROVE  Sound(Goto([y EXCEPT !.task[a].stack = Append(@, y.task[a].pc + 1)], a, find(id)), freed)
<1> DEFINE pc == y.task[a].pc
           stack == Append(y.task[a].stack, pc + 1)
           z == Stacked(y, a, stack)
<1>1. pc + 1 \in Open
  <2>1. pc + 1 \in DOMAIN Code
    BY ServedTask, CodeParts
  <2>2. \A s \in DOMAIN prog.zones : pc + 1 \notin Zone(s)
    BY ServedTask, CodeParts DEF Guarded, Zone, Code
  <2>3. QED
    BY <2>1, <2>2 DEF Open
<1>2. stack \in Seq(Open)
  BY <1>1, ServedTask, AppendProperties
<1>3. [y EXCEPT !.task[a].stack = Append(@, y.task[a].pc + 1)] = z
  BY ServedTask DEF Stacked, Shaped
<1> HIDE DEF stack
<1>4. Steps(y, z, a) /\ z.task[a].pc = pc /\ z.task[a].stack = stack
  BY ServedTask, StackedSteps
<1> HIDE DEF z
<1>5. Sound(z, freed)
  BY <1>2, <1>4, ServedTask, CalmSelf, MovedSound
<1>6. Serves(z, a, freed)
  BY <1>4, <1>5 DEF Serves, Steps
<1>7. QED
  BY <1>3, <1>6, GotoSound

LEMMA ReturnSound ==
  ASSUME NEW y, NEW a, NEW freed, Serves(y, a, freed), y.task[a].stack # <<>>
  PROVE  Sound([y EXCEPT !.task[a].pc = Last(y.task[a].stack), !.task[a].stack = Front(@)], freed)
<1> DEFINE old == y.task[a].stack
           pc == Last(old)
           stack == Front(old)
           z == Stacked(y, a, stack)
           w == Placed(z, a, pc)
<1>1. old \in Seq(Open) /\ Len(old) \in Nat \ {0}
  BY ServedTask, EmptySeq
<1>2. pc \in Open
  BY <1>1, ElementOfSeq DEF Last
<1>3. stack \in Seq(Open)
  <2>1. \A i \in 1 .. Len(old) - 1 : old[i] \in Open
    BY <1>1, ElementOfSeq
  <2>2. QED
    BY <1>1, <2>1, SubSeqProperties DEF Front
<1>4. [y EXCEPT !.task[a].pc = Last(y.task[a].stack), !.task[a].stack = Front(@)] = w
  BY ServedTask DEF Stacked, Placed, Shaped
<1> HIDE DEF old, pc, stack
<1>5. Steps(y, z, a) /\ z.task[a].pc = y.task[a].pc /\ z.task[a].stack = stack
  BY ServedTask, StackedSteps
<1> HIDE DEF z
<1>6. Sound(z, freed)
  BY <1>3, <1>5, ServedTask, CalmSelf, MovedSound
<1>7. Serves(z, a, freed)
  BY <1>5, <1>6 DEF Serves, Steps
<1>8. Steps(z, w, a) /\ w.task[a].pc = pc /\ w.task[a].stack = stack
  BY <1>5, ServedTask, PlacedSteps DEF Steps
<1> HIDE DEF w
<1>9. Sound(w, freed)
  BY <1>2, <1>3, <1>5, <1>7, <1>8, ServedTask, CalmSelf, MovedSound DEF Open
<1>10. QED
  BY <1>4, <1>9

-----------------------------------------------------------------------------
(* loop2, by groups of instructions.                                       *)

LEMMA SetSound ==
  ASSUME NEW y, NEW a, NEW freed, Serves(y, a, freed), Steady(Op(y, a)),
         NEW v, NEW fwd, Set(y, a, v, fwd)
  PROVE  Sound(x', freed)
<1> DEFINE z == setThrottle(y, y.task[a].loco, v, fwd)
<1>1. Calm(y, z)
  BY ServedTask, StopCalm
<1>2. x' = SKIPOP(z, a)
  BY DEF Set
<1> HIDE DEF z
<1>3. QED
  BY <1>1, <1>2, SkipSound

LEMMA DriveSound ==
  ASSUME NEW y, NEW a, NEW freed, Serves(y, a, freed), Drive(y, a)
  PROVE  Sound(x', freed)
<1> DEFINE i == Instr(y, a)
           t == y.task[a]
           saved == IF t.loco = 0 THEN Speed(y, a) ELSE y.saved[t.loco]
           z == IF t.loco = 0 THEN y ELSE [y EXCEPT !.saved[t.loco] = Speed(y, a)]
<1>1. \/ i.op = "FWD" /\ Set(y, a, i.n, ~t.invert)
      \/ i.op = "REV" /\ Set(y, a, i.n, t.invert)
      \/ i.op = "SPEED" /\ Set(y, a, i.n, Speed(y, a).fwd)
      \/ i.op = "RESTORE_SPEED" /\ Set(y, a, saved.v, saved.fwd)
      \/ i.op = "SAVE_SPEED" /\ x' = SKIPOP(z, a)
  BY DEF Drive
<1>2. Op(y, a) = i.op /\ Shaped(y)
  BY ServedTask
<1> HIDE DEF i, saved
<1>3. Steady(Op(y, a))
  BY <1>1, <1>2 DEF Steady, Leaves
<1>4. CASE i.op = "SAVE_SPEED" /\ x' = SKIPOP(z, a)
  <2>1. /\ {"ring", "task", "reserved", "lcc"} \subseteq DOMAIN z
        /\ z.ring = y.ring /\ z.task = y.task /\ z.reserved = y.reserved /\ z.lcc = y.lcc
    BY <1>2 DEF Shaped
  <2> HIDE DEF z
  <2>2. Calm(y, z)
    BY <1>2, <2>1, CalmAside
  <2>3. QED
    BY <1>3, <1>4, <2>2, SkipSound
<1> HIDE DEF z, t
<1>5. QED
  BY <1>1, <1>3, <1>4, SetSound

LEMMA ChangeSound ==
  ASSUME NEW y, NEW a, NEW freed, Serves(y, a, freed), Change(y, a)
  PROVE  Sound(x', freed)
<1>1. Op(y, a) \in {"SPEEDUP", "SLOWDOWN", "SPEED_REL"} /\ \E w : Set(y, a, w, Speed(y, a).fwd)
  BY DEF Change, Op
<1>2. Steady(Op(y, a))
  BY <1>1 DEF Steady, Leaves
<1>3. QED
  BY <1>1, <1>2, SetSound

LEMMA EstopForgetSound ==
  ASSUME NEW y, NEW a, NEW freed, Serves(y, a, freed), EstopForget(y, a)
  PROVE  Sound(x', freed)
<1>1. Op(y, a) \in {"ESTOPALL", "INVERT_DIRECTION", "FORGET"}
  BY DEF EstopForget
<1>2. Steady(Op(y, a)) /\ Shaped(y) /\ a \in Addr
  BY <1>1, ServedTask DEF Steady, Leaves
<1>3. CASE x' = SKIPOP(estopAll(y), a)
  BY <1>2, <1>3, StopCalm, SkipSound
<1>4. CASE x' = SKIPOP([y EXCEPT !.task[a].invert = ~@], a)
  <2> DEFINE z == [y EXCEPT !.task[a].invert = ~y.task[a].invert]
  <2>1. Calm(y, z)
    BY <1>2, MemberCalm
  <2>2. x' = SKIPOP(z, a)
    BY <1>2, <1>4 DEF Shaped
  <2> HIDE DEF z
  <2>3. QED
    BY <1>2, <2>1, <2>2, SkipSound
<1>5. CASE x' = SKIPOP([Stop(y, y.task[a].loco, 1) EXCEPT !.task[a].loco = 0], a)
  <2> DEFINE e == Stop(y, y.task[a].loco, 1)
             z == [e EXCEPT !.task[a].loco = 0]
  <2>0. Calm(y, e)
    BY <1>2, StopCalm
  <2> HIDE DEF e
  <2>1. Calm(y, e) /\ Shaped(e)
    BY <2>0 DEF Calm
  <2>2. Calm(y, z)
    BY <1>2, <2>1, MemberCalm, CalmTrans
  <2>3. x' = SKIPOP(z, a)
    BY <1>5 DEF e
  <2> HIDE DEF z
  <2>4. QED
    BY <1>2, <2>2, <2>3, SkipSound
<1>6. QED
  BY <1>3, <1>4, <1>5 DEF EstopForget

\* A task that finds the section taken waits; the others go in.
LEMMA ReserveStepSound ==
  ASSUME NEW y, NEW a, NEW freed, Serves(y, a, freed), Reserve(y, a)
  PROVE  Sound(x', freed)
<1>1. Shaped(y) /\ a \in Addr /\ Sound(y, freed)
  BY ServedTask
<1>2. CASE Instr(y, a).n \in y.reserved
  <2> DEFINE z == Stop(y, y.task[a].loco, 1)
  <2>1. Calm(y, z)
    BY <1>1, StopCalm
  <2>2. x' = delayMe(z, a)
    BY <1>2 DEF Reserve
  <2> HIDE DEF z
  <2>3. QED
    BY <1>1, <2>1, <2>2, DelaySound
<1>3. CASE Instr(y, a).n \notin y.reserved
  BY <1>3, ReserveSound DEF Reserve
<1>4. QED
  BY <1>2, <1>3

\* Where there are sections, FREEALL is not used.
LEMMA FreeStepSound ==
  ASSUME NEW y, NEW a, NEW freed, Serves(y, a, freed), Free(y, a)
  PROVE  Sound(x', freed)
<1>1. Shaped(y) /\ a \in Addr /\ Sound(y, freed) /\ Op(y, a) = Instr(y, a).op
      /\ Instr(y, a) = Code[y.task[a].pc] /\ y.task[a].pc \in DOMAIN Code /\ prog \in Programs
  BY ServedTask
<1>2. CASE Op(y, a) = "FREE"
  BY <1>1, <1>2, FreeSound DEF Free
<1>3. CASE Op(y, a) = "FREEALL" /\ x' = SKIPOP([y EXCEPT !.reserved = {}], a)
  <2> DEFINE z == [y EXCEPT !.reserved = {}]
             v == SKIPOP(y, a)
             w == SKIPOP(z, a)
  <2>1. Sound(v, freed)
    <3>1. Steady(Op(y, a))
      BY <1>3 DEF Steady, Leaves
    <3>2. QED
      BY <1>1, <3>1, CalmSelf, SkipSound
  <2>2. DOMAIN prog.zones = {}
    <3> SUFFICES ASSUME NEW s \in DOMAIN prog.zones PROVE FALSE
      OBVIOUS
    <3>1. Guarded(prog, s)
      BY <1>1, CodeParts
    <3>2. \A pc \in DOMAIN prog.code : prog.code[pc].op # "FREEALL"
      BY <3>1 DEF Guarded
    <3>3. QED
      BY <1>1, <1>3, <3>2 DEF Code
  <2>3. /\ w.ring = v.ring /\ w.task = v.task /\ w.lcc = v.lcc
        /\ {"ring", "task", "reserved", "lcc"} \subseteq DOMAIN w
    BY <1>1 DEF Shaped, SKIPOP
  <2>4. x' = w
    BY <1>3
  <2> HIDE DEF v, w
  <2>5. QED
    BY <2>1, <2>2, <2>3, <2>4 DEF Sound, Shaped
<1>4. QED
  BY <1>1, <1>2, <1>3 DEF Free

\* SKIPOP after a change of other members than those of tasks.
LEMMA AsideSound ==
  ASSUME NEW y, NEW a, NEW freed, Serves(y, a, freed), Steady(Op(y, a)),
         NEW z, {"ring", "task", "reserved", "lcc"} \subseteq DOMAIN z,
         z.ring = y.ring, z.task = y.task, z.reserved = y.reserved, z.lcc = y.lcc
  PROVE  Sound(SKIPOP(z, a), freed)
BY ServedTask, CalmAside, SkipSound

LEMMA LatchSound ==
  ASSUME NEW y, NEW a, NEW freed, Serves(y, a, freed), Latch(y, a)
  PROVE  Sound(x', freed)
<1> PICK S : x' = SKIPOP([y EXCEPT !.latched = S], a)
  BY DEF Latch
<1> DEFINE z == [y EXCEPT !.latched = S]
<1>1. Op(y, a) \in {"LATCH", "UNLATCH"} /\ x' = SKIPOP(z, a)
  BY DEF Latch, Op
<1>2. Steady(Op(y, a))
  BY <1>1 DEF Steady, Leaves
<1>3. /\ z.ring = y.ring /\ z.task = y.task /\ z.reserved = y.reserved /\ z.lcc = y.lcc
      /\ {"ring", "task", "reserved", "lcc"} \subseteq DOMAIN z
  BY ServedTask DEF Shaped
<1> HIDE DEF z
<1>4. QED
  BY <1>1, <1>2, <1>3, AsideSound

LEMMA RouteStateSound ==
  ASSUME NEW y, NEW a, NEW freed, Serves(y, a, freed), RouteState(y, a)
  PROVE  Sound(x', freed)
<1> DEFINE z == manageRouteState(y, Instr(y, a).n, Instr(y, a).m)
<1>1. Op(y, a) = "ROUTE_STATE" /\ x' = SKIPOP(z, a)
  BY DEF RouteState
<1>2. Steady(Op(y, a))
  BY <1>1 DEF Steady, Leaves
<1>3. /\ z.ring = y.ring /\ z.task = y.task /\ z.reserved = y.reserved /\ z.lcc = y.lcc
      /\ {"ring", "task", "reserved", "lcc"} \subseteq DOMAIN z
  BY ServedTask DEF Shaped, manageRouteState
<1> HIDE DEF z
<1>4. QED
  BY <1>1, <1>2, <1>3, AsideSound

\* Waiting: on, or where it was.
LEMMA AtSound ==
  ASSUME NEW y, NEW a, NEW freed, Serves(y, a, freed), At(y, a)
  PROVE  Sound(x', freed)
<1> DEFINE z == [y EXCEPT !.task[a].blink = "not_blink_task"]
           late == [y EXCEPT !.task[a].blink = "at_timeout"]
           same == [y EXCEPT !.task[a].blink = y.task[a].blink]
<1>1. Op(y, a) \in {"AT", "AT_ANALOGUE", "ATTIMEOUT1", "ATTIMEOUT2"}
  BY DEF At, Op
<1>2. Shaped(y) /\ a \in Addr /\ Sound(y, freed) /\ ~Blinking(y, a) /\ Steady(Op(y, a))
  BY <1>1, ServedTask DEF Steady, Leaves
<1>3. Calm(y, z) /\ Calm(y, late) /\ Calm(y, y)
  BY <1>2, WaitCalm, CalmSelf
<1>4. Calm(y, same)
  <2>1. y.task[a].blink \notin {"blink_low", "blink_high"}
    BY <1>2 DEF Blinking
  <2>2. QED
    BY <1>2, <2>1, WaitCalm
<1>5. x' \in {SKIPOP(z, a), delayMe(z, a), SKIPOP(late, a), SKIPOP(same, a), delayMe(y, a)}
  BY DEF At
<1> HIDE DEF z, late, same
<1>6. Sound(SKIPOP(z, a), freed) /\ Sound(SKIPOP(late, a), freed) /\ Sound(SKIPOP(same, a), freed)
  BY <1>2, <1>3, <1>4, SkipSound
<1>7. Sound(delayMe(z, a), freed) /\ Sound(delayMe(y, a), freed)
  BY <1>2, <1>3, DelaySound
<1>8. QED
  BY <1>5, <1>6, <1>7

LEMMA WaitingSound ==
  ASSUME NEW y, NEW a, NEW freed, Serves(y, a, freed),
         After(y, a) \/ WaitFor(y, a) \/ Delay(y, a)
  PROVE  Sound(x', freed)
<1>1. Op(y, a) \in {"AFTER", "AFTEROVERLOAD", "WAITFOR", "WAITFORTT", "DELAY"}
  BY DEF After, WaitFor, Delay
<1>2. Shaped(y) /\ a \in Addr /\ Sound(y, freed) /\ Steady(Op(y, a))
  BY <1>1, ServedTask DEF Steady, Leaves
<1>3. x' \in {y, SKIPOP(y, a), delayMe(y, a), SKIPOP(delayMe(y, a), a)}
  BY DEF After, WaitFor, Delay
<1>4. Calm(y, y) /\ Calm(y, delayMe(y, a))
  BY <1>2, CalmSelf, MemberCalm DEF delayMe
<1>5. QED
  BY <1>2, <1>3, <1>4, SkipSound, CalmSound

LEMMA WaitWhileRedSound ==
  ASSUME NEW y, NEW a, NEW freed, Serves(y, a, freed), WaitWhileRed(y, a)
  PROVE  Sound(x', freed)
<1> DEFINE z == IF Speed(y, a).v > 1 THEN Stop(y, y.task[a].loco, 0) ELSE y
<1>1. Op(y, a) = "WAIT_WHILE_RED" /\ x' \in {delayMe(z, a), SKIPOP(y, a)}
  BY DEF WaitWhileRed
<1>2. Shaped(y) /\ a \in Addr /\ Sound(y, freed) /\ Steady(Op(y, a))
  BY <1>1, ServedTask DEF Steady, Leaves
<1>3. Calm(y, z) /\ Calm(y, y)
  BY <1>2, StopCalm, CalmSelf
<1> HIDE DEF z
<1>4. Sound(delayMe(z, a), freed) /\ Sound(SKIPOP(y, a), freed)
  BY <1>2, <1>3, DelaySound, SkipSound
<1>5. QED
  BY <1>1, <1>4

\* SET, RESET and BLINK.
LEMMA BlinkSound ==
  ASSUME NEW y, NEW a, NEW freed, Serves(y, a, freed), Blink(y, a)
  PROVE  Sound(x', freed)
<1> DEFINE i == Instr(y, a)
           w == killBlinkOnVpin(y, i.n)
           z == newTask(w, y.task[a].pc, 0, FALSE, NoEvent)
           b == Least(Fresh(w))
           r == [z EXCEPT !.task[b].blink = "blink_low", !.task[b].blinkPin = i.n]
<1>1. \/ i.op \in {"SET", "RESET"} /\ x' = SKIPOP(Written(y, i), a)
      \/ i.op = "BLINK" /\ x' = SKIPOP(IF ~CanStart(w) THEN w ELSE r, a)
  BY DEF Blink, Written
<1>2. /\ Shaped(y) /\ Op(y, a) = i.op /\ i = Code[y.task[a].pc] /\ y.task[a].pc \in DOMAIN Code
      /\ prog \in Programs
  BY ServedTask
<1>3. Calm(y, w)
  BY <1>2, KillBlinkCalm
<1> HIDE DEF i, w
<1>4. Steady(Op(y, a)) /\ Shaped(w)
  BY <1>1, <1>2, <1>3 DEF Steady, Leaves, Calm
<1>5. CASE i.op \in {"SET", "RESET"} /\ x' = SKIPOP(Written(y, i), a)
  <2>1. i.m \in Nat
    BY <1>2, <1>5, ProgramsAssumption DEF Code
  <2>2. Calm(y, Written(y, i))
    BY <1>2, <2>1, WrittenCalm
  <2>3. QED
    BY <1>4, <1>5, <2>2, SkipSound
<1>6. CASE i.op = "BLINK" /\ x' = SKIPOP(IF ~CanStart(w) THEN w ELSE r, a)
  <2>1. CASE ~CanStart(w)
    BY <1>3, <1>4, <1>6, <2>1, SkipSound
  <2>2. CASE CanStart(w)
    <3>1. /\ b \in Addr /\ b \notin Range(w.ring)
          /\ Shaped(z) /\ z.reserved = w.reserved /\ z.lcc = w.lcc
          /\ Range(z.ring) = Range(w.ring) \cup {b}
          /\ z.task[b].pc = y.task[a].pc /\ z.task[b].stack = <<>>
          /\ \A c \in Range(w.ring) : Kept(w, z, c)
      BY <1>4, <2>2, NewTaskMakes
    <3> HIDE DEF z, b
    <3>2. /\ r.ring = z.ring /\ r.reserved = z.reserved /\ r.lcc = z.lcc
          /\ {"ring", "task", "reserved", "lcc"} \subseteq DOMAIN r /\ DOMAIN r.task = Addr
          /\ \A c \in Addr \ {b} : r.task[c] = z.task[c]
          /\ {"pc", "stack", "blink"} \subseteq DOMAIN r.task[b]
          /\ r.task[b].pc = z.task[b].pc /\ r.task[b].stack = z.task[b].stack
          /\ r.task[b].blink = "blink_low"
      BY <3>1 DEF Shaped
    <3> HIDE DEF r
    <3>3. Shaped(r) /\ Range(w.ring) \subseteq Addr \ {b}
      BY <1>4, <3>1, <3>2, RingParts DEF Shaped
    <3>4. Begun(r, b)
      BY <1>2, <3>1, <3>2 DEF Begun, Blinking
    <3>5. \A c \in Range(w.ring) : Kept(w, r, c)
      BY <3>1, <3>2, <3>3 DEF Kept, Blinking
    <3>6. Calm(w, r)
      BY <3>1, <3>2, <3>3, <3>4, <3>5 DEF Calm
    <3>7. Calm(y, r)
      BY <1>3, <3>6, CalmTrans
    <3>8. QED
      BY <1>4, <1>6, <2>2, <3>7, SkipSound
  <2>3. QED
    BY <2>1, <2>2
<1>7. QED
  BY <1>1, <1>5, <1>6

LEMMA NeopixelSound ==
  ASSUME NEW y, NEW a, NEW freed, Serves(y, a, freed), Neopixel(y, a)
  PROVE  Sound(x', freed)
<1> DEFINE n == Instr(y, a).n
           z == writePin(y, IF n > 0 THEN n ELSE -n, n > 0)
<1>1. Op(y, a) = "NEOPIXEL" /\ x' = SKIPOP(z, a)
  BY DEF Neopixel
<1>2. Calm(y, z)
  BY ServedTask, WritePinCalm
<1> HIDE DEF z
<1>3. QED
  BY <1>1, <1>2, SkipSound DEF Steady, Leaves

\* A blink task goes on blinking.
LEMMA BlinkTaskSound ==
  ASSUME NEW y, NEW freed, Sound(y, freed), NEW a \in Addr, BlinkTask(y, a)
  PROVE  Sound(x', freed)
<1> DEFINE on == y.task[a].blink = "blink_low"
           z == [y EXCEPT !.pin[y.task[a].blinkPin] = on,
                          !.task[a].blink = IF on THEN "blink_high" ELSE "blink_low"]
<1>1. Blinking(y, a) /\ x' = delayMe(z, a)
  BY DEF BlinkTask
<1>2. Shaped(y)
  BY DEF Sound
<1>3. /\ z.ring = y.ring /\ z.reserved = y.reserved /\ z.lcc = y.lcc /\ DOMAIN z.task = Addr
      /\ {"ring", "task", "reserved", "lcc"} \subseteq DOMAIN z
      /\ \A b \in Addr : /\ {"pc", "stack", "blink"} \subseteq DOMAIN z.task[b]
                         /\ z.task[b].pc = y.task[b].pc /\ z.task[b].stack = y.task[b].stack
      /\ \A b \in Addr \ {a} : z.task[b].blink = y.task[b].blink
      /\ z.task[a].blink \in {"blink_high", "blink_low"}
  BY <1>2 DEF Shaped
<1> HIDE DEF z
<1>4. \A b \in Addr : Blinking(z, b) <=> Blinking(y, b)
  BY <1>1, <1>3 DEF Blinking
<1>5. Calm(y, z)
  BY <1>2, <1>3, <1>4, CalmTask
<1>6. QED
  BY <1>1, <1>5, DelaySound

\* Turnouts and signals, and the handlers of their events.
LEMMA SwitchSound ==
  ASSUME NEW y, NEW a, NEW freed, Serves(y, a, freed), Switch(y, a) \/ Signal(y, a)
  PROVE  Sound(x', freed)
<1>1. Op(y, a) \in {"THROW", "CLOSE", "TOGGLE_TURNOUT", "RED", "AMBER", "GREEN"}
  BY DEF Switch, Signal, Op
<1>2. Shaped(y) /\ prog \in Programs /\ Steady(Op(y, a))
  BY <1>1, ServedTask DEF Steady, Leaves
<1>3. CASE Switch(y, a)
  <2>1. PICK closed : x' = SKIPOP(setClosed(y, Instr(y, a).n, closed), a)
    BY <1>3 DEF Switch
  <2>2. Calm(y, setClosed(y, Instr(y, a).n, closed))
    BY <1>2, SetClosedCalm
  <2>3. QED
    BY <1>2, <2>1, <2>2, SkipSound
<1>4. CASE Signal(y, a)
  <2>1. Op(y, a) \in {"RED", "AMBER", "GREEN"} /\ x' = SKIPOP(doSignal(y, Instr(y, a).n, Op(y, a)), a)
    BY <1>4 DEF Signal
  <2>2. Calm(y, doSignal(y, Instr(y, a).n, Op(y, a)))
    BY <1>2, <2>1, DoSignalCalm
  <2>3. QED
    BY <1>2, <2>1, <2>2, SkipSound
<1>5. QED
  BY <1>3, <1>4

LEMMA ResumeCalm ==
  ASSUME NEW y, Shaped(y)
  PROVE  Calm(y, ResumeAll(y))
<1> DEFINE z == ResumeAll(y)
<1>1. /\ z.ring = y.ring /\ z.task = y.task /\ z.reserved = y.reserved /\ z.lcc = y.lcc
      /\ {"ring", "task", "reserved", "lcc"} \subseteq DOMAIN z
  BY DEF Shaped, ResumeAll
<1> HIDE DEF z
<1>2. QED
  BY <1>1, CalmAside DEF z

LEMMA PausedCalm ==
  ASSUME NEW y, Shaped(y), NEW v
  PROVE  Calm(y, [estopAll(y) EXCEPT !.pausing = v])
<1> DEFINE e == estopAll(y)
           z == [e EXCEPT !.pausing = v]
<1>1. Calm(y, e)
  BY StopCalm
<1> HIDE DEF e
<1>2. Shaped(e)
  BY <1>1 DEF Calm
<1>3. /\ z.ring = e.ring /\ z.task = e.task /\ z.reserved = e.reserved /\ z.lcc = e.lcc
      /\ {"ring", "task", "reserved", "lcc"} \subseteq DOMAIN z
  BY <1>2 DEF Shaped
<1> HIDE DEF z
<1>4. Calm(e, z)
  BY <1>2, <1>3, CalmAside
<1>5. QED
  BY <1>1, <1>4, CalmTrans DEF e, z

LEMMA PausingSound ==
  ASSUME NEW y, NEW a, NEW freed, Serves(y, a, freed), Pausing(y, a)
  PROVE  Sound(x', freed)
<1>1. Op(y, a) \in {"PAUSE", "RESUME"}
  BY DEF Pausing
<1>2. Shaped(y) /\ Steady(Op(y, a))
  BY <1>1, ServedTask DEF Steady, Leaves
<1>3. Calm(y, [estopAll(y) EXCEPT !.pausing = a]) /\ Calm(y, ResumeAll(y))
  BY <1>2, PausedCalm, ResumeCalm
<1>4. x' \in {SKIPOP([estopAll(y) EXCEPT !.pausing = a], a), SKIPOP(ResumeAll(y), a)}
  BY DEF Pausing
<1>5. QED
  BY <1>2, <1>3, <1>4, SkipSound

\* Past a block: no section begins after an ENDIF or an ELSE.
LEMMA SkipBlockSound ==
  ASSUME NEW y, NEW a, NEW freed, Serves(y, a, freed), Op(y, a) \in IfOps \cup {"ELSE"}
  PROVE  Sound(skipIfBlock(y, a), freed)
<1> DEFINE pc == y.task[a].pc
           j == EndOfBlock(prog.code, pc)
           to == j + 1
           w == Placed(y, a, to)
<1>1. /\ Shaped(y) /\ a \in Addr /\ a \in Range(y.ring) /\ Sound(y, freed) /\ prog \in Programs
      /\ pc \in DOMAIN Code /\ pc \in Nat /\ y.task[a].stack \in Seq(Open) /\ Op(y, a) = Code[pc].op
  BY ServedTask
<1>2. /\ Len(Code) \in Nat \ {0} /\ DOMAIN Code = 1 .. Len(Code)
      /\ Code[Len(Code)].op = "ENDEXRAIL" /\ Code[pc].op # "ENDEXRAIL"
      /\ \A s \in DOMAIN prog.zones : Guarded(prog, s)
      /\ \A k \in DOMAIN Code : Code[k].op # "ENDEXRAIL" => k + 1 \in DOMAIN Code
  BY <1>1, CodeParts DEF IfOps
<1>3. j \in DOMAIN Code
  <2>1. \E S : /\ j = Least(S) /\ S \subseteq pc + 1 .. Len(Code)
               /\ Len(Code) \in pc + 1 .. Len(Code) => Len(Code) \in S
    <3> DEFINE Count(ops, k) == Cardinality({m \in pc + 1 .. k : Code[m].op \in ops})
               Nest(k) == 1 + Count(IfOps, k) - Count({"ENDIF"}, k)
               S == {k \in pc + 1 .. Len(Code) :
                        \/ Code[k].op = "ENDEXRAIL"
                        \/ Code[k].op = "ENDIF" /\ Nest(k) = 0
                        \/ Code[k].op = "ELSE" /\ Nest(k) = 1}
    <3>1. j = Least(S)
      BY DEF EndOfBlock, Code
    <3> HIDE DEF Nest
    <3>2. S \subseteq pc + 1 .. Len(Code)
      OBVIOUS
    <3>3. Len(Code) \in pc + 1 .. Len(Code) => Len(Code) \in S
      BY <1>2
    <3> HIDE DEF S, j
    <3>4. QED
      BY <3>1, <3>2, <3>3
  <2>2. PICK S : /\ j = Least(S) /\ S \subseteq pc + 1 .. Len(Code)
                 /\ Len(Code) \in pc + 1 .. Len(Code) => Len(Code) \in S
    BY <2>1
  <2> HIDE DEF j, pc
  <2>3. pc \in 1 .. Len(Code) /\ pc # Len(Code)
    BY <1>1, <1>2
  <2>4. Len(Code) \in S /\ S \subseteq Nat /\ S \subseteq DOMAIN Code
    BY <1>2, <2>2, <2>3
  <2>5. QED
    BY <2>2, <2>4, LeastOne
<1>4. skipIfBlock(y, a) = IF Code[j].op = "ENDEXRAIL" THEN kill(y, a) ELSE w
  BY DEF skipIfBlock, Placed, Code
<1>5. ASSUME NEW s \in DOMAIN prog.zones, to \in Zone(s) PROVE pc \in Zone(s)
  <2>1. \A k \in DOMAIN prog.code \ prog.zones[s] :
           prog.code[k].op \in IfOps \cup {"ELSE"} => EndOfBlock(prog.code, k) + 1 \notin prog.zones[s]
    BY <1>2 DEF Guarded
  <2>2. QED
    BY <1>1, <1>5, <2>1 DEF Zone, Code
<1> HIDE DEF pc, j
<1>6. CASE Code[j].op = "ENDEXRAIL"
  BY <1>1, <1>4, <1>6, KillSound
<1>7. CASE Code[j].op # "ENDEXRAIL"
  <2>1. to \in DOMAIN Code
    BY <1>2, <1>3, <1>7
  <2> HIDE DEF to
  <2>2. Steps(y, w, a) /\ w.task[a].pc = to /\ w.task[a].stack = y.task[a].stack
    BY <1>1, PlacedSteps
  <2> HIDE DEF w
  <2>3. Sound(w, freed)
    BY <1>1, <1>5, <2>1, <2>2, CalmSelf, MovedSound DEF pc
  <2>4. QED
    BY <1>4, <1>7, <2>3
<1>8. QED
  BY <1>6, <1>7

LEMMA IfSound ==
  ASSUME NEW y, NEW a, NEW freed, Serves(y, a, freed), If(y, a)
  PROVE  Sound(x', freed)
<1> DEFINE n == Instr(y, a).n
           z == [y EXCEPT !.reserved = IF Op(y, a) = "IFRESERVE" THEN @ \cup {Instr(y, a).n} ELSE @]
<1>1. Op(y, a) \in IfOps \cup {"ELSE"} /\ Op(y, a) = Instr(y, a).op /\ Shaped(y)
  BY ServedTask DEF If
<1>2. PICK skip \in SkipIf(y, a) : x' = IF skip THEN skipIfBlock(y, a) ELSE SKIPOP(z, a)
  <2>1. PICK skip \in SkipIf(y, a) : IF skip THEN x' = skipIfBlock(y, a) ELSE x' = SKIPOP(z, a)
    BY DEF If
  <2> HIDE DEF z
  <2>2. QED
    BY <2>1
<1>3. CASE skip
  BY <1>1, <1>2, <1>3, SkipBlockSound
<1>4. CASE ~skip
  <2>1. x' = SKIPOP(z, a)
    BY <1>2, <1>4
  <2>2. CASE Op(y, a) = "ELSE"
    BY <1>1, <1>4, <2>2 DEF SkipIf
  <2>3. CASE Op(y, a) = "IFRESERVE"
    <3>1. n \notin y.reserved
      BY <1>1, <1>4, <2>3 DEF SkipIf
    <3>2. z = [y EXCEPT !.reserved = @ \cup {n}]
      BY <2>3
    <3>3. QED
      BY <2>1, <2>3, <3>1, <3>2, ReserveSound
  <2>4. CASE Op(y, a) \in IfOps \ {"IFRESERVE"}
    <3>1. Steady(Op(y, a))
      BY <2>4 DEF Steady, Leaves, IfOps
    <3>2. /\ z.ring = y.ring /\ z.task = y.task /\ z.reserved = y.reserved /\ z.lcc = y.lcc
          /\ {"ring", "task", "reserved", "lcc"} \subseteq DOMAIN z
      BY <1>1, <2>4 DEF Shaped
    <3> HIDE DEF z
    <3>3. QED
      BY <2>1, <3>1, <3>2, AsideSound
  <2>5. QED
    BY <1>1, <2>2, <2>3, <2>4
<1>5. QED
  BY <1>3, <1>4

LEMMA BranchSound ==
  ASSUME NEW y, NEW a, NEW freed, Serves(y, a, freed), Branch(y, a)
  PROVE  Sound(x', freed)
<1> DEFINE i == Instr(y, a)
           t == y.task[a]
<1>1. Sound(y, freed) /\ a \in Range(y.ring) /\ Op(y, a) = i.op
  BY ServedTask
<1>2. CASE \E id : x' = Goto(y, a, find(id))
  BY <1>2, GotoSound
<1>3. CASE x' = kill(y, a) \/ x' = KillAll(y)
  BY <1>1, <1>3, KillSound, KillAllSound
<1>4. CASE /\ i.op \in {"CALL", "RANDOM_CALL"}
           /\ \E id : x' = Goto([y EXCEPT !.task[a].stack = Append(@, t.pc + 1)], a, find(id))
  <2>1. PICK id : x' = Goto([y EXCEPT !.task[a].stack = Append(@, t.pc + 1)], a, find(id))
    BY <1>4
  <2> DEFINE w == Goto([y EXCEPT !.task[a].stack = Append(@, y.task[a].pc + 1)], a, find(id))
  <2>2. Sound(w, freed)
    BY <1>1, <1>4, CallSound
  <2>3. x' = w
    BY <2>1
  <2> HIDE DEF w
  <2>4. QED
    BY <2>2, <2>3
<1>5. CASE /\ t.stack # <<>>
           /\ x' = [y EXCEPT !.task[a].pc = Last(t.stack), !.task[a].stack = Front(@)]
  <2> DEFINE w == [y EXCEPT !.task[a].pc = Last(y.task[a].stack), !.task[a].stack = Front(@)]
  <2>1. Sound(w, freed)
    BY <1>5, ReturnSound, ZenonT(60)
  <2>2. x' = w
    BY <1>5
  <2> HIDE DEF w
  <2>3. QED
    BY <2>1, <2>2
<1>6. QED
  BY <1>2, <1>3, <1>4, <1>5 DEF Branch

LEMMA StartingSound ==
  ASSUME NEW y, NEW a, NEW freed, Serves(y, a, freed), Starting(y, a)
  PROVE  Sound(x', freed)
<1> DEFINE i == Instr(y, a)
           t == y.task[a]
           pc == find(IF i.op = "SENDLOCO" THEN i.m ELSE i.n)
           shared == newTask(y, pc, t.loco, t.invert, NoEvent)
           sent == [shared EXCEPT !.task[a].loco = 0]
<1>1. /\ i.op \in {"START", "START_SHARED", "START_SEND", "SENDLOCO"}
      /\ \/ x' = SKIPOP(y, a)
         \/ pc # 0 /\ \E loco : x' = SKIPOP(newTask(y, pc, loco, FALSE, NoEvent), a)
         \/ pc # 0 /\ x' = SKIPOP(shared, a)
         \/ pc # 0 /\ x' = SKIPOP(sent, a)
  BY DEF Starting
<1>2. Op(y, a) = i.op /\ Shaped(y) /\ a \in Addr /\ prog \in Programs
  BY ServedTask
<1>3. pc # 0 => pc \in Open
  BY <1>2, FindOpen
<1> HIDE DEF pc, i
<1>4. Steady(Op(y, a))
  BY <1>1, <1>2 DEF Steady, Leaves
<1>5. CASE x' = SKIPOP(y, a)
  BY <1>2, <1>4, <1>5, CalmSelf, SkipSound
<1>6. CASE pc # 0 /\ \E loco : x' = SKIPOP(newTask(y, pc, loco, FALSE, NoEvent), a)
  BY <1>2, <1>3, <1>4, <1>6, NewTaskCalm, SkipSound
<1>7. CASE pc # 0 /\ (x' = SKIPOP(shared, a) \/ x' = SKIPOP(sent, a))
  <2>1. Calm(y, shared)
    BY <1>2, <1>3, <1>7, NewTaskCalm
  <2> HIDE DEF shared
  <2>2. Calm(shared, sent)
    BY <1>2, <2>1, MemberCalm, ZenonT(60) DEF Calm
  <2> HIDE DEF sent
  <2>3. Calm(y, sent)
    BY <2>1, <2>2, CalmTrans
  <2>4. QED
    BY <1>4, <1>7, <2>1, <2>3, SkipSound
<1>8. QED
  BY <1>1, <1>5, <1>6, <1>7

LEMMA TakeSound ==
  ASSUME NEW y, NEW a, NEW freed, Serves(y, a, freed), Steady(Op(y, a)), NEW l, NEW inv
  PROVE  Sound(Take(y, a, l, inv), freed)
<1> DEFINE z == [y EXCEPT !.task[a].loco = l, !.task[a].invert = inv]
<1>1. Calm(y, z)
  BY ServedTask, TakeCalm, ZenonT(60)
<1>2. Take(y, a, l, inv) = SKIPOP(z, a)
  BY DEF Take
<1> HIDE DEF z
<1>3. QED
  BY <1>1, <1>2, SkipSound

LEMMA LocoSound ==
  ASSUME NEW y, NEW a, NEW freed, Serves(y, a, freed), SetLoco(y, a) \/ StashLoco(y, a)
  PROVE  Sound(x', freed)
<1>1. Op(y, a) \in {"SETLOCO", "STASH", "CLEAR_STASH", "CLEAR_ALL_STASH", "CLEAR_ANY_STASH", "PICKUP_STASH"}
  BY DEF SetLoco, StashLoco, Op
<1>2. Steady(Op(y, a)) /\ Shaped(y)
  BY <1>1, ServedTask DEF Steady, Leaves
<1>3. CASE \E f : x' = SKIPOP([y EXCEPT !.stash = f], a)
  <2>1. PICK f : x' = SKIPOP([y EXCEPT !.stash = f], a)
    BY <1>3
  <2> DEFINE z == [y EXCEPT !.stash = f]
  <2>2. /\ z.ring = y.ring /\ z.task = y.task /\ z.reserved = y.reserved /\ z.lcc = y.lcc
        /\ {"ring", "task", "reserved", "lcc"} \subseteq DOMAIN z
    BY <1>2 DEF Shaped
  <2>3. x' = SKIPOP(z, a)
    BY <2>1
  <2> HIDE DEF z
  <2>4. QED
    BY <1>2, <2>2, <2>3, AsideSound
<1>4. CASE \E l, inv : x' = Take(y, a, l, inv)
  BY <1>2, <1>4, TakeSound
<1>5. QED
  BY <1>3, <1>4 DEF SetLoco, StashLoco

LEMMA ReadLocoSound ==
  ASSUME NEW y, NEW a, NEW freed, Serves(y, a, freed), ReadLoco(y, a)
  PROVE  Sound(x', freed)
<1>1. Op(y, a) \in {"READ_LOCO1", "READ_LOCO2"}
  BY DEF ReadLoco
<1>2. Steady(Op(y, a)) /\ Shaped(y) /\ Sound(y, freed) /\ a \in Addr
  BY <1>1, ServedTask DEF Steady, Leaves
<1>3. CASE Op(y, a) = "READ_LOCO1"
  <2>1. PICK z \in {[y EXCEPT !.progtrackLocoId = 0],
                    [y EXCEPT !.progtrackLocoId = WAITING, !.reading = TRUE]} :
             x' = SKIPOP(z, a)
    BY <1>3 DEF ReadLoco
  <2>2. /\ z.ring = y.ring /\ z.task = y.task /\ z.reserved = y.reserved /\ z.lcc = y.lcc
        /\ {"ring", "task", "reserved", "lcc"} \subseteq DOMAIN z
    BY <1>2 DEF Shaped
  <2>3. QED
    BY <1>2, <2>1, <2>2, AsideSound
<1>4. CASE Op(y, a) = "READ_LOCO2"
  <2>1. x' \in {delayMe(y, a), Take(y, a, y.progtrackLocoId, FALSE)}
    BY <1>4 DEF ReadLoco, Take
  <2>2. Sound(delayMe(y, a), freed)
    BY <1>2, CalmSelf, DelaySound
  <2>3. QED
    BY <1>2, <2>1, <2>2, TakeSound
<1>5. QED
  BY <1>1, <1>3, <1>4

LEMMA OtherSound ==
  ASSUME NEW y, NEW a, NEW freed, Serves(y, a, freed),
         Elsewhere(y, a) \/ Power(y, a) \/ Tracks(y, a) \/ Others(y, a)
  PROVE  Sound(x', freed)
<1>1. Steady(Op(y, a))
  BY DEF Elsewhere, Power, Tracks, Others, Op, LccOps, Steady, Leaves
<1>2. Shaped(y) /\ prog \in Programs
  BY ServedTask
<1>3. CASE x' = SKIPOP(y, a)
  BY <1>1, <1>2, <1>3, CalmSelf, SkipSound
<1>4. CASE \E v : x' = SKIPOP([y EXCEPT !.power = v], a)
  <2>1. PICK v : x' = SKIPOP([y EXCEPT !.power = v], a)
    BY <1>4
  <2> DEFINE z == [y EXCEPT !.power = v]
  <2>2. /\ z.ring = y.ring /\ z.task = y.task /\ z.reserved = y.reserved /\ z.lcc = y.lcc
        /\ {"ring", "task", "reserved", "lcc"} \subseteq DOMAIN z
    BY <1>2 DEF Shaped
  <2>3. x' = SKIPOP(z, a)
    BY <2>1
  <2> HIDE DEF z
  <2>4. QED
    BY <1>1, <2>2, <2>3, AsideSound
<1>5. CASE \E l, v, fwd : x' = SKIPOP(setThrottle(y, l, v, fwd), a)
  BY <1>1, <1>2, <1>5, StopCalm, SkipSound
<1>6. CASE \E id, aspect : x' = SKIPOP(signalAspectEvent(y, id, aspect), a)
  BY <1>1, <1>2, <1>6, AspectCalm, SkipSound
<1>7. QED
  BY <1>3, <1>4, <1>5, <1>6 DEF Elsewhere, Power, Tracks, Others

\* One instruction of the task that is served.
LEMMA Loop2Sound ==
  ASSUME NEW y, NEW freed, Sound(y, freed), prog \in Programs, NEW a \in Range(y.ring), loop2(y, a)
  PROVE  Sound(x', freed)
<1>1. a \in Addr
  BY RingParts DEF Sound, Shaped
<1>2. CASE BlinkTask(y, a)
  BY <1>1, <1>2, BlinkTaskSound
<1>3. CASE ~Blinking(y, a) /\ ~BlinkTask(y, a)
  <2>1. Serves(y, a, freed)
    BY <1>3 DEF Serves
  <2>2. \/ Drive(y, a) \/ Change(y, a) \/ EstopForget(y, a) \/ Reserve(y, a)
        \/ Free(y, a) \/ Latch(y, a) \/ RouteState(y, a)
        \/ At(y, a) \/ After(y, a) \/ WaitWhileRed(y, a) \/ WaitFor(y, a) \/ Delay(y, a)
        \/ Blink(y, a) \/ Switch(y, a) \/ Signal(y, a) \/ Pausing(y, a) \/ If(y, a)
        \/ Branch(y, a) \/ Starting(y, a) \/ SetLoco(y, a) \/ StashLoco(y, a)
        \/ ReadLoco(y, a) \/ Elsewhere(y, a) \/ Power(y, a) \/ Tracks(y, a)
        \/ Others(y, a) \/ Neopixel(y, a)
    BY <1>3 DEF loop2
  <2>3. QED
    BY <2>1, <2>2, DriveSound, ChangeSound, EstopForgetSound, ReserveStepSound, FreeStepSound,
       LatchSound, RouteStateSound, AtSound, WaitingSound, WaitWhileRedSound, BlinkSound,
       SwitchSound, PausingSound, IfSound, BranchSound, StartingSound, LocoSound, ReadLocoSound,
       OtherSound, NeopixelSound
<1>4. QED
  BY <1>2, <1>3 DEF loop2

-----------------------------------------------------------------------------
(* The loop, and what happens beside it.                                   *)

LEMMA TurnedSound ==
  ASSUME NEW y, NEW freed, Sound(y, freed), y.ring # <<>>
  PROVE  Sound(Turned(y), freed) /\ Head(Turned(y).ring) \in Range(Turned(y).ring)
<1> DEFINE z == Turned(y)
<1>1. Shaped(y)
  BY DEF Sound
<1>2. /\ z.ring = Append(Tail(y.ring), Head(y.ring))
      /\ z.task = y.task /\ z.reserved = y.reserved /\ z.lcc = y.lcc
      /\ {"ring", "task", "reserved", "lcc"} \subseteq DOMAIN z
  BY <1>1 DEF Turned, Shaped
<1> HIDE DEF z
<1>3. Ring(z.ring) /\ Range(z.ring) = Range(y.ring) /\ Head(z.ring) \in Range(z.ring)
  BY <1>1, <1>2, RingTurns DEF Shaped
<1>4. Gone(y, z, {})
  BY <1>1, <1>2, <1>3 DEF Gone, Shaped
<1>5. QED
  BY <1>3, <1>4, GoneSound DEF z

\* The sensors are looked at: a task starts after an ONSENSOR or ONBUTTON.
LEMMA CheckAllSound ==
  ASSUME prog \in Programs, Sound(x, zoneFreed), NEW c \in checkAll
  PROVE  Sound(c.y, zoneFreed)
<1>1. Shaped(x)
  BY DEF Sound
<1>2. c.y = x \/ \E pc \in DOMAIN Code : Sensed(pc) /\ c.y = newTask(x, pc + 1, 0, FALSE, NoEvent)
  <2>1. c.y = x \/ \E pc \in {q \in DOMAIN Code : Sensed(q)} : c.y = check(x, pc).y
    BY DEF checkAll, Code
  <2>2. ASSUME NEW pc
        PROVE  check(x, pc).y \in {x, newTask(x, pc + 1, 0, FALSE, NoEvent)}
    BY DEF check
  <2>3. QED
    BY <2>1, <2>2
<1>3. ASSUME NEW pc \in DOMAIN Code, Sensed(pc) PROVE pc + 1 \in Open
  BY <1>3, EntriesOpen DEF Sensed, Code
<1>4. c.y = x \/ Calm(x, c.y)
  BY <1>1, <1>2, <1>3, NewTaskCalm
<1>5. QED
  BY <1>4, CalmSound

LEMMA LoopSound ==
  ASSUME prog \in Programs, Sound(x, zoneFreed), Loop
  PROVE  Sound(x', zoneFreed)
<1>1. PICK c \in checkAll :
         IF c.y.ring = <<>> THEN x' = c.y
         ELSE \E y \in {Turned(c.y)} : IF Served(y) THEN loop2(y, Head(y.ring)) ELSE x' = y
  BY DEF Loop
<1>2. Sound(c.y, zoneFreed)
  BY CheckAllSound
<1>3. CASE c.y.ring = <<>>
  BY <1>1, <1>2, <1>3
<1>4. CASE c.y.ring # <<>>
  <2>1. PICK y : y = Turned(c.y) /\ IF Served(y) THEN loop2(y, Head(y.ring)) ELSE x' = y
    BY <1>1, <1>4
  <2>2. Sound(y, zoneFreed) /\ Head(y.ring) \in Range(y.ring)
    BY <1>2, <1>4, <2>1, TurnedSound
  <2>3. QED
    BY <2>1, <2>2, Loop2Sound
<1>5. QED
  BY <1>3, <1>4

LEMMA ExpireSound ==
  ASSUME Sound(x, zoneFreed), NEW a \in Addr, Expire(a)
  PROVE  Sound(x', zoneFreed)
<1>1. x' = [x EXCEPT !.task[a].delayed = FALSE]
  BY DEF Expire
<1>2. Calm(x, [x EXCEPT !.task[a].delayed = FALSE])
  BY MemberCalm DEF Sound
<1>3. QED
  BY <1>1, <1>2, CalmSound

LEMMA ReadLocoCallbackSound ==
  ASSUME Sound(x, zoneFreed), readLocoCallback
  PROVE  Sound(x', zoneFreed)
<1>1. PICK l : x' = [x EXCEPT !.progtrackLocoId = l, !.reading = FALSE]
  BY ZenonT(60) DEF readLocoCallback
<1> DEFINE z == [x EXCEPT !.progtrackLocoId = l, !.reading = FALSE]
<1>2. /\ z.ring = x.ring /\ z.task = x.task /\ z.reserved = x.reserved /\ z.lcc = x.lcc
      /\ {"ring", "task", "reserved", "lcc"} \subseteq DOMAIN z
  BY DEF Shaped, Sound
<1>3. x' = z
  BY <1>1
<1> HIDE DEF z
<1>4. Calm(x, z)
  BY <1>2, CalmAside DEF Sound
<1>5. QED
  BY <1>3, <1>4, CalmSound

\* Another operation of the programming track: no task is touched.
LEMMA ProgramCommandSound ==
  ASSUME Sound(x, zoneFreed), ProgramCommand
  PROVE  Sound(x', zoneFreed)
<1> DEFINE z == [x EXCEPT !.reading = FALSE]
<1>1. x' = z
  BY DEF ProgramCommand
<1>2. /\ z.ring = x.ring /\ z.task = x.task /\ z.reserved = x.reserved /\ z.lcc = x.lcc
      /\ {"ring", "task", "reserved", "lcc"} \subseteq DOMAIN z
  BY DEF Shaped, Sound
<1> HIDE DEF z
<1>3. Calm(x, z)
  BY <1>2, CalmAside DEF Sound
<1>4. QED
  BY <1>1, <1>3, CalmSound

\* </ PAUSE>: the tasks note the speeds of their locos.
LEMMA PauseSound ==
  ASSUME Sound(x, zoneFreed), Pause
  PROVE  Sound(x', zoneFreed)
<1> DEFINE p == PauseAll(x)
           z == [estopAll(p) EXCEPT !.pausing = Parser]
<1>1. x' = z /\ Shaped(x)
  BY DEF Pause, Sound
<1>2. /\ p.ring = x.ring /\ p.reserved = x.reserved /\ p.lcc = x.lcc /\ DOMAIN p.task = Addr
      /\ {"ring", "task", "reserved", "lcc"} \subseteq DOMAIN p
      /\ \A b \in Addr : /\ {"pc", "stack", "blink"} \subseteq DOMAIN p.task[b]
                         /\ p.task[b].pc = x.task[b].pc /\ p.task[b].stack = x.task[b].stack
                         /\ p.task[b].blink = x.task[b].blink
  BY <1>1 DEF Shaped, PauseAll
<1> HIDE DEF p
<1>3. Calm(x, p)
  BY <1>1, <1>2, CalmTask DEF Blinking
<1>4. Shaped(p)
  BY <1>3 DEF Calm
<1>5. Calm(p, z)
  BY <1>4, PausedCalm
<1> HIDE DEF z
<1>6. QED
  BY <1>1, <1>3, <1>5, CalmTrans, CalmSound

\* Users and other components that make, kill or pause tasks or act through them.
LEMMA TaskCommandSound ==
  ASSUME prog \in Programs, Sound(x, zoneFreed),
         \/ Pause \/ Resume \/ KillAllCommand
         \/ \E cab, route : Start(cab, route)
         \/ \E a : KillCommand(a)
         \/ \E s, rag : rag \in {"RED", "AMBER", "GREEN"} /\ SignalCommand(s, rag)
         \/ \E s, aspect : AspectCommand(s, aspect)
         \/ \E kind \in Events : \E id, loco : Event(kind, id, loco)
  PROVE  Sound(x', zoneFreed)
<1>1. Shaped(x)
  BY DEF Sound
<1>2. CASE Pause
  BY <1>2, PauseSound
<1>3. CASE Resume
  BY <1>1, <1>3, ResumeCalm, CalmSound DEF Resume
<1>4. CASE KillAllCommand
  BY <1>4, KillAllSound DEF KillAllCommand
<1>5. CASE \E cab, route : Start(cab, route)
  <2>1. PICK cab, route : find(route) # 0 /\ x' = newTask(x, find(route), cab, FALSE, NoEvent)
    BY <1>5 DEF Start
  <2>2. find(route) \in Open
    BY <2>1, FindOpen
  <2>3. Calm(x, newTask(x, find(route), cab, FALSE, NoEvent))
    BY <1>1, <2>2, NewTaskCalm
  <2>4. QED
    BY <2>1, <2>3, CalmSound
<1>6. CASE \E a : KillCommand(a)
  <2>1. PICK a : Live(a) /\ x' = kill(x, a)
    BY <1>6 DEF KillCommand
  <2>2. a \in Range(x.ring)
    BY <1>1, <2>1, RingParts DEF Live, Shaped
  <2>3. QED
    BY <2>1, <2>2, KillSound
<1>7. CASE \E s, rag : rag \in {"RED", "AMBER", "GREEN"} /\ SignalCommand(s, rag)
  <2>1. PICK s, rag : rag \in {"RED", "AMBER", "GREEN"} /\ x' = doSignal(x, s, rag)
    BY <1>7 DEF SignalCommand
  <2>2. QED
    BY <1>1, <2>1, DoSignalCalm, CalmSound
<1>8. CASE \E s, aspect : AspectCommand(s, aspect)
  <2>1. PICK s, aspect : x' = signalAspectEvent(x, s, aspect)
    BY <1>8 DEF AspectCommand
  <2>2. QED
    BY <1>1, <2>1, AspectCalm, CalmSound
<1>9. CASE \E kind \in Events : \E id, loco : Event(kind, id, loco)
  <2>1. PICK kind \in Events : \E id, loco : x' = handleEvent(x, kind, id, loco)
    BY <1>9 DEF Event
  <2>2. PICK id, loco : x' = handleEvent(x, kind, id, loco)
    BY <2>1
  <2>3. QED
    BY <1>1, <2>2, HandleEventCalm, CalmSound
<1>10. QED
  BY <1>2, <1>3, <1>4, <1>5, <1>6, <1>7, <1>8, <1>9

\* What a user reserves is reserved; what one frees is no longer promised.
LEMMA FlagCommandSound ==
  ASSUME Sound(x, zoneFreed),
         (\E s : ReserveCommand(s)) \/ (\E p : LatchCommand(p)) \/ (\E S : FreeCommand(S))
  PROVE  Sound(x', zoneFreed')
<1>1. Shaped(x)
  BY DEF Sound
<1>2. /\ x'.ring = x.ring /\ x'.task = x.task /\ x'.lcc = x.lcc
      /\ {"ring", "task", "reserved", "lcc"} \subseteq DOMAIN x'
  BY <1>1 DEF ReserveCommand, LatchCommand, FreeCommand, Shaped
<1>3. \A s : s \in x.reserved /\ s \notin zoneFreed' => s \in x'.reserved
  BY <1>1 DEF ReserveCommand, LatchCommand, FreeCommand, Shaped
<1>4. zoneFreed \subseteq zoneFreed'
  BY DEF ReserveCommand, LatchCommand, FreeCommand
<1> DEFINE y == x'
           freed == zoneFreed'
<1>5. Shaped(y)
  BY <1>1, <1>2 DEF Shaped
<1>6. ASSUME NEW s \in DOMAIN prog.zones PROVE Inside(y, s) = Inside(x, s)
  BY <1>2 DEF Inside, Blinking
<1>7. ASSUME NEW s \in DOMAIN prog.zones \ freed
      PROVE  /\ Inside(y, s) # {} => s \in y.reserved
             /\ \A a, b \in Inside(y, s) : a = b
  <2>1. s \in DOMAIN prog.zones \ zoneFreed
    BY <1>4
  <2>2. QED
    BY <1>3, <1>6, <2>1 DEF Sound
<1>8. QED
  BY <1>2, <1>5, <1>7 DEF Sound

-----------------------------------------------------------------------------
(* The LCC adapter.                                                        *)

LEMMA LccAsksSound ==
  ASSUME prog \in Programs, Sound(x, zoneFreed), LccAsks
  PROVE  Sound(x', zoneFreed)
<1> DEFINE told == LccOps \cup {"ONLCC", "ENDEXRAIL"}
           S == {k \in x.lcc.pc .. Len(Code) : Code[k].op \in told}
           pc == Least(S)
           end == [x EXCEPT !.lcc.pc = 1, !.lcc.index = 0]
           wait == [x EXCEPT !.lcc.pc = pc + 1, !.lcc.index = @ + 1,
                             !.lcc.lookup[x.lcc.index + 1] = pc + 1]
           send == [x EXCEPT !.lcc.pc = pc + 1]
           Lcc == [pc : DOMAIN Code, index : Nat, lookup : [1 .. countLCCLookup -> Open]]
<1>1. Shaped(x) /\ x.lcc \in Lcc
  BY DEF Sound
<1>2. pc \in DOMAIN Code
  <2>1. x.lcc.pc \in DOMAIN Code /\ DOMAIN Code = 1 .. Len(Code) /\ Len(Code) \in Nat \ {0}
        /\ Code[Len(Code)].op = "ENDEXRAIL"
    BY <1>1, CodeParts
  <2>2. Len(Code) \in S /\ S \subseteq Nat /\ S \subseteq DOMAIN Code
    BY <2>1
  <2> HIDE DEF S
  <2>3. QED
    BY <2>2, LeastOne
<1>3. x' = CASE Code[pc].op = "ENDEXRAIL" -> end
             [] Code[pc].op = "ONLCC" -> wait
             [] OTHER -> send
  BY DEF LccAsks, Code
<1> HIDE DEF S, pc
<1>4. /\ Code[pc].op # "ENDEXRAIL" => pc + 1 \in DOMAIN Code
      /\ Code[pc].op = "ONLCC" => pc + 1 \in Open
      /\ 1 \in DOMAIN Code
  BY <1>2, CodeParts, EntriesOpen
<1>5. /\ x'.ring = x.ring /\ x'.task = x.task /\ x'.reserved = x.reserved
      /\ {"ring", "task", "reserved", "lcc"} \subseteq DOMAIN x'
  BY <1>1, <1>3 DEF Shaped
<1>6. x'.lcc \in Lcc
  <2> DEFINE f == x.lcc.lookup
             g == [f EXCEPT ![x.lcc.index + 1] = pc + 1]
             l == x'.lcc
  <2>1. f \in [1 .. countLCCLookup -> Open] /\ x.lcc.index \in Nat /\ x.lcc.pc \in DOMAIN Code
        /\ x.lcc = [pc |-> x.lcc.pc, index |-> x.lcc.index, lookup |-> f]
    BY <1>1
  <2>2. CASE Code[pc].op = "ENDEXRAIL"
    <3>1. x'.lcc = [pc |-> 1, index |-> 0, lookup |-> f]
      BY <1>1, <1>3, <2>1, <2>2 DEF Shaped
    <3> HIDE DEF f
    <3>2. QED
      BY <1>4, <2>1, <3>1
  <2>3. CASE Code[pc].op = "ONLCC"
    <3>1. x'.lcc = [pc |-> pc + 1, index |-> x.lcc.index + 1, lookup |-> g]
      BY <1>1, <1>3, <2>1, <2>3 DEF Shaped
    <3>2. g \in [1 .. countLCCLookup -> Open]
      BY <1>4, <2>1, <2>3
    <3> HIDE DEF g
    <3>3. QED
      BY <1>4, <2>1, <2>3, <3>1, <3>2
  <2>4. CASE Code[pc].op # "ENDEXRAIL" /\ Code[pc].op # "ONLCC"
    <3>1. x'.lcc = [pc |-> pc + 1, index |-> x.lcc.index, lookup |-> f]
      BY <1>1, <1>3, <2>1, <2>4 DEF Shaped
    <3> HIDE DEF f
    <3>2. QED
      BY <1>4, <2>1, <2>4, <3>1
  <2>5. QED
    BY <2>2, <2>3, <2>4
<1> DEFINE y == x'
<1>7. Shaped(y)
  BY <1>1, <1>5 DEF Shaped
<1>8. ASSUME NEW s \in DOMAIN prog.zones PROVE Inside(y, s) = Inside(x, s)
  BY <1>5 DEF Inside, Blinking
<1>9. QED
  BY <1>5, <1>6, <1>7, <1>8 DEF Sound

LEMMA LccEventSound ==
  ASSUME prog \in Programs, Sound(x, zoneFreed), NEW eventid \in 0 .. 1, LccEvent(eventid)
  PROVE  Sound(x', zoneFreed)
<1> DEFINE pc == x.lcc.lookup[eventid + 1]
<1>1. countLCCLookup \in Nat
  <2>1. IsFiniteSet(DOMAIN Code)
    BY CodeParts, FS_Interval
  <2>2. {k \in DOMAIN Code : Code[k].op = "ONLCC"} \subseteq DOMAIN Code
    OBVIOUS
  <2>3. QED
    BY <2>1, <2>2, FS_Subset, FS_CardinalityType DEF countLCCLookup, Code
<1>2. eventid + 1 \in 1 .. countLCCLookup
  BY <1>1 DEF LccEvent
<1>3. pc \in Open /\ Shaped(x)
  BY <1>2 DEF Sound
<1>4. x' = startNonRecursiveTask(x, pc, 0)
  BY DEF LccEvent
<1> HIDE DEF pc
<1>5. QED
  BY <1>3, <1>4, StartCalm, CalmSound

-----------------------------------------------------------------------------
(* The invariant holds of every state.                                     *)

Inv == prog \in Programs /\ Sound(x, zoneFreed)

\* The program in flash does not change.
LEMMA InvNext ==
  ASSUME prog \in Programs, prog' = prog, Sound(x', zoneFreed')
  PROVE  Inv'
<1>1. Code' = Code
  BY DEF Code
<1>2. Open' = Open /\ countLCCLookup' = countLCCLookup
  BY <1>1 DEF Open, Zone, countLCCLookup
<1>3. \A s : Inside(x', s) = {a \in Range(x'.ring) : x'.task[a].pc \in prog'.zones[s] /\ ~Blinking(x', a)}
  BY DEF Inside, Zone
<1>4. QED
  BY <1>1, <1>2, <1>3 DEF Inv, Sound, Shaped, Ring, Inside, Zone, Blinking

LEMMA InvInit ==
  ASSUME Init
  PROVE  Inv
<1> DEFINE idle == [pc |-> 1, id |-> 0, loco |-> 0, invert |-> FALSE, delayed |-> FALSE,
                    blink |-> "not_blink_task", blinkPin |-> 0, on |-> NoEvent,
                    stack |-> <<>>, pauseSpeed |-> [v |-> Garbage, fwd |-> TRUE]]
           halted == [l \in Locos |-> [v |-> 0, fwd |-> TRUE]]
           blank == [ring |-> <<>>, task |-> [a \in Addr |-> idle], pausing |-> Nobody,
                     reserved |-> {}, latched |-> {}, ids |-> {},
                     signal |-> [s \in Signals |-> "RED"], speed |-> halted, saved |-> halted,
                     closed |-> [n \in Turnouts |-> TRUE], pin |-> [p \in Pins |-> FALSE],
                     stash |-> [n \in Sections |-> 0], power |-> TRUE,
                     shown |-> [n \in Sections |-> 0],
                     progtrackLocoId |-> 0, reading |-> FALSE, hung |-> FALSE,
                     lcc |-> [pc |-> 1, index |-> 0, lookup |-> [k \in 1 .. countLCCLookup |-> 1]]]
<1>1. prog \in Programs /\ zoneFreed = {} /\ x = Autostarted(AllRed(blank))
  BY DEF Init
<1>2. /\ blank.ring = <<>> /\ blank.task = [a \in Addr |-> idle]
      /\ blank.lcc = [pc |-> 1, index |-> 0, lookup |-> [k \in 1 .. countLCCLookup |-> 1]]
      /\ {"ring", "task", "reserved", "lcc"} \subseteq DOMAIN blank
  OBVIOUS
<1> HIDE DEF blank
<1>3. Ring(<<>>) /\ Range(<<>>) = {}
  BY DEF Ring, Range
<1>4. Shaped(blank)
  BY <1>2, <1>3 DEF Shaped
<1>5. 1 \in Open /\ 1 \in DOMAIN Code
  BY <1>1, CodeParts, EntriesOpen
<1>6. blank.lcc \in [pc : DOMAIN Code, index : Nat, lookup : [1 .. countLCCLookup -> Open]]
  BY <1>2, <1>5
<1>7. Sound(blank, {})
  BY <1>2, <1>3, <1>4, <1>6 DEF Sound, Inside
<1>8. Calm(blank, AllRed(blank))
  BY <1>1, <1>4, AllRedCalm
<1>9. Calm(AllRed(blank), x)
  BY <1>1, <1>8, AutostartedCalm DEF Calm
<1>10. QED
  BY <1>1, <1>7, <1>8, <1>9, CalmTrans, CalmSound DEF Inv

LEMMA InvStep ==
  ASSUME Inv, [Next]_vars
  PROVE  Inv'
<1>1. prog \in Programs /\ Sound(x, zoneFreed)
  BY DEF Inv
<1>2. CASE UNCHANGED vars
  BY <1>1, <1>2, InvNext DEF vars
<1>3. CASE Loop
  <2>1. prog' = prog /\ zoneFreed' = zoneFreed
    BY <1>3 DEF Loop
  <2>2. QED
    BY <1>1, <1>3, <2>1, LoopSound, InvNext
<1>4. CASE readLocoCallback
  <2>1. prog' = prog /\ zoneFreed' = zoneFreed
    BY <1>4 DEF readLocoCallback
  <2>2. QED
    BY <1>1, <1>4, <2>1, ReadLocoCallbackSound, InvNext
<1>5. CASE \E a \in Addr : Expire(a)
  <2>1. prog' = prog /\ zoneFreed' = zoneFreed
    BY <1>5 DEF Expire
  <2>2. QED
    BY <1>1, <1>5, <2>1, ExpireSound, InvNext
<1>6. CASE User
  <2>1. CASE LccAsks
    <3>1. prog' = prog /\ zoneFreed' = zoneFreed
      BY <2>1 DEF LccAsks, Command
    <3>2. QED
      BY <1>1, <2>1, <3>1, LccAsksSound, InvNext
  <2>2. CASE \E eventid \in 0 .. 1 : LccEvent(eventid)
    <3>1. prog' = prog /\ zoneFreed' = zoneFreed
      BY <2>2 DEF LccEvent, Command
    <3>2. QED
      BY <1>1, <2>2, <3>1, LccEventSound, InvNext
  <2>3. CASE \E p \in Pins : InputChanges(p)
    <3>1. prog' = prog /\ zoneFreed' = zoneFreed /\ x' = x
      BY <2>3 DEF InputChanges
    <3>2. QED
      BY <1>1, <3>1, InvNext
  <2>4. CASE (\E s : ReserveCommand(s)) \/ (\E p : LatchCommand(p)) \/ (\E S : FreeCommand(S))
    <3>1. prog' = prog
      BY <2>4 DEF ReserveCommand, LatchCommand, FreeCommand, Command
    <3>2. QED
      BY <1>1, <2>4, <3>1, FlagCommandSound, InvNext
  <2>5. CASE \/ Pause \/ Resume \/ KillAllCommand
             \/ \E cab, route : Start(cab, route)
             \/ \E a : KillCommand(a)
             \/ \E s, rag : rag \in {"RED", "AMBER", "GREEN"} /\ SignalCommand(s, rag)
             \/ \E s, aspect : AspectCommand(s, aspect)
             \/ \E kind \in Events : \E id, loco : Event(kind, id, loco)
    <3>1. prog' = prog /\ zoneFreed' = zoneFreed
      BY <2>5 DEF Pause, Resume, KillAllCommand, Start, KillCommand, SignalCommand,
         AspectCommand, Event, Command
    <3>2. QED
      BY <1>1, <2>5, <3>1, TaskCommandSound, InvNext
  <2>6. CASE ProgramCommand
    <3>1. prog' = prog /\ zoneFreed' = zoneFreed
      BY <2>6 DEF ProgramCommand, Command
    <3>2. QED
      BY <1>1, <2>6, <3>1, ProgramCommandSound, InvNext
  <2>7. \A kind \in {"ONBLOCKENTER", "ONBLOCKEXIT", "ONEVENT"} : kind \in Events
    BY DEF Events
  <2>8. QED
    BY <1>6, <2>1, <2>2, <2>3, <2>4, <2>5, <2>6, <2>7, SMTT(30) DEF User
<1>7. QED
  BY <1>2, <1>3, <1>4, <1>5, <1>6 DEF Next

\* The ring of tasks that the loop walks stays a ring: every task is in it once, whoever
\* starts or kills others meanwhile (EXRAIL2.cpp: RMFT2::RMFT2, ~RMFT2, loop).
THEOREM RingAlways == Spec => []RingOK
<1>1. Init => Inv
  BY InvInit
<1>2. Inv /\ [Next]_vars => Inv'
  BY InvStep
<1>3. Inv => RingOK
  BY RingParts DEF Inv, Sound, Shaped, RingOK
<1>4. QED
  BY <1>1, <1>2, <1>3, PTL DEF Spec

\* Whoever is in a section that no user freed by force is alone there, in every layout
\* that is used as it should be and with any number of tasks (EXRAIL2.cpp: loop2, RESERVE,
\* IFRESERVE, FREE; EXRAIL2Parser.cpp).
THEOREM SectionExclusiveAlways == Spec => []SectionExclusive
<1>1. Init => Inv
  BY InvInit
<1>2. Inv /\ [Next]_vars => Inv'
  BY InvStep
<1>3. Inv => SectionExclusive
  <2> SUFFICES ASSUME Inv, NEW s \in DOMAIN prog.zones \ zoneFreed,
                      NEW a \in Range(x.ring), NEW b \in Range(x.ring),
                      x.task[a].pc \in prog.zones[s], x.task[b].pc \in prog.zones[s],
                      ~Blinking(x, a), ~Blinking(x, b)
               PROVE  a = b
    BY DEF SectionExclusive
  <2>1. a \in Inside(x, s) /\ b \in Inside(x, s)
    BY DEF Inside, Zone
  <2>2. QED
    BY <2>1 DEF Inv, Sound
<1>4. QED
  BY <1>1, <1>2, <1>3, PTL DEF Spec
=============================================================================
