--------------------------- MODULE MainTrackProofs ---------------------------
(***************************************************************************)
(* The main track, for any number of locos, accessories, commands and      *)
(* repeats: the slots are accounted for, packets to one loco are separated *)
(* and the newest command wins.                                            *)
(*                                                                         *)
(* First come lemmas about the operators of DCCQueue: what a decoder ends  *)
(* up with when a queue is sent (Outcome), and what each schedule function *)
(* and scheduleNext do to the two queues, for queues of any length.        *)
(*                                                                         *)
(* Sound is inductive as it stands and needs nothing of the accessories.   *)
(* InOrder is inductive while no coil-off slot, whose union holds a time,  *)
(* reads as a packet to a loco (NoCollision).                              *)
(***************************************************************************)
EXTENDS MainTrack, DataLemmas

\* The slots that an emergency stop spares keep their order, and there are no others.
LEMMA PickEmbeds ==
  ASSUME NEW S, NEW s \in Seq(S), NEW I, I \subseteq 1 .. Len(s)
  PROVE  /\ Pick(s, I) \in Seq(S)
         /\ Len(Pick(s, I)) <= Len(s)
         /\ \E e : Embeds(e, Pick(s, I), s, I)
  <1>1. Pick(s, I) = Picked(s, I)
    BY DEF Pick, Picked
  <1>2. QED
    BY <1>1, PickedEmbeds

-----------------------------------------------------------------------------
(* What a queue will have told a decoder.                                  *)

\* It is what the last slot for the decoder says,
LEMMA OutcomeOfLast ==
  ASSUME NEW S, NEW s \in Seq(S), NEW kind, NEW a, NEW heard,
         NEW i \in 1 .. Len(s), Carries(s[i], kind, a),
         \A j \in 1 .. Len(s) : j > i => ~Carries(s[j], kind, a)
  PROVE  Outcome(s, kind, a, heard) = s[i].packet.val
  <1> DEFINE P == {j \in DOMAIN s : Carries(s[j], kind, a)}
  <1>1. P # {} /\ P \subseteq 1 .. Len(s) /\ i \in P /\ \A j \in P : j <= i
    OBVIOUS
  <1>2. Len(s) \in Nat
    BY LenProperties
  <1> HIDE DEF P
  <1>3. Max(P) \in P /\ \A j \in P : Max(P) >= j
    BY <1>1, <1>2, GreatestElement
  <1>4. Max(P) = i
    <2>1. Max(P) \in 1 .. Len(s) /\ Max(P) <= i /\ Max(P) >= i
      BY <1>1, <1>3
    <2>2. QED
      BY <2>1
  <1>5. QED
    BY <1>1, <1>4 DEF Outcome, P

\* or what it has heard when there is none.
LEMMA OutcomeOfNone ==
  ASSUME NEW S, NEW s \in Seq(S), NEW kind, NEW a, NEW heard,
         \A j \in 1 .. Len(s) : ~Carries(s[j], kind, a)
  PROVE  Outcome(s, kind, a, heard) = heard
  BY DEF Outcome

\* There is a last one unless there is none.
LEMMA LastCarrier ==
  ASSUME NEW S, NEW s \in Seq(S), NEW kind, NEW a,
         \E j \in 1 .. Len(s) : Carries(s[j], kind, a)
  PROVE  \E i \in 1 .. Len(s) : /\ Carries(s[i], kind, a)
                                /\ \A j \in 1 .. Len(s) : j > i => ~Carries(s[j], kind, a)
  <1> DEFINE P == {j \in 1 .. Len(s) : Carries(s[j], kind, a)}
  <1>1. P # {} /\ P \subseteq 1 .. Len(s) /\ Len(s) \in Nat
    BY LenProperties
  <1> HIDE DEF P
  <1>2. Max(P) \in P /\ \A j \in P : Max(P) >= j
    BY <1>1, GreatestElement
  <1>3. ASSUME NEW j \in 1 .. Len(s), j > Max(P) PROVE j \notin P
    <2>1. Max(P) \in 1 .. Len(s)
      BY <1>1, <1>2
    <2>2. ~(Max(P) >= j)
      BY <1>3, <2>1
    <2>3. QED
      BY <1>2, <2>2
  <1>4. QED
    BY <1>2, <1>3 DEF P

\* The slots of t are slots of s in the same order, told by e; all those that the decoder
\* obeys are there, and of them the packets are the same.
SameFor(e, t, s, kind, a) ==
    /\ e \in [1 .. Len(t) -> 1 .. Len(s)]
    /\ \A j, k \in 1 .. Len(t) : j < k => e[j] < e[k]
    /\ \A j \in 1 .. Len(t) : t[j].packet = s[e[j]].packet \/
          (~Carries(t[j], kind, a) /\ ~Carries(s[e[j]], kind, a))
    /\ \A i \in 1 .. Len(s) : Carries(s[i], kind, a) => \E j \in 1 .. Len(t) : e[j] = i

\* Two such queues tell it the same: slots for others come and go.
LEMMA OutcomeEmbeds ==
  ASSUME NEW S, NEW s \in Seq(S), NEW t \in Seq(S), NEW kind, NEW a, NEW heard, NEW e,
         SameFor(e, t, s, kind, a)
  PROVE  Outcome(t, kind, a, heard) = Outcome(s, kind, a, heard)
  <1> USE DEF SameFor
  <1>1. \A j \in 1 .. Len(t) : Carries(t[j], kind, a) <=> Carries(s[e[j]], kind, a)
    BY DEF Carries
  <1>2. CASE \A i \in 1 .. Len(s) : ~Carries(s[i], kind, a)
    <2>1. \A j \in 1 .. Len(t) : ~Carries(t[j], kind, a)
      BY <1>1, <1>2
    <2>2. QED
      BY <1>2, <2>1, OutcomeOfNone
  <1>3. CASE \E i \in 1 .. Len(s) : Carries(s[i], kind, a)
    <2>1. PICK i \in 1 .. Len(s) : /\ Carries(s[i], kind, a)
                                   /\ \A j \in 1 .. Len(s) : j > i => ~Carries(s[j], kind, a)
      BY <1>3, LastCarrier
    <2>2. PICK k \in 1 .. Len(t) : e[k] = i
      BY <2>1
    <2>3. Carries(t[k], kind, a)
      BY <1>1, <2>1, <2>2
    <2>4. ASSUME NEW j \in 1 .. Len(t), j > k PROVE ~Carries(t[j], kind, a)
      <3>1. e[j] \in 1 .. Len(s) /\ e[k] < e[j]
        BY <2>4
      <3>2. QED
        BY <1>1, <2>1, <2>2, <3>1
    <2>5. \A j \in 1 .. Len(t) : j > k => ~Carries(t[j], kind, a)
      BY <2>4
    <2>6. Outcome(t, kind, a, heard) = t[k].packet.val
      BY <2>3, <2>5, OutcomeOfLast
    <2>7. Outcome(s, kind, a, heard) = s[i].packet.val
      BY <2>1, OutcomeOfLast
    <2>8. t[k].packet = s[i].packet
      BY <2>1, <2>2
    <2>9. QED
      BY <2>6, <2>7, <2>8
  <1>4. QED
    BY <1>2, <1>3

\* A new last slot for it decides;
LEMMA OutcomeAppendNew ==
  ASSUME NEW S, NEW s \in Seq(S), NEW t \in S, NEW kind, NEW a, NEW heard, Carries(t, kind, a)
  PROVE  Outcome(Append(s, t), kind, a, heard) = t.packet.val
  <1>1. /\ Append(s, t) \in Seq(S) /\ Len(Append(s, t)) = Len(s) + 1
        /\ Append(s, t)[Len(s) + 1] = t
    BY AppendProperties
  <1> DEFINE w == Append(s, t)
  <1> HIDE DEF w
  <1>2. w \in Seq(S) /\ Len(w) = Len(s) + 1 /\ w[Len(s) + 1] = t /\ Len(s) + 1 \in 1 .. Len(w)
    BY <1>1 DEF w
  <1>3. \A j \in 1 .. Len(w) : j > Len(s) + 1 => ~Carries(w[j], kind, a)
    BY <1>2
  <1>4. Outcome(w, kind, a, heard) = w[Len(s) + 1].packet.val
    BY <1>2, <1>3, OutcomeOfLast
  <1>5. QED
    BY <1>2, <1>4 DEF w

\* one for another decoder changes nothing,
LEMMA OutcomeAppendOther ==
  ASSUME NEW S, NEW s \in Seq(S), NEW t \in S, NEW kind, NEW a, NEW heard, ~Carries(t, kind, a)
  PROVE  Outcome(Append(s, t), kind, a, heard) = Outcome(s, kind, a, heard)
  <1> DEFINE w == Append(s, t)
             e == [j \in 1 .. Len(s) |-> j]
  <1>1. /\ w \in Seq(S) /\ Len(w) = Len(s) + 1
        /\ \A i \in 1 .. Len(s) : w[i] = s[i]
        /\ w[Len(s) + 1] = t
    BY AppendProperties
  <1> HIDE DEF w
  <1>2. \A i \in 1 .. Len(w) : Carries(w[i], kind, a) => i \in 1 .. Len(s)
    BY <1>1
  <1>3. /\ e \in [1 .. Len(s) -> 1 .. Len(w)]
        /\ \A j, k \in 1 .. Len(s) : j < k => e[j] < e[k]
        /\ \A j \in 1 .. Len(s) : e[j] = j
    BY <1>1
  <1> HIDE DEF e
  <1>4. /\ \A j \in 1 .. Len(s) : s[j].packet = w[e[j]].packet
        /\ \A i \in 1 .. Len(w) : Carries(w[i], kind, a) => \E j \in 1 .. Len(s) : e[j] = i
    BY <1>1, <1>2, <1>3
  <1>5. SameFor(e, s, w, kind, a)
    BY <1>1, <1>3, <1>4 DEF SameFor
  <1>6. Outcome(s, kind, a, heard) = Outcome(w, kind, a, heard)
    BY <1>1, <1>5, OutcomeEmbeds
  <1>7. QED
    BY <1>6 DEF w

\* and neither does one at the head.
LEMMA OutcomeConsOther ==
  ASSUME NEW S, NEW s \in Seq(S), NEW t \in S, NEW kind, NEW a, NEW heard, ~Carries(t, kind, a)
  PROVE  Outcome(<<t>> \o s, kind, a, heard) = Outcome(s, kind, a, heard)
  <1> DEFINE w == <<t>> \o s
             e == [j \in 1 .. Len(s) |-> j + 1]
  <1>1. /\ w \in Seq(S) /\ Len(w) = Len(s) + 1
        /\ w[1] = t
        /\ \A i \in 1 .. Len(s) : w[i + 1] = s[i]
    BY ConsElements
  <1> HIDE DEF w
  <1>2. \A i \in 1 .. Len(w) : Carries(w[i], kind, a) => i - 1 \in 1 .. Len(s)
    BY <1>1
  <1>3. /\ e \in [1 .. Len(s) -> 1 .. Len(w)]
        /\ \A j, k \in 1 .. Len(s) : j < k => e[j] < e[k]
        /\ \A j \in 1 .. Len(s) : e[j] = j + 1
    BY <1>1
  <1> HIDE DEF e
  <1>4. /\ \A j \in 1 .. Len(s) : s[j].packet = w[e[j]].packet
        /\ \A i \in 1 .. Len(w) : Carries(w[i], kind, a) => \E j \in 1 .. Len(s) : e[j] = i
    <2>1. \A j \in 1 .. Len(s) : s[j].packet = w[e[j]].packet
      BY <1>1, <1>3
    <2>2. ASSUME NEW i \in 1 .. Len(w), Carries(w[i], kind, a)
          PROVE  \E j \in 1 .. Len(s) : e[j] = i
      <3>1. i - 1 \in 1 .. Len(s)
        BY <1>2, <2>2
      <3>2. e[i - 1] = i
        BY <1>3, <3>1
      <3>3. QED
        BY <3>1, <3>2
    <2>3. QED
      BY <2>1, <2>2
  <1>5. SameFor(e, s, w, kind, a)
    BY <1>1, <1>3, <1>4 DEF SameFor
  <1>6. Outcome(s, kind, a, heard) = Outcome(w, kind, a, heard)
    BY <1>1, <1>5, OutcomeEmbeds
  <1>7. QED
    BY <1>6 DEF w

\* Slots whose packets are the same tell the same.
LEMMA OutcomeSamePackets ==
  ASSUME NEW S, NEW s \in Seq(S), NEW t \in Seq(S), NEW kind, NEW a, NEW heard,
         Len(t) = Len(s), \A j \in 1 .. Len(s) : t[j].packet = s[j].packet
  PROVE  Outcome(t, kind, a, heard) = Outcome(s, kind, a, heard)
  <1> DEFINE e == [j \in 1 .. Len(s) |-> j]
  <1>1. /\ e \in [1 .. Len(t) -> 1 .. Len(s)]
        /\ \A j, k \in 1 .. Len(t) : j < k => e[j] < e[k]
        /\ \A j \in 1 .. Len(s) : e[j] = j
    OBVIOUS
  <1> HIDE DEF e
  <1>2. \A j \in 1 .. Len(t) : t[j].packet = s[e[j]].packet
    BY <1>1
  <1>3. \A i \in 1 .. Len(s) : Carries(s[i], kind, a) => \E j \in 1 .. Len(t) : e[j] = i
    BY <1>1
  <1>4. SameFor(e, t, s, kind, a)
    BY <1>1, <1>2, <1>3 DEF SameFor
  <1>5. QED
    BY <1>4, OutcomeEmbeds

\* and so does another packet in a slot for others.
LEMMA OutcomeReplaceOther ==
  ASSUME NEW S, NEW s \in Seq(S), NEW t \in Seq(S), NEW i, NEW kind, NEW a, NEW heard,
         Len(t) = Len(s), \A j \in 1 .. Len(s) : j # i => t[j].packet = s[j].packet,
         ~Carries(s[i], kind, a), ~Carries(t[i], kind, a)
  PROVE  Outcome(t, kind, a, heard) = Outcome(s, kind, a, heard)
  <1> DEFINE e == [j \in 1 .. Len(s) |-> j]
  <1>1. /\ e \in [1 .. Len(t) -> 1 .. Len(s)]
        /\ \A j, k \in 1 .. Len(t) : j < k => e[j] < e[k]
        /\ \A j \in 1 .. Len(s) : e[j] = j
    OBVIOUS
  <1> HIDE DEF e
  <1>2. \A j \in 1 .. Len(t) : t[j].packet = s[e[j]].packet \/
          (~Carries(t[j], kind, a) /\ ~Carries(s[e[j]], kind, a))
    BY <1>1
  <1>3. \A j \in 1 .. Len(s) : Carries(s[j], kind, a) => \E k \in 1 .. Len(t) : e[k] = j
    BY <1>1
  <1>4. SameFor(e, t, s, kind, a)
    BY <1>1, <1>2, <1>3 DEF SameFor
  <1>5. QED
    BY <1>4, OutcomeEmbeds

\* A decoder with a slot in the queue will forget what it has heard.
LEMMA OutcomeForgets ==
  ASSUME NEW S, NEW s \in Seq(S), NEW kind, NEW a, NEW h1, NEW h2,
         \E j \in 1 .. Len(s) : Carries(s[j], kind, a)
  PROVE  Outcome(s, kind, a, h1) = Outcome(s, kind, a, h2)
  <1>1. PICK i \in 1 .. Len(s) : /\ Carries(s[i], kind, a)
                                 /\ \A j \in 1 .. Len(s) : j > i => ~Carries(s[j], kind, a)
    BY LastCarrier
  <1>2. QED
    BY <1>1, OutcomeOfLast

\* Taking out a slot for another decoder changes nothing;
LEMMA OutcomeRemoveOther ==
  ASSUME NEW S, NEW s \in Seq(S), NEW i \in 1 .. Len(s), NEW kind, NEW a, NEW heard,
         ~Carries(s[i], kind, a)
  PROVE  Outcome(RemoveAt(s, i), kind, a, heard) = Outcome(s, kind, a, heard)
  <1> DEFINE t == RemoveAt(s, i)
  <1>1. t \in Seq(S)
    BY RemoveAtElements
  <1>2. PICK e : Embeds(e, t, s, (1 .. Len(s)) \ {i})
    BY RemoveAtEmbeds
  <1> HIDE DEF t
  <1>3. /\ \A j \in 1 .. Len(t) : e[j] \in 1 .. Len(s)
        /\ \A k \in 1 .. Len(s) : Carries(s[k], kind, a) => \E j \in 1 .. Len(t) : e[j] = k
    BY <1>2 DEF Embeds
  <1>4. SameFor(e, t, s, kind, a)
    BY <1>2, <1>3 DEF Embeds, SameFor
  <1>5. Outcome(t, kind, a, heard) = Outcome(s, kind, a, heard)
    BY <1>1, <1>4, OutcomeEmbeds
  <1>6. QED
    BY <1>5 DEF t

\* taking out the first slot for a decoder, which hears it now, does not either.
LEMMA OutcomeRemoveFirst ==
  ASSUME NEW S, NEW s \in Seq(S), NEW i \in 1 .. Len(s), NEW kind, NEW a, NEW heard,
         Carries(s[i], kind, a), \A j \in 1 .. i - 1 : ~Carries(s[j], kind, a)
  PROVE  Outcome(RemoveAt(s, i), kind, a, s[i].packet.val) = Outcome(s, kind, a, heard)
  <1> DEFINE t == RemoveAt(s, i)
  <1>1. t \in Seq(S) /\ Len(t) = Len(s) - 1
        /\ \A j \in 1 .. Len(s) - 1 : t[j] = IF j < i THEN s[j] ELSE s[j + 1]
    BY RemoveAtElements
  <1> HIDE DEF t
  <1>2. CASE \A j \in 1 .. Len(s) : j > i => ~Carries(s[j], kind, a)
    <2>1. Outcome(s, kind, a, heard) = s[i].packet.val
      BY <1>2, OutcomeOfLast
    <2>2. \A j \in 1 .. Len(t) : ~Carries(t[j], kind, a)
      <3> SUFFICES ASSUME NEW j \in 1 .. Len(t) PROVE ~Carries(t[j], kind, a)
        OBVIOUS
      <3>1. CASE j < i
        BY <1>1, <3>1
      <3>2. CASE ~(j < i)
        BY <1>1, <1>2, <3>2
      <3>3. QED
        BY <3>1, <3>2
    <2>3. Outcome(t, kind, a, s[i].packet.val) = s[i].packet.val
      BY <1>1, <2>2, OutcomeOfNone
    <2>4. QED
      BY <2>1, <2>3 DEF t
  <1>3. CASE \E j \in 1 .. Len(s) : j > i /\ Carries(s[j], kind, a)
    <2>1. PICK k \in 1 .. Len(s) : /\ Carries(s[k], kind, a)
                                   /\ \A j \in 1 .. Len(s) : j > k => ~Carries(s[j], kind, a)
      BY <1>3, LastCarrier
    <2>2. k > i
      BY <1>3, <2>1
    <2>3. k - 1 \in 1 .. Len(t) /\ t[k - 1] = s[k]
      BY <1>1, <2>2
    <2>4. \A j \in 1 .. Len(t) : j > k - 1 => ~Carries(t[j], kind, a)
      BY <1>1, <2>1, <2>2
    <2>5. Outcome(t, kind, a, s[i].packet.val) = t[k - 1].packet.val
      BY <1>1, <2>1, <2>3, <2>4, OutcomeOfLast
    <2>6. Outcome(s, kind, a, heard) = s[k].packet.val
      BY <2>1, OutcomeOfLast
    <2>7. QED
      BY <2>3, <2>5, <2>6 DEF t
  <1>4. QED
    BY <1>2, <1>3

-----------------------------------------------------------------------------
(* What the operations of the class do to the queues.                      *)

\* What QTypeOK says of the queues, and what the leak test of getSlot says.
Queues == [high : Seq(HighSlots), low : Seq(LowSlots), last : 0 .. W16 - 1, free : Nat, created : Nat]
NoLeak(Q) == Q.created = Len(Q.high) + Len(Q.low) + Q.free

\* Each queue holds slots.
LEMMA SlotSubsets == HighSlots \subseteq Slots /\ LowSlots \subseteq Slots
  BY DEF HighSlots, LowSlots

\* One of the queues is replaced,
LEMMA SetHigh ==
  ASSUME NEW Q \in Queues, NEW h \in Seq(HighSlots)
  PROVE  LET R == [Q EXCEPT !.high = h]
         IN  /\ R \in Queues /\ R.high = h /\ R.low = Q.low /\ R.last = Q.last
             /\ R.free = Q.free /\ R.created = Q.created
  BY DEF Queues

LEMMA SetLow ==
  ASSUME NEW Q \in Queues, NEW w \in Seq(LowSlots)
  PROVE  LET R == [Q EXCEPT !.low = w]
         IN  /\ R \in Queues /\ R.high = Q.high /\ R.low = w /\ R.last = Q.last
             /\ R.free = Q.free /\ R.created = Q.created
  BY DEF Queues

\* the loco it remembers,
LEMMA SetLast ==
  ASSUME NEW Q \in Queues, NEW l \in 0 .. W16 - 1
  PROVE  LET R == [Q EXCEPT !.last = l]
         IN  /\ R \in Queues /\ R.high = Q.high /\ R.low = Q.low /\ R.last = l
             /\ R.free = Q.free /\ R.created = Q.created
  BY DEF Queues

\* or one of its counts.
LEMMA SetFree ==
  ASSUME NEW Q \in Queues, NEW f \in Nat
  PROVE  LET R == [Q EXCEPT !.free = f]
         IN  /\ R \in Queues /\ R.high = Q.high /\ R.low = Q.low /\ R.last = Q.last
             /\ R.free = f /\ R.created = Q.created
  BY DEF Queues

LEMMA SetCreated ==
  ASSUME NEW Q \in Queues, NEW c \in Nat
  PROVE  LET R == [Q EXCEPT !.created = c]
         IN  /\ R \in Queues /\ R.high = Q.high /\ R.low = Q.low /\ R.last = Q.last
             /\ R.free = Q.free /\ R.created = c
  BY DEF Queues

\* A slot is taken for one of the queues.
LEMMA GetSlot ==
  ASSUME NEW Q \in Queues, NoLeak(Q)
  PROVE  /\ getSlot(Q) \in Queues
         /\ getSlot(Q).high = Q.high /\ getSlot(Q).low = Q.low /\ getSlot(Q).last = Q.last
         /\ getSlot(Q).created = Len(Q.high) + Len(Q.low) + getSlot(Q).free + 1
  <1> DEFINE n == Len(Q.high) + Len(Q.low)
  <1>1. n \in Nat /\ Q.free \in Nat /\ Q.created \in Nat /\ Q.created = n + Q.free
    BY LenProperties DEF Queues, NoLeak
  <1> HIDE DEF n
  <1>2. CASE Q.free > 0
    <2> DEFINE f == Q.free - 1
    <2>1. f \in Nat /\ Q.created = n + f + 1
      BY <1>1, <1>2
    <2>2. getSlot(Q) = [Q EXCEPT !.free = f]
      BY <1>2 DEF getSlot
    <2> HIDE DEF f
    <2>3. QED
      <3>1. /\ getSlot(Q) \in Queues /\ getSlot(Q).high = Q.high /\ getSlot(Q).low = Q.low
            /\ getSlot(Q).last = Q.last
            /\ getSlot(Q).free = f /\ getSlot(Q).created = Q.created
        BY <2>1, <2>2, SetFree
      <3>2. getSlot(Q).created = n + getSlot(Q).free + 1
        BY <2>1, <3>1
      <3>3. QED
        BY <3>1, <3>2 DEF n
  <1>3. CASE ~(Q.free > 0)
    <2> DEFINE c == Q.created + 1
    <2>1. c \in Nat /\ c = n + Q.free + 1
      BY <1>1
    <2>2. getSlot(Q) = [Q EXCEPT !.created = c]
      BY <1>3 DEF getSlot
    <2> HIDE DEF c
    <2>3. QED
      <3>1. /\ getSlot(Q) \in Queues /\ getSlot(Q).high = Q.high /\ getSlot(Q).low = Q.low
            /\ getSlot(Q).last = Q.last
            /\ getSlot(Q).free = Q.free /\ getSlot(Q).created = c
        BY <2>1, <2>2, SetCreated
      <3>2. getSlot(Q).created = n + getSlot(Q).free + 1
        BY <2>1, <3>1
      <3>3. QED
        BY <3>1, <3>2 DEF n
  <1>4. QED
    BY <1>2, <1>3

\* A slot is added to the low priority queue;
LEMMA AddLow ==
  ASSUME NEW Q \in Queues, NoLeak(Q), NEW s \in LowSlots
  PROVE  LET R == [getSlot(Q) EXCEPT !.low = addQueue(@, s)]
         IN  /\ R \in Queues /\ NoLeak(R)
             /\ R.high = Q.high /\ R.last = Q.last /\ R.low = Append(Q.low, s)
  <1> DEFINE R == [getSlot(Q) EXCEPT !.low = addQueue(@, s)]
  <1> DEFINE G == getSlot(Q)
  <1>1. /\ G \in Queues
        /\ G.high = Q.high /\ G.low = Q.low /\ G.last = Q.last
        /\ G.created = Len(Q.high) + Len(Q.low) + G.free + 1
    BY GetSlot
  <1>2. R = [G EXCEPT !.low = Append(G.low, s)]
    BY DEF addQueue
  <1> HIDE DEF G, R
  <1> DEFINE w == Append(Q.low, s)
  <1>3. w \in Seq(LowSlots) /\ Len(w) = Len(Q.low) + 1
    BY AppendProperties DEF Queues
  <1>4. R = [G EXCEPT !.low = w]
    BY <1>1, <1>2
  <1> HIDE DEF w
  <1>5. R \in Queues /\ R.high = Q.high /\ R.last = Q.last /\ R.low = w
        /\ R.created = G.created /\ R.free = G.free
    BY <1>1, <1>3, <1>4, SetLow
  <1>6. Len(Q.high) \in Nat /\ Len(Q.low) \in Nat /\ G.free \in Nat
    BY <1>1, LenProperties DEF Queues
  <1>7. Len(R.low) = Len(Q.low) + 1 /\ Len(R.high) = Len(Q.high)
    BY <1>3, <1>5
  <1>8. Len(Q.high) + Len(Q.low) + G.free + 1 = Len(Q.high) + (Len(Q.low) + 1) + G.free
    <2> DEFINE i == Len(Q.high)
               j == Len(Q.low)
               k == G.free
    <2>1. i \in Nat /\ j \in Nat /\ k \in Nat
      BY <1>6
    <2> HIDE DEF i, j, k
    <2>2. i + j + k + 1 = i + (j + 1) + k
      BY <2>1
    <2>3. QED
      BY <2>2 DEF i, j, k
  <1>9. R.created =  Len(R.high) + Len(R.low) + R.free
    BY <1>1, <1>5, <1>7, <1>8
  <1>10. QED
    BY <1>5, <1>9 DEF NoLeak, w, R

\* or to the high priority queue, at its end.
LEMMA AddHigh ==
  ASSUME NEW Q \in Queues, NoLeak(Q), NEW s \in HighSlots
  PROVE  LET R == [getSlot(Q) EXCEPT !.high = addQueue(@, s)]
         IN  /\ R \in Queues /\ NoLeak(R)
             /\ R.low = Q.low /\ R.last = Q.last /\ R.high = Append(Q.high, s)
  <1> DEFINE R == [getSlot(Q) EXCEPT !.high = addQueue(@, s)]
  <1> DEFINE G == getSlot(Q)
  <1>1. /\ G \in Queues
        /\ G.high = Q.high /\ G.low = Q.low /\ G.last = Q.last
        /\ G.created = Len(Q.high) + Len(Q.low) + G.free + 1
    BY GetSlot
  <1>2. R = [G EXCEPT !.high = Append(G.high, s)]
    BY DEF addQueue
  <1> HIDE DEF G, R
  <1> DEFINE w == Append(Q.high, s)
  <1>3. w \in Seq(HighSlots) /\ Len(w) = Len(Q.high) + 1
    BY AppendProperties DEF Queues
  <1>4. R = [G EXCEPT !.high = w]
    BY <1>1, <1>2
  <1> HIDE DEF w
  <1>5. R \in Queues /\ R.low = Q.low /\ R.last = Q.last /\ R.high = w
        /\ R.created = G.created /\ R.free = G.free
    BY <1>1, <1>3, <1>4, SetHigh
  <1>6. Len(Q.high) \in Nat /\ Len(Q.low) \in Nat /\ G.free \in Nat
    BY <1>1, LenProperties DEF Queues
  <1>7. Len(R.high) = Len(Q.high) + 1 /\ Len(R.low) = Len(Q.low)
    BY <1>3, <1>5
  <1>8. Len(Q.high) + Len(Q.low) + G.free + 1 = (Len(Q.high) + 1) + Len(Q.low) + G.free
    <2> DEFINE i == Len(Q.high)
               j == Len(Q.low)
               k == G.free
    <2>1. i \in Nat /\ j \in Nat /\ k \in Nat
      BY <1>6
    <2> HIDE DEF i, j, k
    <2>2. i + j + k + 1 = (i + 1) + j + k
      BY <2>1
    <2>3. QED
      BY <2>2 DEF i, j, k
  <1>9. R.created =  Len(R.high) + Len(R.low) + R.free
    BY <1>1, <1>5, <1>7, <1>8
  <1>10. QED
    BY <1>5, <1>9 DEF NoLeak, w, R

\* The first slot of a queue that passes a test, if one does: what FirstOf returns.
LEMMA FirstIndex ==
  ASSUME NEW found, NEW n \in Nat, found \subseteq 1 .. n,
         NEW i, i = IF found = {} THEN 0 ELSE Min(found)
  PROVE  /\ i = 0 <=> found = {}
         /\ i # 0 => i \in found /\ \A j \in found : i <= j
  <1>1. CASE found = {}
    BY <1>1
  <1>2. CASE found # {}
    <2>1. found \subseteq Nat
      OBVIOUS
    <2>2. Min(found) \in found /\ \A j \in found : Min(found) <= j
      BY <1>2, <2>1, LeastElement
    <2>3. QED
      BY <1>2, <2>2
  <1>3. QED
    BY <1>1, <1>2

\* A slot with a new packet keeps its type and its union.
LEMMA ReplaceElements ==
  ASSUME NEW T, T \subseteq Slots, NEW s \in Seq(T), NEW i \in 1 .. Len(s), NEW p, NEW r,
         Slot(s[i].type, p, r, s[i].union) \in T
  PROVE  /\ replacePacket(s, i, p, r) \in Seq(T)
         /\ Len(replacePacket(s, i, p, r)) = Len(s)
         /\ \A j \in 1 .. Len(s) : replacePacket(s, i, p, r)[j] =
               IF j = i THEN Slot(s[i].type, p, r, s[i].union) ELSE s[j]
  <1> DEFINE e == [s[i] EXCEPT !.packet = p]
             d == [e EXCEPT !.repeats = r]
             s1 == [s EXCEPT ![i] = e]
  <1>1. s[i] \in Slots /\ DOMAIN s = 1 .. Len(s)
    BY ElementOfSeq, LenProperties
  <1>2. d = Slot(s[i].type, p, r, s[i].union)
    <2>1. s[i] = [type |-> s[i].type, packet |-> s[i].packet,
                  repeats |-> s[i].repeats, union |-> s[i].union]
      BY <1>1 DEF Slots
    <2>2. e = [type |-> s[i].type, packet |-> p, repeats |-> s[i].repeats, union |-> s[i].union]
      BY <2>1
    <2> HIDE DEF e
    <2>3. d = [type |-> s[i].type, packet |-> p, repeats |-> r, union |-> s[i].union]
      BY <2>2
    <2>4. QED
      BY <2>3 DEF Slot
  <1>3. replacePacket(s, i, p, r) = [s1 EXCEPT ![i] = d]
    BY <1>1 DEF replacePacket
  <1>4. [s1 EXCEPT ![i] = d] = [s EXCEPT ![i] = d]
    BY <1>1
  <1> HIDE DEF e, d, s1
  <1>5. /\ [s EXCEPT ![i] = d] \in Seq(T)
        /\ Len([s EXCEPT ![i] = d]) = Len(s)
        /\ \A j \in 1 .. Len(s) : [s EXCEPT ![i] = d][j] = IF j = i THEN d ELSE s[j]
    BY <1>2, ExceptSeq
  <1>6. QED
    BY <1>2, <1>3, <1>4, <1>5

\* A speed packet is queued for a loco: in place of an older one of its, or after all.
SpeedQueued(Q, R, p, r, l) ==
    \/ \E i \in 1 .. Len(Q.high) : /\ locoId(Q.high[i]) = l
                                   /\ R.high = replacePacket(Q.high, i, p, r)
    \/ /\ \A i \in 1 .. Len(Q.high) : locoId(Q.high[i]) # l
       /\ R.high = Append(Q.high, Slot("SPEED", p, r, l))

\* A throttle speed replaces the packet of the loco's slot or gets a slot at the end.
LEMMA SpeedScheduled ==
  ASSUME NEW Q \in Queues, NoLeak(Q), NEW p \in Packets, NEW r \in Nat, NEW l \in Nat
  PROVE  LET R == scheduleDCCSpeedPacket(Q, p, r, l)
         IN  /\ R \in Queues /\ NoLeak(R) /\ R.low = Q.low /\ R.last = Q.last
             /\ SpeedQueued(Q, R, p, r, l)
  <1> DEFINE R == scheduleDCCSpeedPacket(Q, p, r, l)
             found == {i \in DOMAIN Q.high : locoId(Q.high[i]) = l}
             i == FirstOf(Q.high, LAMBDA s : locoId(s) = l)
  <1>1. Q.high \in Seq(HighSlots) /\ DOMAIN Q.high = 1 .. Len(Q.high) /\ Len(Q.high) \in Nat
    BY LenProperties DEF Queues
  <1>2. i = IF found = {} THEN 0 ELSE Min(found)
    BY DEF FirstOf
  <1>3. R = IF i # 0 THEN [Q EXCEPT !.high = replacePacket(@, i, p, r)]
            ELSE [getSlot(Q) EXCEPT !.high = addQueue(@, Slot("SPEED", p, r, l))]
    BY DEF scheduleDCCSpeedPacket
  <1> HIDE DEF i
  <1>4. found \subseteq 1 .. Len(Q.high)
    BY <1>1
  <1>5. /\ i = 0 <=> found = {}
        /\ i # 0 => i \in found
    <2> HIDE DEF found
    <2>1. QED
      BY <1>1, <1>2, <1>4, FirstIndex
  <1>6. CASE i # 0
    <2>1. i \in 1 .. Len(Q.high) /\ locoId(Q.high[i]) = l
      BY <1>1, <1>5, <1>6
    <2>2. Q.high[i] \in HighSlots
      BY <1>1, <2>1, ElementOfSeq
    <2>3. Slot(Q.high[i].type, p, r, Q.high[i].union) \in HighSlots
      BY <2>2 DEF HighSlots, Slots, Slot
    <2> DEFINE h == replacePacket(Q.high, i, p, r)
    <2>4. h \in Seq(HighSlots) /\ Len(h) = Len(Q.high)
      BY <1>1, <2>1, <2>3, ReplaceElements, SlotSubsets
    <2>5. R = [Q EXCEPT !.high = h]
      BY <1>3, <1>6
    <2> HIDE DEF h
    <2>6. /\ R \in Queues /\ R.low = Q.low /\ R.last = Q.last /\ R.high = h
          /\ R.free = Q.free /\ R.created = Q.created
      BY <2>4, <2>5, SetHigh
    <2>7. NoLeak(R)
      BY <2>4, <2>6 DEF NoLeak
    <2>8. QED
      BY <2>1, <2>6, <2>7 DEF h, SpeedQueued
  <1>7. CASE i = 0
    <2>1. Slot("SPEED", p, r, l) \in HighSlots
      BY DEF HighSlots, Slots, Slot, Types
    <2>2. R = [getSlot(Q) EXCEPT !.high = addQueue(@, Slot("SPEED", p, r, l))]
      BY <1>3, <1>7
    <2>3. /\ R \in Queues /\ NoLeak(R)
          /\ R.low = Q.low /\ R.last = Q.last /\ R.high = Append(Q.high, Slot("SPEED", p, r, l))
      BY <2>1, <2>2, AddHigh
    <2>4. \A j \in 1 .. Len(Q.high) : locoId(Q.high[j]) # l
      BY <1>1, <1>5, <1>7
    <2>5. QED
      BY <2>3, <2>4 DEF SpeedQueued
  <1>8. QED
    BY <1>6, <1>7

\* The groups have packets and slots of their own.
LEMMA Groups5 ==
  /\ \A g \in Groups : /\ FnType(g) \in Types \ {"SPEED", "ACC_OFF", "NORMAL", "ACC_ON"}
                       /\ FnKind(g) \in Kinds \ {"speed", "cv", "acc", "idle", "aspect", "time"}
  /\ \A g, k \in Groups : g # k => FnType(g) # FnType(k) /\ FnKind(g) # FnKind(k)
  <1>1. \A g \in Groups : g = 1 \/ g = 2 \/ g = 3 \/ g = 4 \/ g = 5
    BY MainTrackAssumption
  <1>2. /\ FnType(1) = "FUNCTION1" /\ FnType(2) = "FUNCTION2" /\ FnType(3) = "FUNCTION3"
        /\ FnType(4) = "FUNCTION4" /\ FnType(5) = "FUNCTION5"
        /\ FnKind(1) = "fn1" /\ FnKind(2) = "fn2" /\ FnKind(3) = "fn3"
        /\ FnKind(4) = "fn4" /\ FnKind(5) = "fn5"
    BY DEF FnType, FnKind
  <1>3. \A g \in Groups : /\ FnType(g) \in Types \ {"SPEED", "ACC_OFF", "NORMAL", "ACC_ON"}
                          /\ FnKind(g) \in Kinds \ {"speed", "cv", "acc", "idle", "aspect", "time"}
    BY <1>1, <1>2 DEF Types, Kinds
  <1>4. \A g, k \in Groups : g # k => FnType(g) # FnType(k) /\ FnKind(g) # FnKind(k)
    BY <1>1, <1>2
  <1>5. QED
    BY <1>3, <1>4

\* A function packet replaces that of the loco's slot for the group or gets a slot at the end.
LEMMA FunctionScheduled ==
  ASSUME NEW Q \in Queues, NoLeak(Q), NEW p \in Packets, NEW l \in Nat, NEW g \in Groups
  PROVE  LET R == scheduleDCCFunctionPacket(Q, p, l, g)
         IN  /\ R \in Queues /\ NoLeak(R) /\ R.high = Q.high /\ R.last = Q.last
             /\ \/ \E i \in 1 .. Len(Q.low) :
                      /\ locoId(Q.low[i]) = l /\ Q.low[i].type = FnType(g)
                      /\ R.low = replacePacket(Q.low, i, p, 0)
                \/ /\ \A i \in 1 .. Len(Q.low) : locoId(Q.low[i]) = l => Q.low[i].type # FnType(g)
                   /\ R.low = Append(Q.low, Slot(FnType(g), p, 0, l))
  <1> DEFINE R == scheduleDCCFunctionPacket(Q, p, l, g)
             found == {i \in DOMAIN Q.low : locoId(Q.low[i]) = l /\ Q.low[i].type = FnType(g)}
             i == FirstOf(Q.low, LAMBDA s : locoId(s) = l /\ s.type = FnType(g))
             new == Slot(FnType(g), p, 0, l)
  <1>1. Q.low \in Seq(LowSlots) /\ DOMAIN Q.low = 1 .. Len(Q.low) /\ Len(Q.low) \in Nat
    BY LenProperties DEF Queues
  <1>2. i = IF found = {} THEN 0 ELSE Min(found)
    BY DEF FirstOf
  <1>3. R = IF i # 0 THEN [Q EXCEPT !.low = replacePacket(@, i, p, 0)]
            ELSE [getSlot(Q) EXCEPT !.low = addQueue(@, new)]
    BY DEF scheduleDCCFunctionPacket
  <1>4. new \in LowSlots
    <2>1. FnType(g) \in Types \ {"SPEED", "ACC_OFF"}
      BY Groups5
    <2>2. QED
      BY <2>1 DEF LowSlots, Slots, Slot
  <1> HIDE DEF i, new
  <1>5. found \subseteq 1 .. Len(Q.low)
    BY <1>1
  <1>6. /\ i = 0 <=> found = {}
        /\ i # 0 => i \in found
    <2> HIDE DEF found
    <2>1. QED
      BY <1>1, <1>2, <1>5, FirstIndex
  <1>7. CASE i # 0
    <2>1. i \in 1 .. Len(Q.low) /\ locoId(Q.low[i]) = l /\ Q.low[i].type = FnType(g)
      BY <1>1, <1>6, <1>7
    <2>2. Q.low[i] \in LowSlots
      BY <1>1, <2>1, ElementOfSeq
    <2>3. Slot(Q.low[i].type, p, 0, Q.low[i].union) \in LowSlots
      BY <2>2 DEF LowSlots, Slots, Slot
    <2> DEFINE h == replacePacket(Q.low, i, p, 0)
    <2>4. h \in Seq(LowSlots) /\ Len(h) = Len(Q.low)
      BY <1>1, <2>1, <2>3, ReplaceElements, SlotSubsets
    <2>5. R = [Q EXCEPT !.low = h]
      BY <1>3, <1>7
    <2> HIDE DEF h
    <2>6. /\ R \in Queues /\ R.high = Q.high /\ R.last = Q.last /\ R.low = h
          /\ R.free = Q.free /\ R.created = Q.created
      BY <2>4, <2>5, SetLow
    <2>7. NoLeak(R)
      BY <2>4, <2>6 DEF NoLeak
    <2>8. QED
      BY <2>1, <2>6, <2>7 DEF h
  <1>8. CASE i = 0
    <2>1. R = [getSlot(Q) EXCEPT !.low = addQueue(@, new)]
      BY <1>3, <1>8
    <2>2. /\ R \in Queues /\ NoLeak(R)
          /\ R.high = Q.high /\ R.last = Q.last /\ R.low = Append(Q.low, new)
      BY <1>4, <2>1, AddLow
    <2>3. \A j \in 1 .. Len(Q.low) : locoId(Q.low[j]) = l => Q.low[j].type # FnType(g)
      BY <1>1, <1>6, <1>8
    <2>4. QED
      BY <2>2, <2>3 DEF new
  <1>9. QED
    BY <1>7, <1>8

\* An emergency stop is queued before the slots that are kept.
EstopQueued(Q, R, p, r, l) ==
    \E kept \in Seq(HighSlots) : /\ \E e : Embeds(e, kept, Q.high, Spared(Q, l))
                                /\ R.high = <<Slot("SPEED", p, r, 0)>> \o kept

\* The order of the slots spared and the packet in front of them.
LEMMA EstopScheduled ==
  ASSUME NEW Q \in Queues, NoLeak(Q), NEW p \in Packets, NEW r \in Nat, NEW l
  PROVE  LET R == scheduleEstopPacket(Q, p, r, l)
         IN  /\ R \in Queues /\ NoLeak(R) /\ R.low = Q.low /\ R.last = Q.last
             /\ EstopQueued(Q, R, p, r, l)
  <1> DEFINE R == scheduleEstopPacket(Q, p, r, l)
             kept == Pick(Q.high, Spared(Q, l))
             new == Slot("SPEED", p, r, 0)
             S == [Q EXCEPT !.high = kept, !.free = @ + Len(Q.high) - Len(kept)]
             G == getSlot(S)
             h == <<new>> \o kept
  <1>1. Q.high \in Seq(HighSlots) /\ DOMAIN Q.high = 1 .. Len(Q.high) /\ Len(Q.high) \in Nat
    BY LenProperties DEF Queues
  <1>2. Spared(Q, l) \subseteq 1 .. Len(Q.high)
    BY <1>1 DEF Spared
  <1>3. /\ kept \in Seq(HighSlots) /\ Len(kept) <= Len(Q.high)
        /\ \E e : Embeds(e, kept, Q.high, Spared(Q, l))
    BY <1>1, <1>2, PickEmbeds
  <1>4. R = [G EXCEPT !.high = <<new>> \o @]
    BY DEF scheduleEstopPacket, jumpQueue
  <1>5. new \in HighSlots
    BY DEF HighSlots, Slots, Slot, Types
  <1> HIDE DEF kept, new
  <1>6. Len(kept) \in Nat
    BY <1>3, LenProperties
  <1> DEFINE f == Q.free + Len(Q.high) - Len(kept)
  <1>7. S = [Q EXCEPT !.high = kept, !.free = f]
    OBVIOUS
  <1>8. f \in Nat
    <2>1. Q.free \in Nat
      BY DEF Queues
    <2>2. \A a, b, c \in Nat : c <= b => a + b - c \in Nat
      OBVIOUS
    <2>3. QED
      BY <1>1, <1>3, <1>6, <2>1, <2>2
  <1>9. Q.created = Len(kept) + Len(Q.low) + f
    <2> DEFINE a == Q.free
               b == Len(Q.high)
               c == Len(Q.low)
               d == Len(kept)
    <2>1. a \in Nat /\ b \in Nat /\ c \in Nat /\ d \in Nat /\ d <= b
      BY <1>1, <1>3, <1>6, LenProperties DEF Queues
    <2>2. Q.created = b + c + a /\ f = a + b - d
      BY DEF NoLeak
    <2> HIDE DEF a, b, c, d, f
    <2>3. Q.created = d + c + f
      BY <2>1, <2>2
    <2>4. QED
      BY <2>3 DEF c, d
  <1> HIDE DEF f, S
  <1>10. /\ S \in Queues /\ S.high = kept /\ S.low = Q.low /\ S.last = Q.last
         /\ S.free = f /\ S.created = Q.created
    BY <1>3, <1>7, <1>8 DEF Queues
  <1>11. NoLeak(S)
    BY <1>9, <1>10 DEF NoLeak
  <1>12. /\ G \in Queues
         /\ G.high = kept /\ G.low = Q.low /\ G.last = Q.last
         /\ G.created = Len(kept) + Len(Q.low) + G.free + 1
    BY <1>10, <1>11, GetSlot
  <1> HIDE DEF G
  <1>13. h \in Seq(HighSlots) /\ Len(h) = Len(kept) + 1
    BY <1>3, <1>5, ConsElements
  <1>14. R = [G EXCEPT !.high = h]
    BY <1>4, <1>12
  <1> HIDE DEF h
  <1>15. /\ R \in Queues /\ R.low = Q.low /\ R.last = Q.last /\ R.high = h
         /\ R.created = G.created /\ R.free = G.free
    BY <1>12, <1>13, <1>14, SetHigh
  <1>16. NoLeak(R)
    <2>1. Len(R.high) = Len(kept) + 1 /\ Len(R.low) = Len(Q.low)
      BY <1>13, <1>15
    <2>2. Len(Q.low) \in Nat /\ G.free \in Nat
      BY <1>12, LenProperties DEF Queues
    <2>4. Len(kept) + Len(Q.low) + G.free + 1 = (Len(kept) + 1) + Len(Q.low) + G.free
      <3> DEFINE i == Len(kept)
                 j == Len(Q.low)
                 k == G.free
      <3>1. i \in Nat /\ j \in Nat /\ k \in Nat
        BY <1>6, <2>2
      <3> HIDE DEF i, j, k
      <3>2. i + j + k + 1 = (i + 1) + j + k
        BY <3>1
      <3>3. QED
        BY <3>2 DEF i, j, k
    <2>5. R.created = Len(R.high) + Len(R.low) + R.free
      BY <1>12, <1>15, <2>1, <2>4
    <2>6. QED
      BY <2>5 DEF NoLeak
  <1>17. QED
    BY <1>3, <1>15, <1>16 DEF h, new, EstopQueued

\* The slot at i of a queue, sent with repeats to go, or for good.
Repeating(s, i) == [s EXCEPT ![i].repeats = @ - 1]

\* The slots of two queues differ at most in their repeats.
SamePackets(w, s) ==
    /\ Len(w) = Len(s)
    /\ \A j \in 1 .. Len(s) : w[j].packet = s[j].packet /\ w[j].type = s[j].type /\ w[j].union = s[j].union

\* Only the repeats of the slot change.
LEMMA RepeatingElements ==
  ASSUME NEW T, T \subseteq Slots, NEW s \in Seq(T), NEW i \in 1 .. Len(s), s[i].repeats > 0,
         Slot(s[i].type, s[i].packet, s[i].repeats - 1, s[i].union) \in T
  PROVE  Repeating(s, i) \in Seq(T) /\ SamePackets(Repeating(s, i), s)
  <1> DEFINE d == Slot(s[i].type, s[i].packet, s[i].repeats - 1, s[i].union)
             w == [s EXCEPT ![i] = d]
  <1>1. s[i] \in Slots /\ DOMAIN s = 1 .. Len(s)
    BY ElementOfSeq, LenProperties
  <1>2. [s[i] EXCEPT !.repeats = @ - 1] = d
    <2>1. s[i] = [type |-> s[i].type, packet |-> s[i].packet,
                  repeats |-> s[i].repeats, union |-> s[i].union]
      BY <1>1 DEF Slots
    <2>2. QED
      BY <2>1 DEF Slot
  <1>3. Repeating(s, i) = w
    BY <1>1, <1>2 DEF Repeating
  <1>4. d.packet = s[i].packet /\ d.type = s[i].type /\ d.union = s[i].union
    BY DEF Slot
  <1>5. d \in T
    OBVIOUS
  <1> HIDE DEF d
  <1>6. /\ w \in Seq(T) /\ Len(w) = Len(s)
        /\ \A j \in 1 .. Len(s) : w[j] = IF j = i THEN d ELSE s[j]
    BY <1>5, ExceptSeq
  <1> HIDE DEF w
  <1>7. \A j \in 1 .. Len(s) : w[j].packet = s[j].packet /\ w[j].type = s[j].type /\ w[j].union = s[j].union
    BY <1>4, <1>6
  <1>8. QED
    BY <1>3, <1>6, <1>7 DEF SamePackets

\* The slot stays in the queue it is in.
LEMMA RepeatingHigh ==
  ASSUME NEW s \in Seq(HighSlots), NEW i \in 1 .. Len(s), s[i].repeats > 0
  PROVE  Repeating(s, i) \in Seq(HighSlots) /\ SamePackets(Repeating(s, i), s)
  <1>1. s[i] \in HighSlots
    BY ElementOfSeq
  <1>2. Slot(s[i].type, s[i].packet, s[i].repeats - 1, s[i].union) \in HighSlots
    BY <1>1 DEF HighSlots, Slots, Slot
  <1>3. QED
    BY <1>2, RepeatingElements, SlotSubsets

LEMMA RepeatingLow ==
  ASSUME NEW s \in Seq(LowSlots), NEW i \in 1 .. Len(s), s[i].repeats > 0
  PROVE  Repeating(s, i) \in Seq(LowSlots) /\ SamePackets(Repeating(s, i), s)
  <1>1. s[i] \in LowSlots
    BY ElementOfSeq
  <1>2. Slot(s[i].type, s[i].packet, s[i].repeats - 1, s[i].union) \in LowSlots
    BY <1>1 DEF LowSlots, Slots, Slot
  <1>3. QED
    BY <1>2, RepeatingElements, SlotSubsets

\* The first slot of a queue that may be sent.
Chosen(Q, s, i, t) ==
    /\ i \in 1 .. Len(s) /\ Sendable(Q, s[i], t)
    /\ \A j \in 1 .. Len(s) : j < i => ~Sendable(Q, s[j], t)

\* The coil-off slot that a coil-on slot turns into.
Off(s, t) == [s EXCEPT !.type = "ACC_OFF", !.packet.val = OFF, !.union = (t + locoId(s)) % W32]

\* The three ways to send a packet from the low priority queue,
SentLow(Q, R, p, t) ==
    \E i \in 1 .. Len(Q.low) :
        /\ Chosen(Q, Q.low, i, t)
        /\ p = Q.low[i].packet /\ R.last = locoId(Q.low[i])
        /\ \/ R.high = Q.high /\ Q.low[i].repeats > 0 /\ R.low = Repeating(Q.low, i)
           \/ /\ Q.low[i].type = "ACC_ON" /\ R.low = RemoveAt(Q.low, i)
              /\ R.high = <<Off(Q.low[i], t)>> \o Q.high
           \/ /\ R.high = Q.high /\ Q.low[i].type # "ACC_ON" /\ R.low = RemoveAt(Q.low, i)

\* the two to send one from the high priority queue, and an idle one.
SentHigh(Q, R, p, t) ==
    \E i \in 1 .. Len(Q.high) :
        /\ Chosen(Q, Q.high, i, t)
        /\ p = Q.high[i].packet /\ R.last = locoId(Q.high[i]) /\ R.low = Q.low
        /\ \/ Q.high[i].repeats > 0 /\ R.high = Repeating(Q.high, i)
           \/ R.high = RemoveAt(Q.high, i)
SentIdle(Q, R, p) == p = IdlePacket /\ R.last = 0 /\ R.high = Q.high /\ R.low = Q.low
Sent(Q, R, p, t) == SentIdle(Q, R, p) \/ SentLow(Q, R, p, t) \/ SentHigh(Q, R, p, t)

\* The walk of scheduleNextInternal stops at the first slot that it does not skip.
LEMMA FoundChosen ==
  ASSUME NEW Q, NEW S, NEW s \in Seq(S), NEW t,
         NEW i, i = FirstOf(s, LAMBDA x : Sendable(Q, x, t)), i # 0
  PROVE  Chosen(Q, s, i, t)
  <1> DEFINE found == {j \in DOMAIN s : Sendable(Q, s[j], t)}
  <1>1. DOMAIN s = 1 .. Len(s) /\ Len(s) \in Nat
    BY LenProperties
  <1>2. i = IF found = {} THEN 0 ELSE Min(found)
    BY DEF FirstOf
  <1>3. found \subseteq 1 .. Len(s)
    BY <1>1
  <1>4. i \in found /\ \A j \in found : i <= j
    <2> HIDE DEF found
    <2>1. QED
      BY <1>1, <1>2, <1>3, FirstIndex
  <1>5. \A j \in 1 .. Len(s) : j < i => j \notin found
    <2> SUFFICES ASSUME NEW j \in 1 .. Len(s), j \in found, j < i PROVE FALSE
      OBVIOUS
    <2>1. i <= j /\ i \in 1 .. Len(s)
      BY <1>3, <1>4
    <2>2. QED
      BY <2>1
  <1>6. QED
    BY <1>1, <1>4, <1>5 DEF Chosen

\* The switch-off packet goes to the coil that was energised, with the repeats left.
LEMMA OffSound ==
  ASSUME NEW s \in Slots, s.type = "ACC_ON", OFF \in Vals, s.packet.val \in Vals, NEW t \in Nat
  PROVE  /\ Off(s, t) = Slot("ACC_OFF", Packet(s.packet.to, s.packet.kind, OFF),
                             s.repeats, (t + locoId(s)) % W32)
         /\ (t + locoId(s)) % W32 \in Nat
  <1>1. s = [type |-> s.type, packet |-> s.packet, repeats |-> s.repeats, union |-> s.union]
        /\ s.packet \in Packets /\ s.union \in Nat
    BY DEF Slots
  <1>2. s.packet = [kind |-> s.packet.kind, to |-> s.packet.to, val |-> s.packet.val]
    BY <1>1 DEF Packets
  <1>3. [s.packet EXCEPT !.val = OFF] = Packet(s.packet.to, s.packet.kind, OFF)
    BY <1>2 DEF Packet
  <1> DEFINE p == Packet(s.packet.to, s.packet.kind, OFF)
             u == (t + locoId(s)) % W32
  <1>4. [s EXCEPT !.type = "ACC_OFF", !.packet.val = OFF, !.union = u]
           = [[[s EXCEPT !.type = "ACC_OFF"] EXCEPT !.packet = p] EXCEPT !.union = u]
    BY <1>1, <1>3
  <1> HIDE DEF p, u
  <1>5. [[[s EXCEPT !.type = "ACC_OFF"] EXCEPT !.packet = p] EXCEPT !.union = u]
           = Slot("ACC_OFF", p, s.repeats, u)
    <2> DEFINE x == [s EXCEPT !.type = "ACC_OFF"]
               y == [x EXCEPT !.packet = p]
    <2>1. x = [type |-> "ACC_OFF", packet |-> s.packet, repeats |-> s.repeats, union |-> s.union]
      BY <1>1
    <2> HIDE DEF x
    <2>2. y = [type |-> "ACC_OFF", packet |-> p, repeats |-> s.repeats, union |-> s.union]
      BY <2>1
    <2> HIDE DEF y
    <2>3. [y EXCEPT !.union = u] = Slot("ACC_OFF", p, s.repeats, u)
      BY <2>2 DEF Slot
    <2>4. QED
      BY <2>3 DEF x, y
  <1>6. u \in Nat
    BY <1>1, WidthAssumption DEF u, locoId
  <1>7. QED
    BY <1>4, <1>5, <1>6 DEF Off, p, u

\* What scheduleNext does when it has a packet: the queues and the slots stay sound.
LEMMA NextScheduled ==
  ASSUME NEW Q \in Queues, NoLeak(Q), NEW t \in Nat, NEW force \in BOOLEAN,
         \A i \in 1 .. Len(Q.low) : Q.low[i].type = "ACC_ON" => \E a \in Accs : Q.low[i].packet = Packet(a, "acc", ON),
         scheduleNext(Q, force, t).ok
  PROVE  LET R == scheduleNext(Q, force, t).q
             p == scheduleNext(Q, force, t).packet
         IN  /\ R \in Queues /\ NoLeak(R)
             /\ Sent(Q, R, p, t)
  <1> USE DEF Sent
  <1> DEFINE N == scheduleNext(Q, force, t)
             R == N.q
             p == N.packet
             hi == Candidate(Q, "high", t)
             lo == Candidate(Q, "low", t)
  <1>1. /\ Q.high \in Seq(HighSlots) /\ Len(Q.high) \in Nat
        /\ Q.low \in Seq(LowSlots) /\ Len(Q.low) \in Nat
        /\ Q.free \in Nat /\ Q.created \in Nat /\ Q.last \in 0 .. W16 - 1
    BY LenProperties DEF Queues
  <1>2. ASSUME NEW s \in Slots PROVE locoId(s) \in 0 .. W16 - 1
    <2>1. s.union \in Nat
      BY DEF Slots
    <2>2. QED
      BY <2>1, WidthAssumption DEF locoId
  <1>3. CASE hi # 0
    <2>1. Source(Q, t) = "high"
      BY <1>3 DEF Source
    <2> DEFINE s == Q.high[hi]
    <2>2. p = s.packet /\ R = scheduleNextInternal(Q, "high", hi, t)
      BY <2>1 DEF scheduleNext
    <2>3. hi = FirstOf(Q.high, LAMBDA x : Sendable(Q, x, t))
      BY DEF Candidate
    <2>4. Chosen(Q, Q.high, hi, t)
      BY <1>1, <1>3, <2>3, FoundChosen
    <2> HIDE DEF N, hi
    <2>5. hi \in 1 .. Len(Q.high)
      BY <2>4 DEF Chosen
    <2>6. s \in HighSlots /\ s.type # "ACC_ON"
      BY <1>1, <2>5, ElementOfSeq DEF HighSlots
    <2>7. locoId(s) \in 0 .. W16 - 1
      BY <1>2, <2>6 DEF HighSlots
    <2>8. CASE locoId(s) # 0 /\ s.repeats > 0
      <3> DEFINE h == Repeating(Q.high, hi)
      <3>1. R = [[Q EXCEPT !.last = locoId(s)] EXCEPT !.high = h]
        BY <2>2, <2>8 DEF scheduleNextInternal, Repeating
      <3>2. Slot(s.type, s.packet, s.repeats - 1, s.union) \in HighSlots
        BY <2>6, <2>8 DEF HighSlots, Slots, Slot
      <3>3. h \in Seq(HighSlots) /\ Len(h) = Len(Q.high)
        BY <1>1, <2>5, <2>8, RepeatingHigh DEF SamePackets
      <3> DEFINE L == [Q EXCEPT !.last = locoId(s)]
      <3>4. L \in Queues /\ L.low = Q.low /\ L.free = Q.free /\ L.created = Q.created
            /\ L.high = Q.high /\ L.last = locoId(s)
        BY <2>7 DEF Queues
      <3>5. R = [L EXCEPT !.high = h]
        BY <3>1
      <3> HIDE DEF h, L, R
      <3>6. R \in Queues /\ R.low = Q.low /\ R.free = Q.free /\ R.created = Q.created
            /\ R.high = h /\ R.last = locoId(s)
        BY <3>3, <3>4, <3>5, SetHigh
      <3>7. NoLeak(R)
        BY <3>3, <3>6 DEF NoLeak
      <3>8. SentHigh(Q, R, p, t)
        BY <2>2, <2>4, <2>5, <2>8, <3>6 DEF SentHigh, h
      <3>9. QED
        BY <3>6, <3>7, <3>8 DEF R, N
    <2>9. CASE ~(locoId(s) # 0 /\ s.repeats > 0)
      <3> DEFINE h == RemoveAt(Q.high, hi)
                 L == [Q EXCEPT !.last = locoId(s)]
                 D == [L EXCEPT !.high = h]
      <3>1. R = [D EXCEPT !.free = @ + 1]
        BY <2>2, <2>6, <2>9 DEF scheduleNextInternal
      <3>2. h \in Seq(HighSlots) /\ Len(h) = Len(Q.high) - 1
        BY <1>1, <2>5, RemoveAtElements
      <3> HIDE DEF h, R
      <3>3. L \in Queues /\ L.low = Q.low /\ L.free = Q.free /\ L.created = Q.created
            /\ L.high = Q.high /\ L.last = locoId(s)
        BY <2>7 DEF Queues
      <3> HIDE DEF L
      <3>4. D \in Queues /\ D.low = Q.low /\ D.free = Q.free /\ D.created = Q.created
            /\ D.high = h /\ D.last = locoId(s)
        BY <3>2, <3>3 DEF Queues
      <3> HIDE DEF D
      <3>5. R \in Queues /\ R.low = Q.low /\ R.free = Q.free + 1 /\ R.created = Q.created
            /\ R.high = h /\ R.last = locoId(s)
        <4> DEFINE f == Q.free + 1
        <4>1. f \in Nat /\ R = [D EXCEPT !.free = f]
          BY <1>1, <3>4, <3>1
        <4> HIDE DEF f
        <4>2. R \in Queues /\ R.low = Q.low /\ R.free = f /\ R.created = Q.created
              /\ R.high = h /\ R.last = locoId(s)
          BY <3>4, <4>1 DEF Queues
        <4>3. QED
          BY <4>2 DEF f
      <3>6. NoLeak(R)
        <4> DEFINE a == Q.free
                   b == Len(Q.high)
                   c == Len(Q.low)
        <4>1. /\ a \in Nat /\ b \in Nat /\ c \in Nat
              /\ R.free = a + 1 /\ Len(R.high) = b - 1 /\ Len(R.low) = c
          BY <1>1, <3>2, <3>5
        <4>2. R.created = b + c + a
          BY <3>5 DEF NoLeak
        <4> HIDE DEF a, b, c
        <4>3. b + c + a = (b - 1) + c + (a + 1)
          BY <4>1
        <4>4. R.created = Len(R.high) + Len(R.low) + R.free
          BY <4>1, <4>2, <4>3
        <4>5. QED
          BY <4>4 DEF NoLeak
      <3>7. SentHigh(Q, R, p, t)
        BY <2>2, <2>4, <2>5, <3>5 DEF SentHigh, h
      <3>8. QED
        BY <3>5, <3>6, <3>7 DEF R, N
    <2>10. QED
      BY <2>8, <2>9
  <1>4. CASE hi = 0 /\ lo # 0
    <2>1. Source(Q, t) = "low"
      BY <1>4 DEF Source
    <2> DEFINE s == Q.low[lo]
    <2>2. p = s.packet /\ R = scheduleNextInternal(Q, "low", lo, t)
      BY <2>1 DEF scheduleNext
    <2>3. lo = FirstOf(Q.low, LAMBDA x : Sendable(Q, x, t))
      BY DEF Candidate
    <2>4. Chosen(Q, Q.low, lo, t)
      BY <1>1, <1>4, <2>3, FoundChosen
    <2> HIDE DEF N, lo, hi
    <2>5. lo \in 1 .. Len(Q.low)
      BY <2>4 DEF Chosen
    <2>6. s \in LowSlots
      BY <1>1, <2>5, ElementOfSeq
    <2>7. locoId(s) \in 0 .. W16 - 1
      BY <1>2, <2>6 DEF LowSlots
    <2> DEFINE L == [Q EXCEPT !.last = locoId(s)]
    <2>8. L \in Queues /\ L.low = Q.low /\ L.free = Q.free /\ L.created = Q.created
          /\ L.high = Q.high /\ L.last = locoId(s)
      BY <2>7 DEF Queues
    <2>9. CASE locoId(s) # 0 /\ s.repeats > 0
      <3> DEFINE h == Repeating(Q.low, lo)
      <3>1. R = [L EXCEPT !.low = h]
        BY <2>2, <2>9 DEF scheduleNextInternal, Repeating
      <3>2. Slot(s.type, s.packet, s.repeats - 1, s.union) \in LowSlots
        BY <2>6, <2>9 DEF LowSlots, Slots, Slot
      <3>3. h \in Seq(LowSlots) /\ Len(h) = Len(Q.low)
        BY <1>1, <2>5, <2>9, RepeatingLow DEF SamePackets
      <3> HIDE DEF h, L, R
      <3>4. R \in Queues /\ R.high = Q.high /\ R.free = Q.free /\ R.created = Q.created
            /\ R.low = h /\ R.last = locoId(s)
        BY <2>8, <3>1, <3>3, SetLow
      <3>5. NoLeak(R)
        BY <3>3, <3>4 DEF NoLeak
      <3>6. SentLow(Q, R, p, t)
        BY <2>2, <2>4, <2>5, <2>9, <3>4 DEF SentLow, h
      <3>7. QED
        BY <3>4, <3>5, <3>6 DEF R, N
    <2> DEFINE h == RemoveAt(Q.low, lo)
               D == [L EXCEPT !.low = h]
    <2>10. h \in Seq(LowSlots) /\ Len(h) = Len(Q.low) - 1
      BY <1>1, <2>5, RemoveAtElements
    <2>11. /\ D \in Queues /\ D.high = Q.high /\ D.free = Q.free /\ D.created = Q.created
           /\ D.low = h /\ D.last = locoId(s)
      <3> HIDE DEF h, L
      <3>1. QED
        BY <2>8, <2>10 DEF Queues
    <2>12. CASE ~(locoId(s) # 0 /\ s.repeats > 0) /\ s.type = "ACC_ON"
      <3> DEFINE o == Off(s, t)
                 w == <<o>> \o Q.high
      <3>1. R = [D EXCEPT !.high = <<o>> \o @]
        BY <2>2, <2>12 DEF scheduleNextInternal, Off, jumpQueue
      <3>2. o \in HighSlots
        <4>1. PICK a \in Accs : s.packet = Packet(a, "acc", ON)
          BY <2>5, <2>12
        <4>2. s \in Slots /\ OFF \in Vals /\ s.packet.val \in Vals
          BY <2>6, <4>1 DEF LowSlots, Packet, Vals
        <4>3. /\ o = Slot("ACC_OFF", Packet(s.packet.to, s.packet.kind, OFF),
                              s.repeats, (t + locoId(s)) % W32)
              /\ (t + locoId(s)) % W32 \in Nat
          BY <2>12, <4>2, OffSound
        <4>4. Packet(s.packet.to, s.packet.kind, OFF) \in Packets
          BY <4>1 DEF Packets, Packet, Vals, Kinds
        <4>5. s.repeats \in Nat
          BY <4>2 DEF Slots
        <4> DEFINE u == (t + locoId(s)) % W32
                   r == s.repeats
                   pk == Packet(s.packet.to, s.packet.kind, OFF)
        <4>6. u \in Nat /\ r \in Nat /\ pk \in Packets /\ o = Slot("ACC_OFF", pk, r, u)
          BY <4>3, <4>4, <4>5
        <4> HIDE DEF u, r, pk, o
        <4>7. QED
          BY <4>6 DEF HighSlots, Slots, Slot, Types
      <3>3. w \in Seq(HighSlots) /\ Len(w) = Len(Q.high) + 1
        BY <1>1, <3>2, ConsElements
      <3>4. R = [D EXCEPT !.high = w]
        BY <2>11, <3>1
      <3> HIDE DEF w, o, D, R
      <3>5. R \in Queues /\ R.high = w /\ R.free = Q.free /\ R.created = Q.created
            /\ R.low = h /\ R.last = locoId(s)
        BY <2>11, <3>3, <3>4 DEF Queues
      <3>6. NoLeak(R)
        <4> DEFINE a == Q.free
                   b == Len(Q.high)
                   c == Len(Q.low)
        <4>1. /\ a \in Nat /\ b \in Nat /\ c \in Nat
              /\ R.free = a /\ Len(R.high) = b + 1 /\ Len(R.low) = c - 1
          BY <1>1, <2>10, <3>3, <3>5
        <4>2. R.created = b + c + a
          BY <3>5 DEF NoLeak
        <4> HIDE DEF a, b, c
        <4>3. b + c + a = (b + 1) + (c - 1) + a
          BY <4>1
        <4>4. R.created = Len(R.high) + Len(R.low) + R.free
          BY <4>1, <4>2, <4>3
        <4>5. QED
          BY <4>4 DEF NoLeak
      <3>7. SentLow(Q, R, p, t)
        BY <2>2, <2>4, <2>5, <2>12, <3>5 DEF SentLow, h, w, o
      <3>8. QED
        BY <3>5, <3>6, <3>7 DEF R, N
    <2>13. CASE ~(locoId(s) # 0 /\ s.repeats > 0) /\ s.type # "ACC_ON"
      <3>1. R = [D EXCEPT !.free = @ + 1]
        BY <2>2, <2>13 DEF scheduleNextInternal
      <3> HIDE DEF D, R
      <3>2. R \in Queues /\ R.high = Q.high /\ R.free = Q.free + 1 /\ R.created = Q.created
            /\ R.low = h /\ R.last = locoId(s)
        <4> DEFINE f == Q.free + 1
        <4>1. f \in Nat /\ R = [D EXCEPT !.free = f]
          BY <1>1, <2>11, <3>1
        <4> HIDE DEF f
        <4>2. R \in Queues /\ R.high = Q.high /\ R.free = f /\ R.created = Q.created
              /\ R.low = h /\ R.last = locoId(s)
          BY <2>11, <4>1 DEF Queues
        <4>3. QED
          BY <4>2 DEF f
      <3>3. NoLeak(R)
        <4> DEFINE a == Q.free
                   b == Len(Q.high)
                   c == Len(Q.low)
        <4>1. /\ a \in Nat /\ b \in Nat /\ c \in Nat
              /\ R.free = a + 1 /\ Len(R.high) = b /\ Len(R.low) = c - 1
          BY <1>1, <2>10, <3>2
        <4>2. R.created = b + c + a
          BY <3>2 DEF NoLeak
        <4> HIDE DEF a, b, c
        <4>3. b + c + a = b + (c - 1) + (a + 1)
          BY <4>1
        <4>4. R.created = Len(R.high) + Len(R.low) + R.free
          BY <4>1, <4>2, <4>3
        <4>5. QED
          BY <4>4 DEF NoLeak
      <3>4. SentLow(Q, R, p, t)
        BY <2>2, <2>4, <2>5, <2>13, <3>2 DEF SentLow, h
      <3>5. QED
        BY <3>2, <3>3, <3>4 DEF R, N
    <2>14. QED
      BY <2>9, <2>12, <2>13
  <1>5. CASE hi = 0 /\ lo = 0
    <2>1. Source(Q, t) = "none"
      BY <1>5 DEF Source
    <2>2. force /\ p = IdlePacket /\ R = [Q EXCEPT !.last = 0]
      BY <2>1 DEF scheduleNext
    <2> HIDE DEF N
    <2>3. /\ R \in Queues /\ R.high = Q.high /\ R.low = Q.low /\ R.last = 0
          /\ R.free = Q.free /\ R.created = Q.created
      <3> DEFINE X == [Q EXCEPT !.last = 0]
      <3>1. 0 \in 0 .. W16 - 1
        BY WidthAssumption
      <3>2. /\ X \in Queues /\ X.high = Q.high /\ X.low = Q.low /\ X.last = 0
            /\ X.free = Q.free /\ X.created = Q.created
        BY <3>1, SetLast
      <3>3. R = X
        BY <2>2
      <3> HIDE DEF X
      <3>4. QED
        BY <3>2, <3>3
    <2>4. QED
      BY <2>2, <2>3 DEF SentIdle, NoLeak, N
  <1>6. QED
    BY <1>3, <1>4, <1>5

-----------------------------------------------------------------------------
(* What the slots of the low priority queue can be.                        *)

\* A program-on-main packet and a function packet carry their loco in the union; the packets
\* of NORMAL slots to anything else carry 0, and a coil-on slot carries its delay there.
LowRight(s) ==
    \/ /\ s.type = "NORMAL" /\ s.packet.kind = "cv"
       /\ s.packet.to \in Locos /\ s.union = s.packet.to
    \/ s.type = "NORMAL" /\ s.packet.kind = "acc" /\ s.packet.to \in Signals /\ s.union = 0
    \/ s.type = "NORMAL" /\ s.packet.kind = "aspect" /\ s.union = 0
    \/ s.type = "NORMAL" /\ s.packet.kind = "time" /\ s.packet.to = 0 /\ s.union = 0
    \/ s.type = "ACC_ON" /\ \E a \in Accs : s.packet = Packet(a, "acc", ON)
    \/ /\ s.packet.to \in Locos /\ s.union = s.packet.to
       /\ \E g \in Groups : s.type = FnType(g) /\ s.packet.kind = FnKind(g)

\* Two slots are not for the same group of the same loco.
Apart(x, y) == \A g \in Groups : x.type = FnType(g) /\ y.type = FnType(g) => x.union # y.union

\* Every slot is one of these, and no function group of a loco has two.
LowSound(s) ==
    /\ \A i \in 1 .. Len(s) : LowRight(s[i])
    /\ \A i, j \in 1 .. Len(s) : i < j => Apart(s[i], s[j])

\* Whom the packets of the low priority queue are for, apart from the pulsed coils.
Heeds(kind, a) ==
    \/ kind \in {FnKind(g) : g \in Groups} /\ a \in Locos
    \/ kind = "acc" /\ a \in Signals
    \/ kind = "aspect" /\ a \in Heads
    \/ kind = "time" /\ a = 0

\* The union of a slot tells whom its packet is for.
LEMMA CarrierUnion ==
  ASSUME NEW s \in LowSlots, LowRight(s), NEW kind, NEW a, Heeds(kind, a), Carries(s, kind, a)
  PROVE  /\ s.type # "ACC_OFF"
         /\ s.union = IF kind \in {FnKind(g) : g \in Groups} THEN a ELSE 0
         /\ \A g \in Groups : kind = FnKind(g) => s.type = FnType(g) /\ locoId(s) = a
  <1>1. /\ \A g \in Groups : FnKind(g) \notin {"speed", "cv", "acc", "idle", "aspect", "time"}
        /\ \A g, k \in Groups : g # k => FnKind(g) # FnKind(k)
    BY Groups5
  <1>2. kind # "speed"
    BY <1>1 DEF Heeds
  <1>3. s.packet.kind = kind /\ s.packet.to = a
    BY <1>2 DEF Carries, Reaches
  <1>4. s.type # "ACC_OFF"
    BY DEF LowSlots
  <1>5. ASSUME NEW b \in Accs, s.packet = Packet(b, "acc", ON) PROVE kind = "acc" /\ a = b
    BY <1>3, <1>5 DEF Packet
  <1>6. CASE kind \in {FnKind(g) : g \in Groups}
    <2>1. PICK g \in Groups : kind = FnKind(g)
      BY <1>6
    <2>2. a \in Locos
      BY <1>1, <2>1 DEF Heeds
    <2>3. kind \notin {"cv", "acc", "aspect", "time"}
      BY <1>1, <2>1
    <2>4. s.union = a /\ \E k \in Groups : s.type = FnType(k) /\ kind = FnKind(k)
      BY <1>3, <1>5, <2>3 DEF LowRight
    <2>5. s.type = FnType(g)
      BY <1>1, <2>1, <2>4
    <2>6. a % W16 = a
      BY <2>2, MainTrackAssumption, WidthAssumption
    <2>7. QED
      BY <1>1, <1>4, <1>6, <2>1, <2>4, <2>5, <2>6 DEF locoId
  <1>7. CASE kind \notin {FnKind(g) : g \in Groups}
    <2>1. s.union = 0
      <3>1. s.type = "ACC_ON" => kind = "acc" /\ a \in Accs
        <4>1. s.type = "ACC_ON" => s.type \notin {FnType(g) : g \in Groups} \cup {"NORMAL"}
          BY Groups5
        <4>2. QED
          BY <1>5, <4>1 DEF LowRight
      <3>2. s.type # "ACC_ON"
        BY <1>1, <3>1, UsersAssumption DEF Heeds
      <3>3. QED
        BY <1>3, <1>7, <3>2 DEF LowRight, Heeds
    <2>2. QED
      BY <1>4, <1>7, <2>1
  <1>8. QED
    BY <1>6, <1>7

\* Of the slots for one decoder, the walk skips all or none.
LEMMA SkippedAlike ==
  ASSUME NEW Q, NEW x \in LowSlots, NEW y \in LowSlots, LowRight(x), LowRight(y),
         NEW kind, NEW a, Heeds(kind, a), Carries(x, kind, a), Carries(y, kind, a),
         NEW t, Sendable(Q, y, t)
  PROVE  Sendable(Q, x, t)
  <1>1. x.type # "ACC_OFF" /\ y.type # "ACC_OFF" /\ x.union = y.union
    BY CarrierUnion
  <1>2. QED
    BY <1>1 DEF Sendable, locoId

\* What a decoder has heard once a packet is sent.
Told(p, kind, a, heard) == IF p.kind = kind /\ Reaches(p, a) THEN p.val ELSE heard

\* A packet sent from the low priority queue is the oldest for its decoder: what it will
\* have been told in the end stays the same.
LEMMA LowSentTells ==
  ASSUME NEW Q \in Queues, NEW R, NEW p, NEW t, SentLow(Q, R, p, t), LowSound(Q.low),
         NEW kind, NEW a, NEW heard, Heeds(kind, a)
  PROVE  Outcome(R.low, kind, a, Told(p, kind, a, heard)) = Outcome(Q.low, kind, a, heard)
  <1> DEFINE s == Q.low
  <1>1. s \in Seq(LowSlots) /\ Len(s) \in Nat
    BY LenProperties DEF Queues
  <1>2. PICK i \in 1 .. Len(s) :
            /\ Chosen(Q, s, i, t) /\ p = s[i].packet
            /\ \/ R.low = RemoveAt(s, i)
               \/ s[i].repeats > 0 /\ R.low = Repeating(s, i)
    BY DEF SentLow
  <1>3. s[i] \in LowSlots /\ \A j \in 1 .. Len(s) : s[j] \in LowSlots /\ LowRight(s[j])
    BY <1>1, ElementOfSeq DEF LowSound
  <1> HIDE DEF s
  <1>4. Told(p, kind, a, heard) = IF Carries(s[i], kind, a) THEN s[i].packet.val ELSE heard
    BY <1>2 DEF Told, Carries
  <1>5. ASSUME Carries(s[i], kind, a), NEW j \in 1 .. i - 1
        PROVE  ~Carries(s[j], kind, a)
    <2>1. j \in 1 .. Len(s) /\ j < i
      BY <1>1
    <2>2. ~Sendable(Q, s[j], t) /\ Sendable(Q, s[i], t)
      BY <1>2, <2>1 DEF Chosen
    <2>3. QED
      BY <1>3, <1>5, <2>1, <2>2, SkippedAlike
  <1>6. CASE R.low = RemoveAt(s, i)
    <2>1. CASE Carries(s[i], kind, a)
      <3>1. \A j \in 1 .. i - 1 : ~Carries(s[j], kind, a)
        BY <1>5, <2>1
      <3>2. Outcome(RemoveAt(s, i), kind, a, s[i].packet.val) = Outcome(s, kind, a, heard)
        BY <1>1, <2>1, <3>1, OutcomeRemoveFirst
      <3>3. QED
        BY <1>4, <1>6, <2>1, <3>2 DEF s
    <2>2. CASE ~Carries(s[i], kind, a)
      <3>1. Outcome(RemoveAt(s, i), kind, a, heard) = Outcome(s, kind, a, heard)
        BY <1>1, <2>2, OutcomeRemoveOther
      <3>2. QED
        BY <1>4, <1>6, <2>2, <3>1 DEF s
    <2>3. QED
      BY <2>1, <2>2
  <1>7. CASE s[i].repeats > 0 /\ R.low = Repeating(s, i)
    <2>1. Slot(s[i].type, s[i].packet, s[i].repeats - 1, s[i].union) \in LowSlots
      BY <1>3, <1>7 DEF LowSlots, Slots, Slot
    <2>2. /\ Repeating(s, i) \in Seq(LowSlots) /\ Len(Repeating(s, i)) = Len(s)
          /\ \A j \in 1 .. Len(s) : Repeating(s, i)[j].packet = s[j].packet
      BY <1>1, <1>7, RepeatingLow DEF SamePackets
    <2> DEFINE h == Told(p, kind, a, heard)
    <2>3. Outcome(Repeating(s, i), kind, a, h) = Outcome(s, kind, a, h)
      BY <1>1, <2>2, OutcomeSamePackets
    <2>4. Outcome(s, kind, a, h) = Outcome(s, kind, a, heard)
      <3>1. CASE Carries(s[i], kind, a)
        BY <1>1, <3>1, OutcomeForgets
      <3>2. CASE ~Carries(s[i], kind, a)
        BY <1>4, <3>2
      <3>3. QED
        BY <3>1, <3>2
    <2>5. QED
      BY <1>7, <2>3, <2>4 DEF s
  <1>8. QED
    BY <1>2, <1>6, <1>7

\* Types and unions stay as slots are sent.
LEMMA LowSentSound ==
  ASSUME NEW Q \in Queues, NEW R, NEW p, NEW t, SentLow(Q, R, p, t), LowSound(Q.low)
  PROVE  LowSound(R.low)
  <1> DEFINE s == Q.low
  <1>1. s \in Seq(LowSlots) /\ Len(s) \in Nat
    BY LenProperties DEF Queues
  <1>2. PICK i \in 1 .. Len(s) : \/ R.low = RemoveAt(s, i)
                                 \/ s[i].repeats > 0 /\ R.low = Repeating(s, i)
    BY DEF SentLow
  <1>3. s[i] \in LowSlots /\ LowSound(s)
    BY <1>1, ElementOfSeq
  <1> HIDE DEF s
  <1> DEFINE w == R.low
  <1>4. CASE w = RemoveAt(s, i)
    <2>1. PICK e : Embeds(e, w, s, (1 .. Len(s)) \ {i})
      BY <1>1, <1>4, RemoveAtEmbeds
    <2>2. /\ \A j \in 1 .. Len(w) : e[j] \in 1 .. Len(s) /\ w[j] = s[e[j]]
          /\ \A j, k \in 1 .. Len(w) : j < k => e[j] < e[k]
      BY <2>1 DEF Embeds
    <2> HIDE DEF w
    <2>3. QED
      BY <1>3, <2>2 DEF LowSound, w
  <1>5. CASE s[i].repeats > 0 /\ w = Repeating(s, i)
    <2>1. Slot(s[i].type, s[i].packet, s[i].repeats - 1, s[i].union) \in LowSlots
      BY <1>3, <1>5 DEF LowSlots, Slots, Slot
    <2>2. /\ Len(w) = Len(s)
          /\ \A j \in 1 .. Len(s) : w[j].packet = s[j].packet /\ w[j].type = s[j].type /\ w[j].union = s[j].union
      BY <1>1, <1>5, RepeatingLow DEF SamePackets
    <2> HIDE DEF w
    <2>3. ASSUME NEW j \in 1 .. Len(w) PROVE LowRight(w[j])
      BY <1>3, <2>2 DEF LowSound, LowRight
    <2>4. ASSUME NEW j \in 1 .. Len(w), NEW k \in 1 .. Len(w), j < k PROVE Apart(w[j], w[k])
      <3>1. Apart(s[j], s[k])
        BY <1>3, <2>2, <2>4 DEF LowSound
      <3>2. QED
        BY <2>2, <3>1 DEF Apart
    <2>5. QED
      BY <2>3, <2>4 DEF LowSound, w
  <1>6. QED
    BY <1>2, <1>4, <1>5

\* A slot at the end of the low priority queue tells its decoder something new.
LEMMA LowAdded ==
  ASSUME NEW s \in Seq(LowSlots), LowSound(s), NEW x \in LowSlots, LowRight(x),
         \A i \in 1 .. Len(s) : Apart(s[i], x)
  PROVE  /\ LowSound(Append(s, x))
         /\ \A kind, a, heard : Outcome(Append(s, x), kind, a, heard) =
               IF Carries(x, kind, a) THEN x.packet.val ELSE Outcome(s, kind, a, heard)
  <1> DEFINE w == Append(s, x)
  <1>1. /\ w \in Seq(LowSlots) /\ Len(w) = Len(s) + 1
        /\ \A j \in 1 .. Len(s) : w[j] = s[j]
        /\ w[Len(s) + 1] = x
    BY AppendProperties
  <1>2. Len(s) \in Nat
    BY LenProperties
  <1> HIDE DEF w
  <1>3. ASSUME NEW j \in 1 .. Len(w) PROVE LowRight(w[j])
    <2>1. j \in 1 .. Len(s) \/ j = Len(s) + 1
      BY <1>1, <1>2
    <2>2. QED
      BY <1>1, <2>1 DEF LowSound
  <1>4. ASSUME NEW j \in 1 .. Len(w), NEW k \in 1 .. Len(w), j < k PROVE Apart(w[j], w[k])
    <2>1. j \in 1 .. Len(s) /\ w[j] = s[j]
      BY <1>1, <1>2, <1>4
    <2>2. k \in 1 .. Len(s) \/ k = Len(s) + 1
      BY <1>1, <1>2
    <2>3. QED
      BY <1>1, <1>4, <2>1, <2>2 DEF LowSound
  <1>5. LowSound(w)
    BY <1>3, <1>4 DEF LowSound
  <1>6. ASSUME NEW kind, NEW a, NEW heard
        PROVE  Outcome(Append(s, x), kind, a, heard) =
                  IF Carries(x, kind, a) THEN x.packet.val ELSE Outcome(s, kind, a, heard)
    BY OutcomeAppendNew, OutcomeAppendOther
  <1>7. QED
    BY <1>5, <1>6 DEF w

\* So does a new packet in a function slot; the packet it replaces was for the same group.
LEMMA LowReplaced ==
  ASSUME NEW s \in Seq(LowSlots), LowSound(s), NEW i \in 1 .. Len(s), NEW l \in Locos, NEW g \in Groups,
         locoId(s[i]) = l, s[i].type = FnType(g), NEW v \in Vals,
         NEW w, w = replacePacket(s, i, Packet(l, FnKind(g), v), 0)
  PROVE  /\ LowSound(w)
         /\ \A heard : Outcome(w, FnKind(g), l, heard) = v
         /\ \A kind, a, heard : Heeds(kind, a) /\ <<kind, a>> # <<FnKind(g), l>> =>
               Outcome(w, kind, a, heard) = Outcome(s, kind, a, heard)
  <1> DEFINE p == Packet(l, FnKind(g), v)
             n == Slot(s[i].type, p, 0, s[i].union)
  <1>1. s[i] \in LowSlots /\ LowRight(s[i])
    <2>1. s[i] \in LowSlots
      BY ElementOfSeq
    <2>2. LowRight(s[i])
      BY DEF LowSound
    <2>3. QED
      BY <2>1, <2>2
  <1>2. /\ FnType(g) \notin {"NORMAL", "ACC_ON", "SPEED", "ACC_OFF"} /\ FnKind(g) # "speed"
        /\ \A k \in Groups : k # g => FnType(g) # FnType(k) /\ FnKind(g) # FnKind(k)
        /\ FnKind(g) \in Kinds
    BY Groups5
  <1>3. /\ s[i].packet.to \in Locos /\ s[i].union = s[i].packet.to
        /\ s[i].packet.kind = FnKind(g)
    BY <1>1, <1>2 DEF LowRight
  <1>4. s[i].union = l /\ s[i].packet.to = l
    <2>1. \A k \in Locos : k % W16 = k
      BY MainTrackAssumption, WidthAssumption
    <2>2. QED
      BY <1>3, <2>1 DEF locoId
  <1>5. p \in Packets /\ p.to = l /\ p.kind = FnKind(g) /\ p.val = v
    BY <1>2 DEF Packets, Packet
  <1> HIDE DEF p
  <1>6. n \in LowSlots
    BY <1>1, <1>5 DEF LowSlots, Slots, Slot
  <1>7. n.type = FnType(g) /\ n.packet = p /\ n.union = l
    BY <1>4 DEF Slot
  <1>8. /\ w \in Seq(LowSlots) /\ Len(w) = Len(s)
        /\ \A j \in 1 .. Len(s) : w[j] = IF j = i THEN n ELSE s[j]
    BY <1>6, ReplaceElements, SlotSubsets DEF p
  <1> HIDE DEF n
  <1>9. LowSound(w)
    <2>1. LowRight(n)
      BY <1>5, <1>7 DEF LowRight
    <2>2. ASSUME NEW j \in 1 .. Len(w) PROVE LowRight(w[j])
      BY <1>8, <2>1 DEF LowSound
    <2>3. ASSUME NEW j \in 1 .. Len(w), NEW k \in 1 .. Len(w), j < k PROVE Apart(w[j], w[k])
      <3>1. Apart(s[j], s[k])
        BY <1>8, <2>3 DEF LowSound
      <3>2. /\ w[j].type = s[j].type /\ w[j].union = s[j].union
            /\ w[k].type = s[k].type /\ w[k].union = s[k].union
        BY <1>4, <1>7, <1>8
      <3>3. QED
        BY <3>1, <3>2 DEF Apart
    <2>4. QED
      BY <2>2, <2>3 DEF LowSound
  <1>10. ASSUME NEW heard PROVE Outcome(w, FnKind(g), l, heard) = v
    <2>1. Carries(w[i], FnKind(g), l)
      BY <1>5, <1>7, <1>8 DEF Carries, Reaches
    <2>2. ASSUME NEW j \in 1 .. Len(w), j > i, Carries(w[j], FnKind(g), l) PROVE FALSE
      <3>1. w[j] \in LowSlots /\ LowRight(w[j])
        BY <1>8, <1>9, ElementOfSeq DEF LowSound
      <3>2. Heeds(FnKind(g), l)
        BY DEF Heeds
      <3>3. w[j].union = l /\ w[j].type = FnType(g)
        BY <2>2, <3>1, <3>2, CarrierUnion
      <3>4. w[i].union = l /\ w[i].type = FnType(g)
        BY <1>7, <1>8
      <3>5. Apart(w[i], w[j])
        BY <1>8, <1>9, <2>2 DEF LowSound
      <3>6. QED
        BY <3>3, <3>4, <3>5 DEF Apart
    <2>3. Outcome(w, FnKind(g), l, heard) = w[i].packet.val
      BY <1>8, <2>1, <2>2, OutcomeOfLast
    <2>4. QED
      BY <1>5, <1>7, <1>8, <2>3
  <1>11. ASSUME NEW kind, NEW a, NEW heard, Heeds(kind, a), <<kind, a>> # <<FnKind(g), l>>
         PROVE  Outcome(w, kind, a, heard) = Outcome(s, kind, a, heard)
    <2>1. ~Carries(w[i], kind, a) /\ ~Carries(s[i], kind, a)
      BY <1>2, <1>3, <1>4, <1>5, <1>7, <1>8, <1>11 DEF Carries, Reaches
    <2>2. \A j \in 1 .. Len(s) : j # i => w[j].packet = s[j].packet
      BY <1>8
    <2>3. QED
      BY <1>8, <2>1, <2>2, OutcomeReplaceOther
  <1>12. QED
    BY <1>9, <1>10, <1>11

-----------------------------------------------------------------------------
(* The invariant that holds whatever the accessories do.                   *)

\* A slot of the high priority queue is a speed, remembered with its loco unless it is an
\* emergency stop, or switches a coil off.
HighRight(s) ==
    \/ s.packet.kind = "speed" /\ (s.packet.val = ESTOP \/ locoId(s) = s.packet.to)
    \/ \E a \in Accs : s.packet = Packet(a, "acc", OFF)
HighSound(s) == \A i \in 1 .. Len(s) : HighRight(s[i])

\* The queue remembers the loco that heard the last packet, except an emergency stop.
LastHeard == IsLocoPacket(rails.cur) /\ rails.cur.val # ESTOP => q.last = rails.cur.to

\* The inductive invariant: the slots and lists, what is in them, who heard the last packet,
\* and what functions and signals will end up with.
Sound ==
    /\ SlotsSound
    /\ LowSound(q.low) /\ HighSound(q.high)
    /\ LastHeard /\ Separated
    /\ NewestFunctionWins /\ NewestSignalWins

\* The type of cmd.
Cmds == [speed : [Locos -> Vals], fn : [Locos -> [Groups -> Vals]],
         coil : [Accs \cup Signals -> Vals], aspect : [Heads -> Nat], time : Nat,
         lastclocktime : Nat]

\* What the invariant says of the types.
LEMMA SoundFacts ==
  ASSUME Sound
  PROVE  /\ q \in Queues /\ NoLeak(q) /\ rails \in Heard /\ cmd \in Cmds
         /\ now \in Nat /\ commands \in 0 .. MaxCommands
         /\ q.low \in Seq(LowSlots) /\ q.high \in Seq(HighSlots)
         /\ Len(q.low) \in Nat /\ Len(q.high) \in Nat
  <1>1. q \in Queues /\ rails \in Heard /\ cmd \in Cmds /\ now \in Nat /\ commands \in 0 .. MaxCommands
    BY DEF Sound, SlotsSound, QTypeOK, Queues, Cmds
  <1>2. NoLeak(q)
    BY DEF Sound, SlotsSound, NoSlotLeak, NoLeak
  <1>3. QED
    BY <1>1, <1>2, LenProperties DEF Queues

\* A command is counted, and takes no time.
LEMMA CommandCounted ==
  ASSUME Sound, commands < MaxCommands, commands' = commands + 1, now' = now, rails' = rails
  PROVE  commands' \in 0 .. MaxCommands /\ now' \in Nat /\ rails' \in Heard
  <1>1. commands \in 0 .. MaxCommands /\ now \in Nat /\ rails \in Heard
    BY SoundFacts
  <1>2. MaxCommands \in Nat
    BY MainTrackAssumption
  <1>3. commands' \in 0 .. MaxCommands
    BY <1>1, <1>2
  <1>4. QED
    BY <1>1, <1>3

\* A step that asks for speeds only.
LEMMA SpeedsAsked ==
  ASSUME NEW c \in Cmds, NEW sp \in [Locos -> Vals]
  PROVE  LET d == [c EXCEPT !.speed = sp]
         IN  /\ d \in Cmds /\ d.speed = sp /\ d.fn = c.fn /\ d.coil = c.coil
             /\ d.aspect = c.aspect /\ d.time = c.time
  BY DEF Cmds

\* What a step must show for the invariant to hold after it.
LEMMA SoundAfter ==
  ASSUME q' \in Queues, NoLeak(q'), rails' \in Heard, cmd' \in Cmds, now' \in Nat,
         commands' \in 0 .. MaxCommands, LowSound(q'.low), HighSound(q'.high),
         LastHeard', Separated', NewestFunctionWins', NewestSignalWins'
  PROVE  Sound'
  <1>1. QTypeOK'
    BY DEF QTypeOK, Queues, Cmds
  <1>2. NoSlotLeak'
    BY DEF NoSlotLeak, NoLeak
  <1>3. QED
    BY <1>1, <1>2 DEF Sound, SlotsSound

\* Nothing is heard while nothing is sent.
LEMMA Silence ==
  ASSUME LastHeard, Separated, rails' = rails, q'.last = q.last
  PROVE  LastHeard' /\ Separated'
  BY DEF LastHeard, Separated

\* The low priority queue and what was asked through it are as before.
LEMMA LowUntouched ==
  ASSUME NewestFunctionWins, NewestSignalWins, rails' = rails, q'.low = q.low,
         cmd'.fn = cmd.fn, cmd'.coil = cmd.coil, cmd'.aspect = cmd.aspect, cmd'.time = cmd.time
  PROVE  NewestFunctionWins' /\ NewestSignalWins'
  <1>1. NewestFunctionWins'
    BY DEF NewestFunctionWins
  <1>2. NewestSignalWins'
    BY DEF NewestSignalWins
  <1>3. QED
    BY <1>1, <1>2

\* A speed that is queued, or replaces the packet of a slot, preserves the invariant;
LEMMA SpeedStep ==
  ASSUME Sound, NEW l \in Locos, NEW v \in Speeds, SpeedCommand(l, v)
  PROVE  Sound'
  <1> DEFINE p == SpeedPacket(l, v)
  <1>1. /\ commands < MaxCommands /\ commands' = commands + 1
        /\ q' = scheduleDCCSpeedPacket(q, p, 0, l)
        /\ now' = now /\ rails' = rails
        /\ cmd' = [cmd EXCEPT !.speed[l] = v]
    BY DEF SpeedCommand, Schedule
  <1>2. p \in Packets /\ p.kind = "speed" /\ p.to = l
    BY DEF SpeedPacket, Packet, Packets, Kinds, Vals
  <1>3. l \in Nat /\ l % W16 = l
    BY MainTrackAssumption, WidthAssumption
  <1> HIDE DEF p
  <1>4. /\ q' \in Queues /\ NoLeak(q') /\ q'.low = q.low /\ q'.last = q.last
        /\ SpeedQueued(q, q', p, 0, l)
    <2>1. q \in Queues /\ NoLeak(q) /\ 0 \in Nat
      BY SoundFacts
    <2> DEFINE R == scheduleDCCSpeedPacket(q, p, 0, l)
    <2>2. /\ R \in Queues /\ NoLeak(R) /\ R.low = q.low /\ R.last = q.last
          /\ SpeedQueued(q, R, p, 0, l)
      BY <1>2, <1>3, <2>1, SpeedScheduled
    <2>3. q' = R
      BY <1>1
    <2> HIDE DEF R
    <2>4. QED
      BY <2>2, <2>3
  <1>5. HighSound(q'.high)
    <2> DEFINE s == q.high
               w == q'.high
    <2>1. s \in Seq(HighSlots) /\ Len(s) \in Nat /\ HighSound(s)
      BY SoundFacts DEF Sound
    <2> HIDE DEF s, w
    <2>2. CASE \E i \in 1 .. Len(s) : locoId(s[i]) = l /\ w = replacePacket(s, i, p, 0)
      <3>1. PICK i \in 1 .. Len(s) : locoId(s[i]) = l /\ w = replacePacket(s, i, p, 0)
        BY <2>2
      <3> DEFINE n == Slot(s[i].type, p, 0, s[i].union)
      <3>2. n \in HighSlots
        <4>1. s[i] \in HighSlots
          BY <2>1, ElementOfSeq
        <4>2. QED
          BY <1>2, <4>1 DEF HighSlots, Slots, Slot
      <3>3. n.packet = p /\ locoId(n) = l
        BY <3>1 DEF Slot, locoId
      <3>4. Len(w) = Len(s) /\ \A j \in 1 .. Len(s) : w[j] = IF j = i THEN n ELSE s[j]
        BY <2>1, <3>1, <3>2, ReplaceElements, SlotSubsets
      <3> HIDE DEF n
      <3>5. HighRight(n)
        BY <1>2, <3>3 DEF HighRight
      <3>6. QED
        BY <2>1, <3>4, <3>5 DEF HighSound, w
    <2>3. CASE w = Append(s, Slot("SPEED", p, 0, l))
      <3> DEFINE n == Slot("SPEED", p, 0, l)
      <3>1. n \in HighSlots
        BY <1>2, <1>3 DEF HighSlots, Slots, Slot, Types
      <3>2. n.packet = p /\ locoId(n) = l
        BY <1>3 DEF Slot, locoId
      <3>3. w = Append(s, n)
        BY <2>3
      <3> HIDE DEF n
      <3>4. /\ Len(w) = Len(s) + 1
            /\ \A j \in 1 .. Len(s) : w[j] = s[j]
            /\ w[Len(s) + 1] = n
        BY <2>1, <3>1, <3>3, AppendProperties
      <3>5. HighRight(n)
        BY <1>2, <3>2 DEF HighRight
      <3>6. ASSUME NEW j \in 1 .. Len(w) PROVE HighRight(w[j])
        <4>1. j \in 1 .. Len(s) \/ j = Len(s) + 1
          BY <2>1, <3>4
        <4>2. QED
          BY <2>1, <3>4, <3>5, <4>1 DEF HighSound
      <3>7. QED
        BY <3>6 DEF HighSound, w
    <2>4. QED
      BY <1>4, <2>2, <2>3 DEF s, w, SpeedQueued
  <1>6. /\ cmd' \in Cmds /\ cmd'.fn = cmd.fn /\ cmd'.coil = cmd.coil
        /\ cmd'.aspect = cmd.aspect /\ cmd'.time = cmd.time
    <2>1. cmd \in Cmds /\ v \in Vals
      BY SoundFacts DEF Vals
    <2> DEFINE sp == [cmd.speed EXCEPT ![l] = v]
    <2>2. sp \in [Locos -> Vals]
      BY <2>1 DEF Cmds
    <2>3. cmd' = [cmd EXCEPT !.speed = sp]
      BY <1>1
    <2> HIDE DEF sp
    <2>4. QED
      BY <2>1, <2>2, <2>3, SpeedsAsked
  <1>7. LowSound(q'.low)
    BY <1>4 DEF Sound
  <1>8. LastHeard' /\ Separated'
    BY <1>1, <1>4, Silence DEF Sound
  <1>9. NewestFunctionWins' /\ NewestSignalWins'
    BY <1>1, <1>4, <1>6, LowUntouched DEF Sound
  <1>10. commands' \in 0 .. MaxCommands /\ now' \in Nat /\ rails' \in Heard
    BY <1>1, CommandCounted
  <1>11. QED
    BY <1>4, <1>5, <1>6, <1>7, <1>8, <1>9, <1>10, SoundAfter

\* an emergency stop does, whatever it purges;
LEMMA EstopStep ==
  ASSUME Sound, NEW l \in Locos \cup {0}, EstopCommand(l)
  PROVE  Sound'
  <1> DEFINE p == SpeedPacket(l, ESTOP)
             n == Slot("SPEED", p, EstopRepeats, 0)
  <1>1. /\ commands < MaxCommands /\ commands' = commands + 1
        /\ q' = scheduleEstopPacket(q, p, EstopRepeats, l)
        /\ now' = now /\ rails' = rails
        /\ cmd' = [cmd EXCEPT !.speed = [k \in Locos |-> IF l \in {0, k} THEN ESTOP ELSE cmd.speed[k]]]
    BY DEF EstopCommand, Schedule
  <1>2. p \in Packets /\ p.kind = "speed" /\ p.val = ESTOP
    BY DEF SpeedPacket, Packet, Packets, Kinds, Vals
  <1> HIDE DEF p
  <1>3. /\ q' \in Queues /\ NoLeak(q') /\ q'.low = q.low /\ q'.last = q.last
        /\ EstopQueued(q, q', p, EstopRepeats, l)
    <2>1. q \in Queues /\ NoLeak(q) /\ EstopRepeats \in Nat
      BY SoundFacts, MainTrackAssumption
    <2> DEFINE R == scheduleEstopPacket(q, p, EstopRepeats, l)
    <2>2. /\ R \in Queues /\ NoLeak(R) /\ R.low = q.low /\ R.last = q.last
          /\ EstopQueued(q, R, p, EstopRepeats, l)
      BY <1>2, <2>1, EstopScheduled
    <2>3. q' = R
      BY <1>1
    <2> HIDE DEF R
    <2>4. QED
      BY <2>2, <2>3
  <1>4. HighSound(q'.high)
    <2>1. PICK kept \in Seq(HighSlots) : /\ \E e : Embeds(e, kept, q.high, Spared(q, l))
                                         /\ q'.high = <<n>> \o kept
      BY <1>3 DEF EstopQueued
    <2>2. PICK e : Embeds(e, kept, q.high, Spared(q, l))
      BY <2>1
    <2>3. n \in HighSlots
      BY <1>2, MainTrackAssumption DEF HighSlots, Slots, Slot, Types
    <2>4. HighRight(n)
      BY <1>2 DEF HighRight, Slot
    <2> HIDE DEF n
    <2> DEFINE w == <<n>> \o kept
    <2>5. Len(w) = Len(kept) + 1 /\ w[1] = n /\ \A j \in 1 .. Len(kept) : w[j + 1] = kept[j]
      BY <2>3, ConsElements
    <2>6. ASSUME NEW j \in 1 .. Len(kept) PROVE HighRight(kept[j])
      <3>1. kept[j] = q.high[e[j]] /\ e[j] \in Spared(q, l)
        BY <2>2 DEF Embeds
      <3>2. e[j] \in 1 .. Len(q.high)
        BY <3>1, SoundFacts, LenProperties DEF Spared
      <3>3. QED
        BY <3>1, <3>2 DEF Sound, HighSound
    <2> HIDE DEF w
    <2>7. ASSUME NEW j \in 1 .. Len(w) PROVE HighRight(w[j])
      <3>1. Len(kept) \in Nat
        BY LenProperties
      <3>2. j = 1 \/ (j - 1 \in 1 .. Len(kept) /\ w[j] = kept[j - 1])
        BY <2>5, <3>1
      <3>3. QED
        BY <2>4, <2>5, <2>6, <3>2
    <2>8. QED
      BY <2>1, <2>7 DEF HighSound, w
  <1>5. /\ cmd' \in Cmds /\ cmd'.fn = cmd.fn /\ cmd'.coil = cmd.coil
        /\ cmd'.aspect = cmd.aspect /\ cmd'.time = cmd.time
    <2> DEFINE sp == [k \in Locos |-> IF l \in {0, k} THEN ESTOP ELSE cmd.speed[k]]
    <2>1. cmd \in Cmds
      BY SoundFacts
    <2>2. sp \in [Locos -> Vals]
      BY <2>1 DEF Cmds, Vals
    <2>3. cmd' = [cmd EXCEPT !.speed = sp]
      BY <1>1
    <2> HIDE DEF sp
    <2>4. QED
      BY <2>1, <2>2, <2>3, SpeedsAsked
  <1>6. LowSound(q'.low)
    BY <1>3 DEF Sound
  <1>7. LastHeard' /\ Separated'
    BY <1>1, <1>3, Silence DEF Sound
  <1>8. NewestFunctionWins' /\ NewestSignalWins'
    BY <1>1, <1>3, <1>5, LowUntouched DEF Sound
  <1>9. commands' \in 0 .. MaxCommands /\ now' \in Nat /\ rails' \in Heard
    BY <1>1, CommandCounted
  <1>10. QED
    BY <1>3, <1>4, <1>5, <1>6, <1>7, <1>8, <1>9, SoundAfter

\* A step that adds the slot x to the low priority queue for a command to its decoder.
Queues1(x) ==
    /\ q' = [getSlot(q) EXCEPT !.low = addQueue(@, x)]
    /\ commands < MaxCommands /\ commands' = commands + 1
    /\ now' = now /\ rails' = rails
Asks(x) ==
    /\ cmd' \in Cmds /\ cmd'.fn = cmd.fn
    /\ \A a \in Signals : cmd'.coil[a] = IF Carries(x, "acc", a) THEN x.packet.val ELSE cmd.coil[a]
    /\ \A a \in Heads : cmd'.aspect[a] = IF Carries(x, "aspect", a) THEN x.packet.val ELSE cmd.aspect[a]
    /\ cmd'.time = IF Carries(x, "time", 0) THEN x.packet.val ELSE cmd.time

\* A slot of type NORMAL or ACC_ON that is added preserves the invariant.
LEMMA AddStep ==
  ASSUME Sound, NEW x \in LowSlots, LowRight(x), x.type \in {"NORMAL", "ACC_ON"},
         Queues1(x), Asks(x)
  PROVE  Sound'
  <1>1. /\ q' \in Queues /\ NoLeak(q') /\ q'.high = q.high /\ q'.last = q.last
        /\ q'.low = Append(q.low, x)
    <2>1. q \in Queues /\ NoLeak(q)
      BY SoundFacts
    <2>2. QED
      BY <2>1, AddLow DEF Queues1
  <1>2. q.low \in Seq(LowSlots) /\ LowSound(q.low)
    BY SoundFacts DEF Sound
  <1>3. \A g \in Groups : x.type # FnType(g)
    BY Groups5
  <1>4. \A i \in 1 .. Len(q.low) : Apart(q.low[i], x)
    BY <1>3 DEF Apart
  <1>5. /\ LowSound(q'.low)
        /\ \A kind, a, heard : Outcome(q'.low, kind, a, heard) =
              IF Carries(x, kind, a) THEN x.packet.val ELSE Outcome(q.low, kind, a, heard)
    BY <1>1, <1>2, <1>4, LowAdded
  <1>6. ASSUME NEW l \in Locos, NEW g \in Groups PROVE ~Carries(x, FnKind(g), l)
    <2>1. Heeds(FnKind(g), l)
      BY DEF Heeds
    <2>2. QED
      BY <1>3, <2>1, CarrierUnion
  <1>7. rails' = rails /\ cmd'.fn = cmd.fn
    BY DEF Queues1, Asks
  <1>8. NewestFunctionWins'
    <2>1. NewestFunctionWins
      BY DEF Sound
    <2>2. QED
      BY <1>5, <1>6, <1>7, <2>1 DEF NewestFunctionWins
  <1>9. NewestSignalWins'
    <2>1. NewestSignalWins
      BY DEF Sound
    <2>2. \A a \in Signals : Outcome(q'.low, "acc", a, rails.coil[a]) = cmd'.coil[a]
      BY <1>5, <2>1 DEF NewestSignalWins, Asks
    <2>3. \A a \in Heads : Outcome(q'.low, "aspect", a, rails.aspect[a]) = cmd'.aspect[a]
      BY <1>5, <2>1 DEF NewestSignalWins, Asks
    <2>4. Outcome(q'.low, "time", 0, rails.time) = cmd'.time
      BY <1>5, <2>1 DEF NewestSignalWins, Asks
    <2>5. QED
      BY <1>7, <2>2, <2>3, <2>4 DEF NewestSignalWins
  <1>10. HighSound(q'.high)
    BY <1>1 DEF Sound
  <1>11. LastHeard' /\ Separated'
    BY <1>1, <1>7, Silence DEF Sound
  <1>12. commands' \in 0 .. MaxCommands /\ now' \in Nat /\ rails' \in Heard
    BY CommandCounted DEF Queues1
  <1>13. cmd' \in Cmds
    BY DEF Asks
  <1>14. QED
    BY <1>1, <1>5, <1>8, <1>9, <1>10, <1>11, <1>12, <1>13, SoundAfter

\* A function packet preserves it, appended or in the place of an older one of its group.
LEMMA FunctionStep ==
  ASSUME Sound, NEW l \in Locos, NEW g \in Groups, NEW v \in {ON, OFF}, FunctionCommand(l, g, v)
  PROVE  Sound'
  <1> DEFINE p == Packet(l, FnKind(g), v)
  <1>1. /\ commands < MaxCommands /\ commands' = commands + 1
        /\ q' = scheduleDCCFunctionPacket(q, p, l, g)
        /\ now' = now /\ rails' = rails
        /\ cmd' = [cmd EXCEPT !.fn[l][g] = v]
    BY DEF FunctionCommand, Schedule
  <1>2. v \in Vals /\ FnKind(g) \in Kinds /\ FnKind(g) # "speed"
    BY Groups5 DEF Vals
  <1>3. p \in Packets /\ p.kind = FnKind(g) /\ p.to = l /\ p.val = v
    BY <1>2 DEF Packet, Packets
  <1>4. l \in Nat /\ l % W16 = l
    BY MainTrackAssumption, WidthAssumption
  <1>5. /\ q' \in Queues /\ NoLeak(q') /\ q'.high = q.high /\ q'.last = q.last
        /\ \/ \E i \in 1 .. Len(q.low) :
                 /\ locoId(q.low[i]) = l /\ q.low[i].type = FnType(g)
                 /\ q'.low = replacePacket(q.low, i, p, 0)
           \/ /\ \A i \in 1 .. Len(q.low) : locoId(q.low[i]) = l => q.low[i].type # FnType(g)
              /\ q'.low = Append(q.low, Slot(FnType(g), p, 0, l))
    <2>1. q \in Queues /\ NoLeak(q)
      BY SoundFacts
    <2> DEFINE R == scheduleDCCFunctionPacket(q, p, l, g)
    <2> HIDE DEF p
    <2>2. /\ R \in Queues /\ NoLeak(R) /\ R.high = q.high /\ R.last = q.last
          /\ \/ \E i \in 1 .. Len(q.low) :
                   /\ locoId(q.low[i]) = l /\ q.low[i].type = FnType(g)
                   /\ R.low = replacePacket(q.low, i, p, 0)
             \/ /\ \A i \in 1 .. Len(q.low) : locoId(q.low[i]) = l => q.low[i].type # FnType(g)
                /\ R.low = Append(q.low, Slot(FnType(g), p, 0, l))
      BY <1>3, <1>4, <2>1, FunctionScheduled
    <2>3. q' = R
      BY <1>1
    <2> HIDE DEF R
    <2>4. QED
      BY <2>2, <2>3
  <1>6. q.low \in Seq(LowSlots) /\ LowSound(q.low) /\ NewestFunctionWins /\ NewestSignalWins
    BY SoundFacts DEF Sound
  <1>7. /\ LowSound(q'.low)
        /\ \A heard : Outcome(q'.low, FnKind(g), l, heard) = v
        /\ \A kind, a, heard : Heeds(kind, a) /\ <<kind, a>> # <<FnKind(g), l>> =>
              Outcome(q'.low, kind, a, heard) = Outcome(q.low, kind, a, heard)
    <2>1. CASE \E i \in 1 .. Len(q.low) :
                  /\ locoId(q.low[i]) = l /\ q.low[i].type = FnType(g)
                  /\ q'.low = replacePacket(q.low, i, p, 0)
      BY <1>2, <1>6, <2>1, LowReplaced
    <2>2. CASE /\ \A i \in 1 .. Len(q.low) : locoId(q.low[i]) = l => q.low[i].type # FnType(g)
               /\ q'.low = Append(q.low, Slot(FnType(g), p, 0, l))
      <3> DEFINE x == Slot(FnType(g), p, 0, l)
      <3> HIDE DEF p
      <3>1. x \in LowSlots
        <4>1. FnType(g) \in Types \ {"SPEED", "ACC_OFF"}
          BY Groups5
        <4>2. QED
          BY <1>3, <1>4, <4>1 DEF LowSlots, Slots, Slot
      <3>2. x.type = FnType(g) /\ x.packet = p /\ x.union = l
        BY DEF Slot
      <3> HIDE DEF x
      <3>3. LowRight(x)
        BY <1>3, <3>2 DEF LowRight
      <3>4. ASSUME NEW i \in 1 .. Len(q.low) PROVE Apart(q.low[i], x)
        <4>1. SUFFICES ASSUME q.low[i].type = FnType(g) PROVE q.low[i].union # l
          <5>1. \A k \in Groups : FnType(k) = FnType(g) => k = g
            BY Groups5
          <5>2. QED
            BY <3>2, <5>1 DEF Apart
        <4>2. locoId(q.low[i]) # l
          BY <2>2, <4>1
        <4>3. QED
          BY <1>4, <4>2 DEF locoId
      <3>5. /\ LowSound(q'.low)
            /\ \A kind, a, heard : Outcome(q'.low, kind, a, heard) =
                  IF Carries(x, kind, a) THEN x.packet.val ELSE Outcome(q.low, kind, a, heard)
        BY <1>6, <2>2, <3>1, <3>3, <3>4, LowAdded DEF x
      <3>6. \A kind, a : Carries(x, kind, a) <=> kind = FnKind(g) /\ a = l
        BY <1>2, <1>3, <3>2 DEF Carries, Reaches
      <3>7. QED
        BY <1>3, <3>2, <3>5, <3>6
    <2>3. QED
      BY <1>5, <2>1, <2>2
  <1> HIDE DEF p
  <1>8. cmd \in Cmds
    BY SoundFacts
  <1>9. /\ cmd' \in Cmds /\ cmd'.coil = cmd.coil
        /\ cmd'.aspect = cmd.aspect /\ cmd'.time = cmd.time
        /\ \A k \in Locos, h \in Groups :
              cmd'.fn[k][h] = IF k = l /\ h = g THEN v ELSE cmd.fn[k][h]
    BY <1>1, <1>2, <1>8 DEF Cmds
  <1>10. NewestFunctionWins'
    <2>1. ASSUME NEW k \in Locos, NEW h \in Groups
          PROVE  Outcome(q'.low, FnKind(h), k, rails.fn[k][h]) = cmd'.fn[k][h]
      <3>1. CASE k = l /\ h = g
        BY <1>7, <1>9, <3>1
      <3>2. CASE ~(k = l /\ h = g)
        <4>1. <<FnKind(h), k>> # <<FnKind(g), l>> /\ Heeds(FnKind(h), k)
          BY <3>2, Groups5 DEF Heeds
        <4>2. QED
          BY <1>6, <1>7, <1>9, <3>2, <4>1 DEF NewestFunctionWins
      <3>3. QED
        BY <3>1, <3>2
    <2>2. QED
      BY <1>1, <2>1 DEF NewestFunctionWins
  <1>11. NewestSignalWins'
    <2>1. ASSUME NEW kind, NEW a, NEW heard, kind \in {"acc", "aspect", "time"}, Heeds(kind, a)
          PROVE  Outcome(q'.low, kind, a, heard) = Outcome(q.low, kind, a, heard)
      <3>1. FnKind(g) \notin {"acc", "aspect", "time"}
        BY Groups5
      <3>2. QED
        BY <1>7, <2>1, <3>1
    <2>2. \A a \in Signals : Heeds("acc", a)
      BY DEF Heeds
    <2>3. \A a \in Heads : Heeds("aspect", a)
      BY DEF Heeds
    <2>4. Heeds("time", 0)
      BY DEF Heeds
    <2>5. \A a \in Signals : Outcome(q'.low, "acc", a, rails.coil[a]) = cmd'.coil[a]
      BY <1>6, <1>9, <2>1, <2>2 DEF NewestSignalWins
    <2>6. \A a \in Heads : Outcome(q'.low, "aspect", a, rails.aspect[a]) = cmd'.aspect[a]
      BY <1>6, <1>9, <2>1, <2>3 DEF NewestSignalWins
    <2>7. Outcome(q'.low, "time", 0, rails.time) = cmd'.time
      BY <1>6, <1>9, <2>1, <2>4 DEF NewestSignalWins
    <2>8. QED
      BY <1>1, <2>5, <2>6, <2>7 DEF NewestSignalWins
  <1>12. HighSound(q'.high)
    BY <1>5 DEF Sound
  <1>13. LastHeard' /\ Separated'
    BY <1>1, <1>5, Silence DEF Sound
  <1>14. commands' \in 0 .. MaxCommands /\ now' \in Nat /\ rails' \in Heard
    BY <1>1, CommandCounted
  <1>15. QED
    BY <1>5, <1>7, <1>9, <1>10, <1>11, <1>12, <1>13, <1>14, SoundAfter

\* The commands that add a slot of type NORMAL.
LEMMA NormalSlot ==
  ASSUME NEW p \in Packets, NEW r \in Nat, NEW l \in Nat
  PROVE  LET x == Slot("NORMAL", p, r, l)
         IN  /\ scheduleDCCPacket(q, p, r, l) = [getSlot(q) EXCEPT !.low = addQueue(@, x)]
             /\ x \in LowSlots /\ x.type = "NORMAL" /\ x.packet = p /\ x.union = l
  BY DEF scheduleDCCPacket, LowSlots, Slots, Slot, Types

\* A program-on-main packet is such a slot;
LEMMA CvStep ==
  ASSUME Sound, NEW l \in Locos, CvCommand(l)
  PROVE  Sound'
  <1> DEFINE p == Packet(l, "cv", Fresh)
             x == Slot("NORMAL", p, CvRepeats, l)
  <1>1. p \in Packets /\ p.kind = "cv" /\ p.to = l
    BY DEF Packet, Packets, Kinds, Vals
  <1>2. q' = scheduleDCCPacket(q, p, CvRepeats, l) /\ cmd' = cmd
        /\ commands < MaxCommands /\ commands' = commands + 1 /\ now' = now /\ rails' = rails
    BY DEF CvCommand, Schedule
  <1> HIDE DEF p
  <1>3. CvRepeats \in Nat /\ l \in Nat
    BY MainTrackAssumption
  <1>4. /\ scheduleDCCPacket(q, p, CvRepeats, l) = [getSlot(q) EXCEPT !.low = addQueue(@, x)]
        /\ x \in LowSlots /\ x.type = "NORMAL" /\ x.packet = p /\ x.union = l
    BY <1>1, <1>3, NormalSlot
  <1> HIDE DEF x
  <1>5. LowRight(x)
    BY <1>1, <1>4 DEF LowRight
  <1>6. Queues1(x)
    BY <1>2, <1>4 DEF Queues1
  <1>7. Asks(x)
    BY <1>1, <1>2, <1>4, SoundFacts DEF Asks, Carries
  <1>8. QED
    BY <1>4, <1>5, <1>6, <1>7, AddStep

\* so is a coil-on packet,
LEMMA PulseStep ==
  ASSUME Sound, NEW t \in AccCommands, AccessoryPulse(t)
  PROVE  Sound'
  <1> DEFINE c == Coil(Accessory(t))
             p == Packet(c, "acc", ON)
             x == Slot("ACC_ON", p, AccRepeats, AccDelay)
  <1>1. c \in Accs
    BY UsersAssumption DEF AccessoryPulse
  <1>2. q' = scheduleAccOnOffPacket(q, p, AccRepeats, AccDelay) /\ cmd' = cmd
        /\ commands < MaxCommands /\ commands' = commands + 1 /\ now' = now /\ rails' = rails
    BY DEF AccessoryPulse, Schedule
  <1> HIDE DEF c
  <1>3. p \in Packets /\ p.kind = "acc" /\ p.to = c
    BY <1>1 DEF Packet, Packets, Kinds, Vals
  <1>4. q' = [getSlot(q) EXCEPT !.low = addQueue(@, x)]
    BY <1>2 DEF scheduleAccOnOffPacket
  <1>5. x.type = "ACC_ON" /\ x.packet = p
    BY DEF Slot
  <1>6. LowRight(x)
    BY <1>1, <1>5 DEF LowRight
  <1> HIDE DEF p
  <1>7. x \in LowSlots
    BY <1>3, MainTrackAssumption DEF LowSlots, Slots, Slot, Types
  <1> HIDE DEF x
  <1>8. Queues1(x)
    BY <1>2, <1>4 DEF Queues1
  <1>9. Asks(x)
    <2>1. \A a \in Signals : ~Carries(x, "acc", a)
      BY <1>1, <1>3, <1>5, UsersAssumption DEF Carries, Reaches
    <2>2. QED
      BY <1>2, <1>3, <1>5, <2>1, SoundFacts DEF Asks, Carries
  <1>10. QED
    BY <1>5, <1>6, <1>7, <1>8, <1>9, AddStep

\* an on or off packet of its own,
LEMMA SetStep ==
  ASSUME Sound, NEW t \in AccCommands, AccessorySet(t)
  PROVE  Sound'
  <1> DEFINE c == Coil(Accessory(t))
             v == IF Accessory(t).onoff = 1 THEN ON ELSE OFF
             p == Packet(c, "acc", v)
             x == Slot("NORMAL", p, AccRepeats, 0)
  <1>1. c \in Signals
    <2>1. Accepted(t) /\ Accessory(t).onoff # 2
      BY DEF AccessorySet
    <2>2. QED
      BY <2>1, UsersAssumption
  <1>2. q' = scheduleDCCPacket(q, p, AccRepeats, 0) /\ cmd' = [cmd EXCEPT !.coil[c] = v]
        /\ commands < MaxCommands /\ commands' = commands + 1 /\ now' = now /\ rails' = rails
    BY DEF AccessorySet, Schedule
  <1>3. v \in Vals
    BY DEF Vals
  <1> HIDE DEF c, v
  <1>4. p \in Packets /\ p.kind = "acc" /\ p.to = c /\ p.val = v
    BY <1>1, <1>3 DEF Packet, Packets, Kinds
  <1> HIDE DEF p
  <1>5. AccRepeats \in Nat /\ 0 \in Nat
    BY MainTrackAssumption
  <1>6. /\ scheduleDCCPacket(q, p, AccRepeats, 0) = [getSlot(q) EXCEPT !.low = addQueue(@, x)]
        /\ x \in LowSlots /\ x.type = "NORMAL" /\ x.packet = p /\ x.union = 0
    BY <1>4, <1>5, NormalSlot
  <1> HIDE DEF x
  <1>7. LowRight(x)
    BY <1>1, <1>4, <1>6 DEF LowRight
  <1>8. Queues1(x)
    BY <1>2, <1>6 DEF Queues1
  <1>9. Asks(x)
    <2>1. \A kind, a : Carries(x, kind, a) <=> kind = "acc" /\ a = c
      BY <1>4, <1>6 DEF Carries, Reaches
    <2>2. cmd \in Cmds
      BY SoundFacts
    <2>3. /\ cmd' \in Cmds /\ cmd'.fn = cmd.fn /\ cmd'.aspect = cmd.aspect /\ cmd'.time = cmd.time
          /\ \A a \in Signals : cmd'.coil[a] = IF a = c THEN v ELSE cmd.coil[a]
      BY <1>1, <1>2, <1>3, <2>2 DEF Cmds
    <2>4. QED
      BY <1>4, <1>6, <2>1, <2>3 DEF Asks
  <1>10. QED
    BY <1>6, <1>7, <1>8, <1>9, AddStep

\* an aspect,
LEMMA AspectStep ==
  ASSUME Sound, NEW h \in Heads, NEW v \in Aspects, ExtendedAccessory(h, v)
  PROVE  Sound'
  <1> DEFINE p == Packet(h, "aspect", v)
             x == Slot("NORMAL", p, AccRepeats, 0)
  <1>1. q' = scheduleDCCPacket(q, p, AccRepeats, 0) /\ cmd' = [cmd EXCEPT !.aspect[h] = v]
        /\ commands < MaxCommands /\ commands' = commands + 1 /\ now' = now /\ rails' = rails
        /\ v \in Nat
    BY DEF ExtendedAccessory, Schedule
  <1>2. p \in Packets /\ p.kind = "aspect" /\ p.to = h /\ p.val = v
    BY <1>1 DEF Packet, Packets
  <1> HIDE DEF p
  <1>3. AccRepeats \in Nat /\ 0 \in Nat
    BY MainTrackAssumption
  <1>4. /\ scheduleDCCPacket(q, p, AccRepeats, 0) = [getSlot(q) EXCEPT !.low = addQueue(@, x)]
        /\ x \in LowSlots /\ x.type = "NORMAL" /\ x.packet = p /\ x.union = 0
    BY <1>2, <1>3, NormalSlot
  <1> HIDE DEF x
  <1>5. LowRight(x)
    BY <1>2, <1>4 DEF LowRight
  <1>6. Queues1(x)
    BY <1>1, <1>4 DEF Queues1
  <1>7. Asks(x)
    <2>1. \A kind, a : Carries(x, kind, a) <=> kind = "aspect" /\ a = h
      BY <1>2, <1>4 DEF Carries, Reaches
    <2>2. cmd \in Cmds
      BY SoundFacts
    <2>3. /\ cmd' \in Cmds /\ cmd'.fn = cmd.fn /\ cmd'.coil = cmd.coil /\ cmd'.time = cmd.time
          /\ \A a \in Heads : cmd'.aspect[a] = IF a = h THEN v ELSE cmd.aspect[a]
      BY <1>1, <2>2 DEF Cmds
    <2>4. QED
      BY <1>2, <1>4, <2>1, <2>3 DEF Asks
  <1>8. QED
    BY <1>4, <1>5, <1>6, <1>7, AddStep

\* and the time, unless it is refused.
LEMMA TimeStep ==
  ASSUME Sound, NEW m \in Times, NEW r \in ClockRates, setClockTime(m, r)
  PROVE  Sound'
  <1>1. m \in Nat /\ cmd \in Cmds
    BY UsersAssumption, SoundFacts
  <1>2. /\ commands < MaxCommands /\ commands' = commands + 1 /\ now' = now /\ rails' = rails
        /\ q' = setTime(m, r)
        /\ cmd' = [cmd EXCEPT !.lastclocktime = m, !.time = IF TimeRight(m, r) THEN m ELSE @]
    BY DEF setClockTime, Schedule
  <1> DEFINE tm == IF TimeRight(m, r) THEN m ELSE cmd.time
  <1>3. tm \in Nat /\ cmd' = [cmd EXCEPT !.lastclocktime = m, !.time = tm]
    BY <1>1, <1>2 DEF Cmds
  <1>4. /\ cmd' \in Cmds /\ cmd'.fn = cmd.fn /\ cmd'.coil = cmd.coil /\ cmd'.aspect = cmd.aspect
        /\ cmd'.time = tm
    <2> HIDE DEF tm
    <2>1. QED
      BY <1>1, <1>3 DEF Cmds
  <1>5. CASE TimeRight(m, r)
    <2> DEFINE p == Packet(0, "time", m)
               x == Slot("NORMAL", p, TimeRepeats, 0)
    <2>1. q' = scheduleDCCPacket(q, p, TimeRepeats, 0)
      BY <1>2, <1>5 DEF setTime
    <2>2. p \in Packets /\ p.kind = "time" /\ p.to = 0 /\ p.val = m
      BY <1>1 DEF Packet, Packets
    <2> HIDE DEF p
    <2>3. TimeRepeats \in Nat /\ 0 \in Nat
      BY MainTrackAssumption
    <2>4. /\ scheduleDCCPacket(q, p, TimeRepeats, 0) = [getSlot(q) EXCEPT !.low = addQueue(@, x)]
          /\ x \in LowSlots /\ x.type = "NORMAL" /\ x.packet = p /\ x.union = 0
      BY <2>2, <2>3, NormalSlot
    <2> HIDE DEF x
    <2>5. LowRight(x)
      BY <2>2, <2>4 DEF LowRight
    <2>6. Queues1(x)
      BY <1>2, <2>1, <2>4 DEF Queues1
    <2>7. Asks(x)
      <3>1. \A kind, a : Carries(x, kind, a) <=> kind = "time" /\ a = 0
        BY <2>2, <2>4 DEF Carries, Reaches
      <3>2. QED
        BY <1>4, <1>5, <2>2, <2>4, <3>1 DEF Asks
    <2>8. QED
      BY <2>4, <2>5, <2>6, <2>7, AddStep
  <1>6. CASE ~TimeRight(m, r)
    <2>1. q' = q /\ cmd'.time = cmd.time
      BY <1>2, <1>4, <1>6 DEF setTime
    <2>2. LowSound(q'.low) /\ HighSound(q'.high)
      BY <2>1 DEF Sound
    <2>3. LastHeard' /\ Separated'
      BY <1>2, <2>1, Silence DEF Sound
    <2>4. NewestFunctionWins' /\ NewestSignalWins'
      BY <1>2, <1>4, <2>1, LowUntouched DEF Sound
    <2>5. commands' \in 0 .. MaxCommands /\ now' \in Nat /\ rails' \in Heard
          /\ q' \in Queues /\ NoLeak(q')
      BY <1>2, <2>1, SoundFacts, CommandCounted
    <2>6. QED
      BY <1>4, <2>2, <2>3, <2>4, <2>5, SoundAfter
  <1>7. QED
    BY <1>5, <1>6

\* What the decoders hear of a packet that may be in a queue.
LEMMA Hearing ==
  ASSUME NEW r \in Heard, NEW p \in Packets
  PROVE  /\ Hear(r, p) \in Heard
         /\ Hear(r, p).prev = r.cur /\ Hear(r, p).cur = p
         /\ \A l \in Locos : Hear(r, p).speed[l] = Told(p, "speed", l, r.speed[l])
         /\ \A l \in Locos, g \in Groups : Hear(r, p).fn[l][g] = Told(p, FnKind(g), l, r.fn[l][g])
         /\ \A a \in Accs \cup Signals : Hear(r, p).coil[a] = Told(p, "acc", a, r.coil[a])
         /\ \A a \in Heads : Hear(r, p).aspect[a] = Told(p, "aspect", a, r.aspect[a])
         /\ (p.kind = "time" => p.to = 0) => Hear(r, p).time = Told(p, "time", 0, r.time)
  <1>1. /\ r.speed \in [Locos -> Vals] /\ r.fn \in [Locos -> [Groups -> Vals]]
        /\ r.coil \in [Accs \cup Signals -> Vals] /\ r.aspect \in [Heads -> Nat]
        /\ r.time \in Nat /\ r.prev \in Packets /\ r.cur \in Packets
    BY DEF Heard
  <1>2. /\ p.kind \in Kinds => p.val \in Vals
        /\ p.kind \in {"aspect", "time"} => p.val \in Nat
    BY DEF Packets, Kinds
  <1>3. \A g \in Groups : FnKind(g) \in Kinds /\ FnKind(g) # "speed"
    BY Groups5
  <1>4. "speed" \in Kinds /\ "acc" \in Kinds
    BY DEF Kinds
  <1> DEFINE H == Hear(r, p)
             sp == [l \in Locos |-> IF p.kind = "speed" /\ Reaches(p, l) THEN p.val ELSE r.speed[l]]
             fn == [l \in Locos |-> [g \in Groups |->
                       IF p.kind = FnKind(g) /\ p.to = l THEN p.val ELSE r.fn[l][g]]]
             co == [a \in Accs \cup Signals |-> IF p.kind = "acc" /\ p.to = a THEN p.val ELSE r.coil[a]]
             as == [a \in Heads |-> IF p.kind = "aspect" /\ p.to = a THEN p.val ELSE r.aspect[a]]
             ti == IF p.kind = "time" THEN p.val ELSE r.time
  <1>5. sp \in [Locos -> Vals] /\ co \in [Accs \cup Signals -> Vals] /\ as \in [Heads -> Nat] /\ ti \in Nat
    BY <1>1, <1>2, <1>4
  <1>6. fn \in [Locos -> [Groups -> Vals]]
    BY <1>1, <1>2, <1>3
  <1>7. /\ \A l \in Locos : sp[l] = Told(p, "speed", l, r.speed[l])
        /\ \A a \in Accs \cup Signals : co[a] = Told(p, "acc", a, r.coil[a])
        /\ \A a \in Heads : as[a] = Told(p, "aspect", a, r.aspect[a])
        /\ (p.kind = "time" => p.to = 0) => ti = Told(p, "time", 0, r.time)
    BY DEF Told, Reaches
  <1>8. \A l \in Locos, g \in Groups : fn[l][g] = Told(p, FnKind(g), l, r.fn[l][g])
    BY <1>3 DEF Told, Reaches
  <1>9. H = [speed |-> sp, fn |-> fn, coil |-> co, aspect |-> as, time |-> ti, prev |-> r.cur, cur |-> p]
    BY DEF Hear
  <1> HIDE DEF H, sp, fn, co, as, ti
  <1>10. H \in Heard
    BY <1>1, <1>5, <1>6, <1>9 DEF Heard
  <1>11. /\ H.speed = sp /\ H.fn = fn /\ H.coil = co /\ H.aspect = as /\ H.time = ti
         /\ H.prev = r.cur /\ H.cur = p
    BY <1>9
  <1>12. QED
    BY <1>7, <1>8, <1>10, <1>11 DEF H

\* Whatever is sent, the decoders that the low priority queue is for will have been told
\* the same in the end.
LEMMA SentTells ==
  ASSUME NEW Q \in Queues, NEW R, NEW p, NEW t, LowSound(Q.low), HighSound(Q.high),
         Sent(Q, R, p, t)
  PROVE  /\ p.kind = "time" => p.to = 0
         /\ \A kind, a, heard : Heeds(kind, a) =>
               Outcome(R.low, kind, a, Told(p, kind, a, heard)) = Outcome(Q.low, kind, a, heard)
  <1>1. \A g \in Groups : FnKind(g) \notin {"speed", "cv", "acc", "idle", "aspect", "time"}
    BY Groups5
  <1>2. ASSUME SentLow(Q, R, p, t)
        PROVE  p.kind = "time" => p.to = 0
    <2>1. PICK i \in 1 .. Len(Q.low) : p = Q.low[i].packet
      BY <1>2 DEF SentLow
    <2>2. LowRight(Q.low[i])
      BY DEF LowSound
    <2>3. QED
      <3>1. ASSUME NEW a \in Accs, p = Packet(a, "acc", ON) PROVE p.kind = "acc"
        BY <3>1 DEF Packet
      <3>2. QED
        BY <1>1, <2>1, <2>2, <3>1 DEF LowRight
  <1>3. ASSUME SentHigh(Q, R, p, t)
        PROVE  /\ R.low = Q.low /\ p.kind # "time"
               /\ \A kind, a, heard : Heeds(kind, a) => Told(p, kind, a, heard) = heard
    <2>1. PICK i \in 1 .. Len(Q.high) : p = Q.high[i].packet /\ R.low = Q.low
      BY <1>3 DEF SentHigh
    <2>2. HighRight(Q.high[i])
      BY DEF HighSound
    <2>3. p.kind = "speed" \/ (p.kind = "acc" /\ p.to \in Accs)
      <3>1. ASSUME NEW a \in Accs, p = Packet(a, "acc", OFF) PROVE p.kind = "acc" /\ p.to = a
        BY <3>1 DEF Packet
      <3>2. QED
        BY <2>1, <2>2, <3>1 DEF HighRight
    <2>4. ASSUME NEW kind, NEW a, NEW heard, Heeds(kind, a) PROVE Told(p, kind, a, heard) = heard
      <3>1. kind # "speed"
        BY <1>1, <2>4 DEF Heeds
      <3>2. kind = "acc" => a \in Signals
        BY <1>1, <2>4 DEF Heeds
      <3>3. QED
        BY <2>3, <3>1, <3>2, UsersAssumption DEF Told, Reaches
    <2>5. QED
      BY <2>1, <2>3, <2>4
  <1>4. ASSUME SentIdle(Q, R, p)
        PROVE  /\ R.low = Q.low /\ p.kind # "time"
               /\ \A kind, a, heard : Heeds(kind, a) => Told(p, kind, a, heard) = heard
    <2>1. p.kind = "idle" /\ R.low = Q.low
      BY <1>4 DEF SentIdle, IdlePacket, Packet
    <2>2. \A kind, a : Heeds(kind, a) => kind # "idle"
      BY <1>1 DEF Heeds
    <2>3. QED
      BY <2>1, <2>2 DEF Told
  <1>5. ASSUME SentLow(Q, R, p, t), NEW kind, NEW a, NEW heard, Heeds(kind, a)
        PROVE  Outcome(R.low, kind, a, Told(p, kind, a, heard)) = Outcome(Q.low, kind, a, heard)
    BY <1>5, LowSentTells
  <1>6. QED
    BY <1>2, <1>3, <1>4, <1>5 DEF Sent

\* The high priority queue stays sound; the packet is for whom the queue remembers.
LEMMA SentHighSound ==
  ASSUME NEW Q \in Queues, NEW R \in Queues, NEW p, NEW t \in Nat, LowSound(Q.low), HighSound(Q.high),
         Sent(Q, R, p, t)
  PROVE  HighSound(R.high)
  <1>1. Q.high \in Seq(HighSlots) /\ Q.low \in Seq(LowSlots) /\ Len(Q.high) \in Nat
    BY LenProperties DEF Queues
  <1>2. CASE R.high = Q.high
    BY <1>2
  <1>3. ASSUME NEW i \in 1 .. Len(Q.high), R.high = RemoveAt(Q.high, i)
        PROVE  HighSound(R.high)
    <2>1. PICK e : Embeds(e, R.high, Q.high, (1 .. Len(Q.high)) \ {i})
      BY <1>1, <1>3, RemoveAtEmbeds
    <2>2. \A j \in 1 .. Len(R.high) : e[j] \in 1 .. Len(Q.high) /\ R.high[j] = Q.high[e[j]]
      BY <2>1 DEF Embeds
    <2>3. QED
      BY <2>2 DEF HighSound
  <1>4. ASSUME NEW i \in 1 .. Len(Q.high), Q.high[i].repeats > 0, R.high = Repeating(Q.high, i)
        PROVE  HighSound(R.high)
    <2> DEFINE w == R.high
    <2>1. SamePackets(w, Q.high)
      BY <1>1, <1>4, RepeatingHigh
    <2> HIDE DEF w
    <2>2. /\ Len(w) = Len(Q.high)
          /\ \A j \in 1 .. Len(Q.high) : w[j].packet = Q.high[j].packet /\ w[j].union = Q.high[j].union
      BY <2>1 DEF SamePackets
    <2>3. ASSUME NEW j \in 1 .. Len(w) PROVE HighRight(w[j])
      BY <2>2 DEF HighSound, HighRight, locoId
    <2>4. QED
      BY <2>3 DEF HighSound, w
  <1>5. ASSUME NEW i \in 1 .. Len(Q.low), Q.low[i].type = "ACC_ON", R.high = <<Off(Q.low[i], t)>> \o Q.high
        PROVE  HighSound(R.high)
    <2> DEFINE o == Off(Q.low[i], t)
    <2>1. Q.low[i] \in Slots /\ LowRight(Q.low[i])
      BY <1>1, ElementOfSeq DEF LowSlots, LowSound
    <2>2. PICK a \in Accs : Q.low[i].packet = Packet(a, "acc", ON)
      <3>1. \A g \in Groups : FnType(g) # "ACC_ON"
        BY Groups5
      <3>2. QED
        BY <1>5, <2>1, <3>1 DEF LowRight
    <2>3. OFF \in Vals /\ Q.low[i].packet.val \in Vals
      BY <2>2 DEF Vals, Packet
    <2>4. o = Slot("ACC_OFF", Packet(Q.low[i].packet.to, Q.low[i].packet.kind, OFF),
                   Q.low[i].repeats, (t + locoId(Q.low[i])) % W32)
      BY <1>5, <2>1, <2>3, OffSound
    <2>5. o.packet = Packet(a, "acc", OFF)
      BY <2>2, <2>4 DEF Slot, Packet
    <2>6. HighRight(o)
      BY <2>5 DEF HighRight
    <2> HIDE DEF o
    <2>7. o \in HighSlots
      <3>1. R.high \in Seq(HighSlots)
        BY DEF Queues
      <3> DEFINE w == R.high
      <3>2. w = <<o>> \o Q.high /\ w \in Seq(HighSlots)
        BY <1>5, <3>1 DEF o
      <3> HIDE DEF w
      <3>3. <<o>> \in Seq({o}) /\ Q.high \in Seq(HighSlots) /\ Len(<<o>>) = 1 /\ <<o>>[1] = o
        BY <1>1
      <3>4. o \in HighSlots \cup {o} /\ Q.high \in Seq(HighSlots \cup {o})
        BY <1>1
      <3>5. Len(w) = Len(Q.high) + 1 /\ w[1] = o
        BY <3>2, <3>4, ConsElements
      <3>6. QED
        BY <1>1, <3>2, <3>5, ElementOfSeq
    <2> DEFINE w == <<o>> \o Q.high
    <2>8. Len(w) = Len(Q.high) + 1 /\ w[1] = o /\ \A j \in 1 .. Len(Q.high) : w[j + 1] = Q.high[j]
      BY <1>1, <2>7, ConsElements
    <2> HIDE DEF w
    <2>9. ASSUME NEW j \in 1 .. Len(w) PROVE HighRight(w[j])
      <3>1. j = 1 \/ (j - 1 \in 1 .. Len(Q.high) /\ w[j] = Q.high[j - 1])
        BY <1>1, <2>8
      <3>2. QED
        BY <2>6, <2>8, <3>1 DEF HighSound
    <2>10. QED
      BY <1>5, <2>9 DEF HighSound, w, o
  <1>6. QED
    BY <1>2, <1>3, <1>4, <1>5 DEF Sent, SentIdle, SentLow, SentHigh

\* Whatever is sent to a loco, an emergency stop apart, is not to the loco of the last packet,
\* and the queue remembers it.
LEMMA SentRemembered ==
  ASSUME NEW Q \in Queues, NEW R \in Queues, NEW p, NEW t \in Nat, LowSound(Q.low), HighSound(Q.high),
         Sent(Q, R, p, t),
         IsLocoPacket(p), p.val # ESTOP
  PROVE  R.last = p.to /\ Q.last # p.to
  <1>1. p.to \in Locos /\ p.kind \notin {"acc", "aspect"}
    BY DEF IsLocoPacket
  <1>2. p.to # 0 /\ p.to % W16 = p.to
    <2>1. \A k \in Locos : k # 0 /\ k % W16 = k
      BY MainTrackAssumption, WidthAssumption
    <2>2. QED
      BY <1>1, <2>1
  <1>3. CASE SentIdle(Q, R, p)
    BY <1>2, <1>3 DEF SentIdle, IdlePacket, Packet
  <1>4. CASE SentHigh(Q, R, p, t)
    <2>1. PICK i \in 1 .. Len(Q.high) :
             Chosen(Q, Q.high, i, t) /\ p = Q.high[i].packet /\ R.last = locoId(Q.high[i])
      BY <1>4 DEF SentHigh
    <2>2. HighRight(Q.high[i])
      BY DEF HighSound
    <2>3. ASSUME NEW a \in Accs, p = Packet(a, "acc", OFF) PROVE FALSE
      BY <1>1, <2>3 DEF Packet
    <2>4. locoId(Q.high[i]) = p.to
      BY <2>1, <2>2, <2>3 DEF HighRight
    <2>5. QED
      BY <1>2, <2>1, <2>4 DEF Chosen, Sendable
  <1>5. CASE SentLow(Q, R, p, t)
    <2>1. PICK i \in 1 .. Len(Q.low) :
             Chosen(Q, Q.low, i, t) /\ p = Q.low[i].packet /\ R.last = locoId(Q.low[i])
      BY <1>5 DEF SentLow
    <2>2. LowRight(Q.low[i])
      BY DEF LowSound
    <2>3. ASSUME NEW a \in Accs, p = Packet(a, "acc", ON) PROVE FALSE
      BY <1>1, <2>3 DEF Packet
    <2>4. Q.low[i].union = p.to
      BY <1>1, <1>2, <2>1, <2>2, <2>3 DEF LowRight
    <2>5. locoId(Q.low[i]) = p.to
      BY <1>2, <2>4 DEF locoId
    <2>6. QED
      BY <1>2, <2>1, <2>5 DEF Chosen, Sendable
  <1>6. QED
    BY <1>3, <1>4, <1>5 DEF Sent

\* Whatever is sent is a packet.
LEMMA SentPackets ==
  ASSUME NEW Q \in Queues, NEW R \in Queues, NEW p, NEW t \in Nat,
         Sent(Q, R, p, t)
  PROVE  p \in Packets
  <1>1. Q.high \in Seq(HighSlots) /\ Q.low \in Seq(LowSlots)
    BY DEF Queues
  <1>2. CASE SentIdle(Q, R, p)
    BY <1>2 DEF SentIdle, IdlePacket, Packet, Packets, Kinds, Vals
  <1>3. CASE SentHigh(Q, R, p, t)
    <2>1. PICK i \in 1 .. Len(Q.high) : p = Q.high[i].packet
      BY <1>3 DEF SentHigh
    <2>2. Q.high[i] \in HighSlots
      BY <1>1, ElementOfSeq
    <2>3. QED
      BY <2>1, <2>2 DEF HighSlots, Slots
  <1>4. CASE SentLow(Q, R, p, t)
    <2>1. PICK i \in 1 .. Len(Q.low) : p = Q.low[i].packet
      BY <1>4 DEF SentLow
    <2>2. Q.low[i] \in LowSlots
      BY <1>1, ElementOfSeq
    <2>3. QED
      BY <2>1, <2>2 DEF LowSlots, Slots
  <1>5. QED
    BY <1>2, <1>3, <1>4 DEF Sent

\* What a transmission does to the queues.
LEMMA Transmission ==
  ASSUME Sound, NEW force \in BOOLEAN, Transmit(force)
  PROVE  \E p \in Packets :
            /\ q' \in Queues /\ NoLeak(q')
            /\ Sent(q, q', p, now)
            /\ rails' = Hear(rails, p) /\ UNCHANGED <<now, cmd, commands>>
  <1> DEFINE N == scheduleNext(q, force, now)
             p == N.packet
             R == N.q
  <1>1. N.ok /\ q' = R /\ rails' = Hear(rails, p) /\ UNCHANGED <<now, cmd, commands>>
    BY DEF Transmit
  <1>2. ASSUME NEW i \in 1 .. Len(q.low), q.low[i].type = "ACC_ON"
        PROVE  \E a \in Accs : q.low[i].packet = Packet(a, "acc", ON)
    <2>1. LowRight(q.low[i])
      BY DEF Sound, LowSound
    <2>2. \A g \in Groups : FnType(g) # "ACC_ON"
      BY Groups5
    <2>3. QED
      BY <1>2, <2>1, <2>2 DEF LowRight
  <1>3. q \in Queues /\ NoLeak(q) /\ now \in Nat
    BY SoundFacts
  <1>4. /\ R \in Queues /\ NoLeak(R)
        /\ Sent(q, R, p, now)
    BY <1>1, <1>2, <1>3, NextScheduled
  <1> HIDE DEF N, p, R
  <1>5. p \in Packets
    BY <1>3, <1>4, SentPackets
  <1>6. QED
    BY <1>1, <1>4, <1>5

\* A transmission preserves the invariant.
LEMMA TransmitStep ==
  ASSUME Sound, NEW force \in BOOLEAN, Transmit(force)
  PROVE  Sound'
  <1>1. PICK p \in Packets :
            /\ q' \in Queues /\ NoLeak(q')
            /\ Sent(q, q', p, now)
            /\ rails' = Hear(rails, p) /\ UNCHANGED <<now, cmd, commands>>
    BY Transmission
  <1> DEFINE R == q'
  <1>2. /\ Sent(q, R, p, now)
        /\ R \in Queues
    BY <1>1
  <1>3. /\ q \in Queues /\ now \in Nat /\ rails \in Heard
        /\ LowSound(q.low) /\ HighSound(q.high) /\ NewestFunctionWins /\ NewestSignalWins
        /\ LastHeard /\ Separated
    BY SoundFacts DEF Sound
  <1> HIDE DEF R
  <1>4. LowSound(R.low)
    <2>1. ASSUME SentLow(q, R, p, now) PROVE LowSound(R.low)
      BY <1>3, <2>1, LowSentSound
    <2>2. ASSUME SentIdle(q, R, p) \/ SentHigh(q, R, p, now) PROVE R.low = q.low
      BY <2>2 DEF SentIdle, SentHigh
    <2>3. QED
      BY <1>2, <1>3, <2>1, <2>2 DEF Sent
  <1>5. HighSound(R.high)
    BY <1>2, <1>3, SentHighSound
  <1>6. /\ p.kind = "time" => p.to = 0
        /\ \A kind, a, heard : Heeds(kind, a) =>
              Outcome(R.low, kind, a, Told(p, kind, a, heard)) = Outcome(q.low, kind, a, heard)
    BY <1>2, <1>3, SentTells
  <1> DEFINE H == Hear(rails, p)
  <1>7. /\ H \in Heard /\ H.prev = rails.cur /\ H.cur = p
        /\ \A l \in Locos, g \in Groups : H.fn[l][g] = Told(p, FnKind(g), l, rails.fn[l][g])
        /\ \A a \in Accs \cup Signals : H.coil[a] = Told(p, "acc", a, rails.coil[a])
        /\ \A a \in Heads : H.aspect[a] = Told(p, "aspect", a, rails.aspect[a])
        /\ H.time = Told(p, "time", 0, rails.time)
    BY <1>3, <1>6, Hearing
  <1>8. rails' = H
    BY <1>1
  <1> HIDE DEF H
  <1>9. NewestFunctionWins'
    <2>1. ASSUME NEW l \in Locos, NEW g \in Groups
          PROVE  Outcome(R.low, FnKind(g), l, H.fn[l][g]) = cmd.fn[l][g]
      <3>1. Heeds(FnKind(g), l)
        BY DEF Heeds
      <3>2. QED
        BY <1>3, <1>6, <1>7, <3>1 DEF NewestFunctionWins
    <2>2. QED
      BY <1>1, <1>8, <2>1 DEF NewestFunctionWins, R
  <1>10. NewestSignalWins'
    <2>1. (\A a \in Signals : Heeds("acc", a)) /\ (\A a \in Heads : Heeds("aspect", a)) /\ Heeds("time", 0)
      BY DEF Heeds
    <2>2. \A a \in Signals : Outcome(R.low, "acc", a, H.coil[a]) = cmd.coil[a]
      BY <1>3, <1>6, <1>7, <2>1 DEF NewestSignalWins
    <2>3. \A a \in Heads : Outcome(R.low, "aspect", a, H.aspect[a]) = cmd.aspect[a]
      BY <1>3, <1>6, <1>7, <2>1 DEF NewestSignalWins
    <2>4. Outcome(R.low, "time", 0, H.time) = cmd.time
      BY <1>3, <1>6, <1>7, <2>1 DEF NewestSignalWins
    <2>5. QED
      BY <1>1, <1>8, <2>2, <2>3, <2>4 DEF NewestSignalWins, R
  <1>11. ASSUME IsLocoPacket(p), p.val # ESTOP PROVE R.last = p.to /\ q.last # p.to
    BY <1>2, <1>3, <1>11, SentRemembered
  <1>12. LastHeard'
    BY <1>7, <1>8, <1>11 DEF LastHeard, R
  <1>13. Separated'
    BY <1>3, <1>7, <1>8, <1>11 DEF Separated, LastHeard
  <1>14. commands' \in 0 .. MaxCommands /\ now' \in Nat /\ rails' \in Heard /\ cmd' \in Cmds
    BY <1>1, <1>7, <1>8, SoundFacts
  <1>15. QED
    BY <1>1, <1>4, <1>5, <1>9, <1>10, <1>12, <1>13, <1>14, SoundAfter DEF R

\* So does the passing of time.
LEMMA TickStep ==
  ASSUME Sound, Tick
  PROVE  Sound'
  <1>1. now' = (now + 1) % W32 /\ q' = q /\ rails' = rails /\ cmd' = cmd /\ commands' = commands
    BY DEF Tick
  <1>2. now' \in Nat
    <2>1. now \in Nat
      BY SoundFacts
    <2>2. QED
      BY <1>1, <2>1, WidthAssumption
  <1>3. LowSound(q'.low) /\ HighSound(q'.high)
    BY <1>1 DEF Sound
  <1>4. LastHeard' /\ Separated'
    BY <1>1, Silence DEF Sound
  <1>5. NewestFunctionWins' /\ NewestSignalWins'
    BY <1>1, LowUntouched DEF Sound
  <1>6. commands' \in 0 .. MaxCommands /\ rails' \in Heard /\ cmd' \in Cmds /\ q' \in Queues /\ NoLeak(q')
    BY <1>1, SoundFacts
  <1>7. QED
    BY <1>2, <1>3, <1>4, <1>5, <1>6, SoundAfter

\* The invariant holds initially,
LEMMA InitSound ==
  ASSUME QInit
  PROVE  Sound
  <1>1. q = NoQueue /\ now = BootTime /\ rails = Unheard /\ commands = 0
        /\ cmd = [speed |-> Unheard.speed, fn |-> Unheard.fn, coil |-> Unheard.coil,
                  aspect |-> Unheard.aspect, time |-> 0, lastclocktime |-> 0]
    BY DEF QInit
  <1>2. q \in Queues /\ q.high = <<>> /\ q.low = <<>> /\ q.free = 0 /\ q.created = 0
    BY <1>1, WidthAssumption DEF NoQueue, Queues
  <1>3. /\ Unheard.speed \in [Locos -> Vals] /\ Unheard.fn \in [Locos -> [Groups -> Vals]]
        /\ Unheard.coil \in [Accs \cup Signals -> Vals] /\ Unheard.aspect \in [Heads -> Nat]
    BY DEF Unheard, Vals
  <1>4. Unheard.time = 0 /\ Unheard.prev = IdlePacket /\ Unheard.cur = IdlePacket
    BY DEF Unheard
  <1>5. IdlePacket \in Packets /\ ~IsLocoPacket(IdlePacket)
    <2>1. 0 \notin Locos
      BY MainTrackAssumption
    <2>2. QED
      BY <2>1 DEF IdlePacket, Packet, Packets, Kinds, Vals, IsLocoPacket
  <1>6. rails \in Heard
    <2>1. rails = [speed |-> Unheard.speed, fn |-> Unheard.fn, coil |-> Unheard.coil,
                   aspect |-> Unheard.aspect, time |-> 0, prev |-> IdlePacket, cur |-> IdlePacket]
      BY <1>1 DEF Unheard
    <2>2. QED
      BY <1>3, <1>5, <2>1 DEF Heard
  <1>7. cmd \in Cmds
    BY <1>1, <1>3 DEF Cmds
  <1>8. QTypeOK
    BY <1>1, <1>2, <1>6, <1>7, MainTrackAssumption DEF QTypeOK, Queues, Cmds
  <1>9. NoSlotLeak
    <2>1. Len(q.high) = 0 /\ Len(q.low) = 0
      BY <1>2
    <2>2. QED
      BY <1>2, <2>1 DEF NoSlotLeak
  <1>10. Len(q.high) = 0 /\ Len(q.low) = 0
    BY <1>2
  <1>11. LowSound(q.low) /\ HighSound(q.high)
    BY <1>10 DEF LowSound, HighSound
  <1>12. \A kind, a, heard : Outcome(q.low, kind, a, heard) = heard
    BY <1>2, <1>10, OutcomeOfNone DEF Queues
  <1>13. NewestFunctionWins
    BY <1>1, <1>12 DEF NewestFunctionWins
  <1>14. NewestSignalWins
    BY <1>1, <1>4, <1>12 DEF NewestSignalWins
  <1>15. LastHeard /\ Separated
    BY <1>1, <1>4, <1>5 DEF LastHeard, Separated
  <1>16. QED
    BY <1>8, <1>9, <1>11, <1>13, <1>14, <1>15 DEF Sound, SlotsSound

\* and after every step.
LEMMA SoundStep ==
  ASSUME Sound, [QNext]_qvars
  PROVE  Sound'
  <1>1. ASSUME NEW l \in Locos, NEW v \in Speeds, SpeedCommand(l, v) PROVE Sound'
    BY <1>1, SpeedStep
  <1>2. ASSUME NEW l \in Locos \cup {0}, EstopCommand(l) PROVE Sound'
    BY <1>2, EstopStep
  <1>3. ASSUME NEW l \in Locos, NEW g \in Groups, NEW v \in {ON, OFF}, FunctionCommand(l, g, v)
        PROVE  Sound'
    BY <1>3, FunctionStep
  <1>4. ASSUME NEW l \in Locos, CvCommand(l) PROVE Sound'
    BY <1>4, CvStep
  <1>5. ASSUME NEW p \in AccCommands, AccessoryPulse(p) \/ AccessorySet(p) PROVE Sound'
    BY <1>5, PulseStep, SetStep
  <1>6. ASSUME NEW a \in Heads, NEW v \in Aspects, ExtendedAccessory(a, v) PROVE Sound'
    BY <1>6, AspectStep
  <1>7. ASSUME NEW m \in Times, NEW r \in ClockRates, setClockTime(m, r) PROVE Sound'
    BY <1>7, TimeStep
  <1>8. ASSUME NEW force \in BOOLEAN, Transmit(force) PROVE Sound'
    BY <1>8, TransmitStep
  <1>9. ASSUME Tick PROVE Sound'
    BY <1>9, TickStep
  <1>10. ASSUME UNCHANGED qvars PROVE Sound'
    <2>1. q' = q /\ now' = now /\ rails' = rails /\ cmd' = cmd /\ commands' = commands
      BY <1>10 DEF qvars
    <2>2. LowSound(q'.low) /\ HighSound(q'.high)
      BY <2>1 DEF Sound
    <2>3. LastHeard' /\ Separated'
      BY <2>1, Silence DEF Sound
    <2>4. NewestFunctionWins' /\ NewestSignalWins'
      BY <2>1, LowUntouched DEF Sound
    <2>5. commands' \in 0 .. MaxCommands /\ rails' \in Heard /\ cmd' \in Cmds /\ q' \in Queues
          /\ NoLeak(q') /\ now' \in Nat
      BY <2>1, SoundFacts
    <2>6. QED
      BY <2>2, <2>3, <2>4, <2>5, SoundAfter
  <1>11. QED
    BY <1>1, <1>2, <1>3, <1>4, <1>5, <1>6, <1>7, <1>8, <1>9, <1>10 DEF QNext

\* The invariant holds whatever the handlers schedule and however the packets are chosen.
THEOREM SoundAlways == QSafety => []Sound
  BY InitSound, SoundStep, PTL DEF QSafety

\* getSlot, recycleSlot and the lists never lose a slot, and each slot is in the queue that its
\* type belongs to.
THEOREM SlotsSoundAlways == QSafety => []SlotsSound
  <1>1. Sound => SlotsSound
    BY DEF Sound
  <1>2. QED
    BY <1>1, SoundAlways, PTL

\* Packets to one loco are never sent one right after the other, emergency stops apart.
THEOREM SeparatedAlways == QSafety => []Separated
  <1>1. Sound => Separated
    BY DEF Sound
  <1>2. QED
    BY <1>1, SoundAlways, PTL

-----------------------------------------------------------------------------
(* What holds while no coil-off slot reads as a packet to a loco.          *)

\* The union of a coil-off slot holds a time; its low 16 bits are not the address of a loco.
NoCollisionIn(s) == \A i \in 1 .. Len(s) : s[i].type = "ACC_OFF" => locoId(s[i]) \notin Locos
NoCollision == NoCollisionIn(q.high)

\* A slot of the high priority queue is for all locos, for one, or for a coil.
SpeedRight(s) ==
    \/ /\ s.type = "SPEED" /\ s.packet.kind = "speed" /\ s.union = 0
       /\ s.packet.val = ESTOP /\ s.packet.to \in Locos \cup {0}
    \/ /\ s.type = "SPEED" /\ s.packet.kind = "speed" /\ s.union = s.packet.to
       /\ s.packet.to \in Locos
    \/ s.type = "ACC_OFF" /\ \E a \in Accs : s.packet = Packet(a, "acc", OFF)

\* Emergency stops are ahead of the throttles' speeds, of which each loco has one.
Before(x, y) ==
    x.type = "SPEED" /\ y.type = "SPEED" =>
        /\ y.union = 0 => x.union = 0
        /\ x.union = y.union => x.union = 0

\* The high priority queue holds such slots, in such an order.
Ordered(s) ==
    /\ \A i \in 1 .. Len(s) : SpeedRight(s[i])
    /\ \A i, j \in 1 .. Len(s) : i < j => Before(s[i], s[j])

\* The packet that switches the coil off, or on, is in a queue.
Switches(s, a, v) == \E i \in 1 .. Len(s) : s[i].packet = Packet(a, "acc", v)

\* The low 16 bits of a loco address are the address.
LEMMA LocoIds ==
  \A s : s.union \in Locos \cup {0} => locoId(s) = s.union
  <1>1. \A k \in Locos \cup {0} : k % W16 = k
    BY MainTrackAssumption, WidthAssumption
  <1>2. QED
    BY <1>1 DEF locoId

\* What the union of a slot that a loco obeys says.
LEMMA SpeedUnion ==
  ASSUME NEW s, SpeedRight(s), NEW l \in Locos
  PROVE  /\ Carries(s, "speed", l) => /\ s.type = "SPEED"
                                      /\ \/ s.union = 0 /\ s.packet.val = ESTOP
                                         \/ s.union = l /\ s.packet.to = l
         /\ \A a, v : s.packet = Packet(a, "acc", v) => s.type = "ACC_OFF" /\ v = OFF
         /\ s.packet.kind = "speed" \/ s.packet.kind = "acc"
  <1>1. 0 \notin Locos
    BY MainTrackAssumption
  <1>2. ASSUME NEW a, NEW v, s.packet = Packet(a, "acc", v)
        PROVE  s.packet.kind = "acc" /\ s.packet.val = v
    BY <1>2 DEF Packet
  <1>3. QED
    BY <1>1, <1>2 DEF SpeedRight, Carries, Reaches

\* A slot added at the head or at the end, with nothing out of order.
LEMMA OrderedCons ==
  ASSUME NEW s \in Seq(HighSlots), Ordered(s), NEW x \in HighSlots, SpeedRight(x),
         \A j \in 1 .. Len(s) : Before(x, s[j])
  PROVE  /\ Ordered(<<x>> \o s)
         /\ \A a, v : Switches(s, a, v) => Switches(<<x>> \o s, a, v)
         /\ \A a, v : x.packet = Packet(a, "acc", v) => Switches(<<x>> \o s, a, v)
  <1> DEFINE w == <<x>> \o s
  <1>1. /\ Len(w) = Len(s) + 1 /\ w[1] = x /\ Len(s) \in Nat
        /\ \A j \in 1 .. Len(s) : w[j + 1] = s[j]
    BY ConsElements, LenProperties
  <1> HIDE DEF w
  <1>2. ASSUME NEW j \in 1 .. Len(w) PROVE j = 1 \/ (j - 1 \in 1 .. Len(s) /\ w[j] = s[j - 1])
    BY <1>1
  <1>3. ASSUME NEW j \in 1 .. Len(w) PROVE SpeedRight(w[j])
    BY <1>1, <1>2 DEF Ordered
  <1>4. ASSUME NEW j \in 1 .. Len(w), NEW k \in 1 .. Len(w), j < k PROVE Before(w[j], w[k])
    <2>1. k - 1 \in 1 .. Len(s) /\ w[k] = s[k - 1]
      BY <1>1, <1>4
    <2>2. CASE j = 1
      BY <1>1, <2>1, <2>2
    <2>3. CASE j # 1
      <3>1. j - 1 \in 1 .. Len(s) /\ w[j] = s[j - 1] /\ j - 1 < k - 1
        BY <1>1, <1>4, <2>3
      <3>2. QED
        BY <2>1, <3>1 DEF Ordered
    <2>4. QED
      BY <2>2, <2>3
  <1>5. ASSUME NEW a, NEW v, Switches(s, a, v) PROVE Switches(w, a, v)
    <2>1. PICK j \in 1 .. Len(s) : s[j].packet = Packet(a, "acc", v)
      BY <1>5 DEF Switches
    <2>2. j + 1 \in 1 .. Len(w) /\ w[j + 1].packet = Packet(a, "acc", v)
      BY <1>1, <2>1
    <2>3. QED
      BY <2>2 DEF Switches
  <1>6. ASSUME NEW a, NEW v, x.packet = Packet(a, "acc", v) PROVE Switches(w, a, v)
    <2>1. 1 \in 1 .. Len(w) /\ w[1].packet = Packet(a, "acc", v)
      BY <1>1, <1>6
    <2>2. QED
      BY <2>1 DEF Switches
  <1>7. QED
    BY <1>3, <1>4, <1>5, <1>6 DEF Ordered, w

\* Slots picked out of a queue in their order are in order.
LEMMA OrderedEmbeds ==
  ASSUME NEW s, Ordered(s), NEW t, NEW e, NEW I, I \subseteq 1 .. Len(s), Embeds(e, t, s, I)
  PROVE  /\ Ordered(t)
         /\ \A a, v : (\E i \in I : s[i].packet = Packet(a, "acc", v)) => Switches(t, a, v)
  <1>1. /\ \A j \in 1 .. Len(t) : e[j] \in I /\ t[j] = s[e[j]]
        /\ \A j, k \in 1 .. Len(t) : j < k => e[j] < e[k]
        /\ \A i \in I : \E j \in 1 .. Len(t) : e[j] = i
    BY DEF Embeds
  <1>2. ASSUME NEW j \in 1 .. Len(t) PROVE SpeedRight(t[j])
    BY <1>1 DEF Ordered
  <1>3. ASSUME NEW j \in 1 .. Len(t), NEW k \in 1 .. Len(t), j < k PROVE Before(t[j], t[k])
    <2>1. /\ e[j] \in 1 .. Len(s) /\ e[k] \in 1 .. Len(s) /\ e[j] < e[k]
          /\ t[j] = s[e[j]] /\ t[k] = s[e[k]]
      BY <1>1, <1>3
    <2>2. Before(s[e[j]], s[e[k]])
      BY <2>1 DEF Ordered
    <2>3. QED
      BY <2>1, <2>2
  <1>4. ASSUME NEW a, NEW v, NEW i \in I, s[i].packet = Packet(a, "acc", v) PROVE Switches(t, a, v)
    <2>1. PICK j \in 1 .. Len(t) : e[j] = i
      BY <1>1
    <2>2. t[j].packet = Packet(a, "acc", v)
      BY <1>1, <1>4, <2>1
    <2>3. QED
      BY <2>2 DEF Switches
  <1>5. QED
    BY <1>2, <1>3, <1>4 DEF Ordered

\* The speed is the one that the loco ends up with; nobody else's outcome changes.
SpeedTaken(s, w, l, v) ==
    /\ Ordered(w)
    /\ \A heard : Outcome(w, "speed", l, heard) = v
    /\ \A k \in Locos \ {l} : \A heard : Outcome(w, "speed", k, heard) = Outcome(s, "speed", k, heard)
    /\ \A a, u : Switches(s, a, u) => Switches(w, a, u)

\* A throttle's speed replaces the loco's own, which is the last that the loco obeys.
LEMMA SpeedReplaced ==
  ASSUME NEW s \in Seq(HighSlots), Ordered(s), NoCollisionIn(s), NEW i \in 1 .. Len(s),
         NEW l \in Locos, locoId(s[i]) = l, NEW v \in Vals
  PROVE  LET w == replacePacket(s, i, SpeedPacket(l, v), 0)
         IN  SpeedTaken(s, w, l, v)
  <1> DEFINE p == SpeedPacket(l, v)
             n == Slot(s[i].type, p, 0, s[i].union)
             w == replacePacket(s, i, SpeedPacket(l, v), 0)
  <1>1. s[i] \in HighSlots /\ SpeedRight(s[i]) /\ 0 \notin Locos /\ Len(s) \in Nat
    BY ElementOfSeq, MainTrackAssumption, LenProperties DEF Ordered
  <1>2. s[i].type = "SPEED" /\ s[i].packet.kind = "speed" /\ s[i].union = l /\ s[i].packet.to = l
    <2>1. s[i].type # "ACC_OFF"
      BY DEF NoCollisionIn
    <2>2. s[i].union # 0
      BY <1>1, LocoIds
    <2>3. s[i].union \in Locos => s[i].union = l
      BY LocoIds
    <2>4. QED
      BY <1>1, <2>1, <2>2, <2>3 DEF SpeedRight
  <1>3. p \in Packets /\ p.to = l /\ p.kind = "speed" /\ p.val = v
    BY DEF Packets, Packet, SpeedPacket, Kinds
  <1>4. w = replacePacket(s, i, p, 0)
    OBVIOUS
  <1> HIDE DEF p, w
  <1>5. n \in HighSlots /\ n.type = "SPEED" /\ n.packet = p /\ n.union = l
    BY <1>1, <1>2, <1>3 DEF HighSlots, Slots, Slot
  <1>6. /\ w \in Seq(HighSlots) /\ Len(w) = Len(s)
        /\ \A j \in 1 .. Len(s) : w[j] = IF j = i THEN n ELSE s[j]
    <2>1. HighSlots \subseteq Slots
      BY DEF HighSlots
    <2>2. QED
      BY <1>4, <1>5, <2>1, ReplaceElements
  <1> HIDE DEF n
  <1>7. Ordered(w)
    <2>1. SpeedRight(n)
      BY <1>3, <1>5 DEF SpeedRight
    <2>2. ASSUME NEW j \in 1 .. Len(w) PROVE SpeedRight(w[j])
      BY <1>6, <2>1 DEF Ordered
    <2>3. ASSUME NEW j \in 1 .. Len(w), NEW k \in 1 .. Len(w), j < k PROVE Before(w[j], w[k])
      <3>1. Before(s[j], s[k])
        BY <1>6, <2>3 DEF Ordered
      <3>2. /\ w[j].type = s[j].type /\ w[j].union = s[j].union
            /\ w[k].type = s[k].type /\ w[k].union = s[k].union
        BY <1>2, <1>5, <1>6
      <3>3. QED
        BY <3>1, <3>2 DEF Before
    <2>4. QED
      BY <2>2, <2>3 DEF Ordered
  <1>8. ASSUME NEW heard PROVE Outcome(w, "speed", l, heard) = v
    <2>1. Carries(w[i], "speed", l)
      BY <1>3, <1>5, <1>6 DEF Carries, Reaches
    <2>2. ASSUME NEW j \in 1 .. Len(w), j > i, Carries(w[j], "speed", l) PROVE FALSE
      <3>1. w[j].type = "SPEED" /\ (w[j].union = 0 \/ w[j].union = l)
        BY <1>7, <2>2, SpeedUnion DEF Ordered
      <3>2. w[i].type = "SPEED" /\ w[i].union = l /\ l # 0
        BY <1>1, <1>5, <1>6
      <3>3. Before(w[i], w[j])
        BY <1>6, <1>7, <2>2 DEF Ordered
      <3>4. QED
        BY <3>1, <3>2, <3>3 DEF Before
    <2>3. Outcome(w, "speed", l, heard) = w[i].packet.val
      BY <1>6, <2>1, <2>2, OutcomeOfLast
    <2>4. QED
      BY <1>3, <1>5, <1>6, <2>3
  <1>9. ASSUME NEW k \in Locos \ {l}, NEW heard
        PROVE  Outcome(w, "speed", k, heard) = Outcome(s, "speed", k, heard)
    <2>1. ~Carries(w[i], "speed", k) /\ ~Carries(s[i], "speed", k)
      BY <1>1, <1>2, <1>3, <1>5, <1>6 DEF Carries, Reaches
    <2>2. \A j \in 1 .. Len(s) : j # i => w[j].packet = s[j].packet
      BY <1>6
    <2>3. QED
      BY <1>6, <2>1, <2>2, OutcomeReplaceOther
  <1>10. ASSUME NEW a, NEW u, Switches(s, a, u) PROVE Switches(w, a, u)
    <2>1. PICK j \in 1 .. Len(s) : s[j].packet = Packet(a, "acc", u)
      BY <1>10 DEF Switches
    <2>2. s[j].packet.kind = "acc"
      BY <2>1 DEF Packet
    <2>3. w[j].packet = Packet(a, "acc", u)
      BY <1>2, <1>6, <2>1, <2>2
    <2>4. QED
      BY <1>6, <2>3 DEF Switches
  <1>11. QED
    BY <1>7, <1>8, <1>9, <1>10 DEF w, SpeedTaken

\* Or it is a slot of its own, after all others.
LEMMA SpeedAppended ==
  ASSUME NEW s \in Seq(HighSlots), Ordered(s), NEW l \in Locos, NEW v \in Vals,
         \A i \in 1 .. Len(s) : locoId(s[i]) # l
  PROVE  LET w == Append(s, Slot("SPEED", SpeedPacket(l, v), 0, l))
         IN  SpeedTaken(s, w, l, v)
  <1> DEFINE p == SpeedPacket(l, v)
             n == Slot("SPEED", p, 0, l)
             w == Append(s, n)
  <1>1. p \in Packets /\ p.to = l /\ p.kind = "speed" /\ p.val = v
    BY DEF Packets, Packet, SpeedPacket, Kinds
  <1>2. 0 \notin Locos /\ l \in Nat /\ Len(s) \in Nat
    BY MainTrackAssumption, LenProperties
  <1> HIDE DEF p
  <1>3. n \in HighSlots /\ n.type = "SPEED" /\ n.packet = p /\ n.union = l
    BY <1>1, <1>2 DEF HighSlots, Slots, Slot, Types
  <1> HIDE DEF n
  <1>4. /\ w \in Seq(HighSlots) /\ Len(w) = Len(s) + 1
        /\ \A j \in 1 .. Len(s) : w[j] = s[j]
        /\ w[Len(s) + 1] = n
    BY <1>3, AppendProperties
  <1>5. \A kind, a, heard : Outcome(w, kind, a, heard) =
           IF Carries(n, kind, a) THEN n.packet.val ELSE Outcome(s, kind, a, heard)
    BY <1>3, OutcomeAppendNew, OutcomeAppendOther
  <1> HIDE DEF w
  <1>6. \A k \in Locos : Carries(n, "speed", k) <=> k = l
    BY <1>1, <1>2, <1>3 DEF Carries, Reaches
  <1>7. SpeedRight(n)
    BY <1>1, <1>3 DEF SpeedRight
  <1>8. ASSUME NEW j \in 1 .. Len(s) PROVE Before(s[j], n)
    <2>1. s[j].union # l
      BY LocoIds
    <2>2. QED
      BY <1>2, <1>3, <2>1 DEF Before
  <1>9. ASSUME NEW j \in 1 .. Len(w) PROVE SpeedRight(w[j])
    <2>1. j \in 1 .. Len(s) \/ j = Len(s) + 1
      BY <1>2, <1>4
    <2>2. QED
      BY <1>4, <1>7, <2>1 DEF Ordered
  <1>10. ASSUME NEW j \in 1 .. Len(w), NEW k \in 1 .. Len(w), j < k PROVE Before(w[j], w[k])
    <2>1. j \in 1 .. Len(s) /\ w[j] = s[j]
      BY <1>2, <1>4, <1>10
    <2>2. k \in 1 .. Len(s) \/ k = Len(s) + 1
      BY <1>2, <1>4
    <2>3. QED
      BY <1>4, <1>8, <1>10, <2>1, <2>2 DEF Ordered
  <1>11. ASSUME NEW a, NEW u, Switches(s, a, u) PROVE Switches(w, a, u)
    <2>1. PICK j \in 1 .. Len(s) : s[j].packet = Packet(a, "acc", u)
      BY <1>11 DEF Switches
    <2>2. j \in 1 .. Len(w) /\ w[j].packet = Packet(a, "acc", u)
      BY <1>2, <1>4, <2>1
    <2>3. QED
      BY <2>2 DEF Switches
  <1>12. Ordered(w)
    BY <1>9, <1>10 DEF Ordered
  <1>13. QED
    BY <1>1, <1>3, <1>5, <1>6, <1>11, <1>12 DEF w, SpeedTaken, n, p

\* An emergency stop purges the speeds of the locos it stops, and nothing else.
LEMMA EstopOrdered ==
  ASSUME NEW Q \in Queues, Ordered(Q.high), NEW l \in Locos \cup {0},
         NEW kept \in Seq(HighSlots), NEW e, Embeds(e, kept, Q.high, Spared(Q, l)),
         NEW r \in Nat
  PROVE  LET w == <<Slot("SPEED", SpeedPacket(l, ESTOP), r, 0)>> \o kept
         IN  /\ Ordered(w)
             /\ \A k \in Locos : \A heard :
                   Outcome(w, "speed", k, heard) =
                      IF l \in {0, k} THEN ESTOP ELSE Outcome(Q.high, "speed", k, heard)
             /\ \A a, u : Switches(Q.high, a, u) => Switches(w, a, u)
  <1> DEFINE s == Q.high
             p == SpeedPacket(l, ESTOP)
             n == Slot("SPEED", p, r, 0)
             w == <<n>> \o kept
             I == Spared(Q, l)
  <1>1. /\ s \in Seq(HighSlots) /\ Len(s) \in Nat /\ Len(kept) \in Nat
        /\ I \subseteq 1 .. Len(s) /\ Ordered(s) /\ Embeds(e, kept, s, I)
    BY LenProperties DEF Queues, Spared
  <1>2. \A i \in 1 .. Len(s) : i \in I <=> s[i].type = "ACC_OFF" \/ (l # 0 /\ locoId(s[i]) # l)
    BY <1>1, LenProperties DEF Spared
  <1>3. p \in Packets /\ p.to = l /\ p.kind = "speed" /\ p.val = ESTOP
    BY DEF Packets, Packet, SpeedPacket, Kinds, Vals
  <1>4. 0 \notin Locos
    BY MainTrackAssumption
  <1> HIDE DEF p, s, I
  <1>5. n \in HighSlots /\ n.type = "SPEED" /\ n.packet = p /\ n.union = 0
    BY <1>3 DEF HighSlots, Slots, Slot, Types
  <1> HIDE DEF n
  <1>6. SpeedRight(n) /\ \A y : Before(n, y)
    BY <1>3, <1>5 DEF SpeedRight, Before
  <1>7. /\ Ordered(kept)
        /\ \A a, v : (\E i \in I : s[i].packet = Packet(a, "acc", v)) => Switches(kept, a, v)
    BY <1>1, OrderedEmbeds
  <1>8. /\ Ordered(w)
        /\ \A a, v : Switches(kept, a, v) => Switches(w, a, v)
    BY <1>5, <1>6, <1>7, OrderedCons
  <1>9. ASSUME NEW a, NEW u, Switches(s, a, u) PROVE Switches(w, a, u)
    <2>1. PICK i \in 1 .. Len(s) : s[i].packet = Packet(a, "acc", u)
      BY <1>9 DEF Switches
    <2>2. SpeedRight(s[i])
      BY <1>1 DEF Ordered
    <2>3. s[i].type = "ACC_OFF"
      <3>1. s[i].packet.kind = "acc"
        BY <2>1 DEF Packet
      <3>2. QED
        BY <2>2, <3>1 DEF SpeedRight
    <2>4. QED
      BY <1>2, <1>7, <1>8, <2>1, <2>3
  <1>10. /\ Len(w) = Len(kept) + 1 /\ w[1] = n /\ w \in Seq(HighSlots)
         /\ \A j \in 1 .. Len(kept) : w[j + 1] = kept[j]
    BY <1>5, ConsElements
  <1>11. ASSUME NEW k \in Locos, l \in {0, k}, NEW heard PROVE Outcome(w, "speed", k, heard) = ESTOP
    <2> HIDE DEF w
    <2>1. ASSUME NEW j \in 1 .. Len(w), Carries(w[j], "speed", k) PROVE w[j].packet.val = ESTOP
      <3>1. CASE j = 1
        BY <1>3, <1>5, <1>10, <3>1
      <3>2. CASE j # 1
        <4>1. j - 1 \in 1 .. Len(kept) /\ w[j] = kept[j - 1]
          BY <1>1, <1>10, <3>2
        <4>2. e[j - 1] \in I /\ w[j] = s[e[j - 1]]
          BY <1>1, <4>1 DEF Embeds
        <4>3. w[j].type = "ACC_OFF" \/ (l # 0 /\ locoId(w[j]) # l)
          BY <1>1, <1>2, <4>2
        <4>4. /\ w[j].type = "SPEED"
              /\ \/ w[j].union = 0 /\ w[j].packet.val = ESTOP
                 \/ w[j].union = k /\ w[j].packet.to = k
          BY <1>8, <2>1, SpeedUnion DEF Ordered
        <4>5. w[j].union = k => locoId(w[j]) = k
          BY LocoIds
        <4>6. QED
          BY <1>11, <4>3, <4>4, <4>5
      <3>3. QED
        BY <3>1, <3>2
    <2>2. 1 \in 1 .. Len(w) /\ Carries(w[1], "speed", k)
      BY <1>1, <1>3, <1>5, <1>10, <1>11 DEF Carries, Reaches
    <2>3. PICK i \in 1 .. Len(w) : /\ Carries(w[i], "speed", k)
                                   /\ \A j \in 1 .. Len(w) : j > i => ~Carries(w[j], "speed", k)
      <3>1. \E i \in 1 .. Len(w) : Carries(w[i], "speed", k)
        BY <2>2
      <3>2. QED
        BY <1>10, <3>1, LastCarrier
    <2>4. Outcome(w, "speed", k, heard) = w[i].packet.val
      <3>1. w \in Seq(HighSlots)
        BY <1>10
      <3>2. QED
        BY <2>3, <3>1, OutcomeOfLast
    <2>5. QED
      BY <2>1, <2>3, <2>4
  <1>12. ASSUME NEW k \in Locos, l \notin {0, k}, NEW heard
         PROVE  Outcome(w, "speed", k, heard) = Outcome(s, "speed", k, heard)
    <2>1. ~Carries(n, "speed", k)
      BY <1>3, <1>5, <1>12 DEF Carries, Reaches
    <2>2. Outcome(w, "speed", k, heard) = Outcome(kept, "speed", k, heard)
      BY <1>5, <2>1, OutcomeConsOther
    <2>3. ASSUME NEW i \in 1 .. Len(s), Carries(s[i], "speed", k) PROVE i \in I
      <3>1. s[i].union = 0 \/ s[i].union = k
        BY <1>1, <2>3, SpeedUnion DEF Ordered
      <3>2. locoId(s[i]) = 0 \/ locoId(s[i]) = k
        BY <3>1, LocoIds
      <3>3. QED
        BY <1>2, <1>12, <3>2
    <2>4. SameFor(e, kept, s, "speed", k)
      BY <1>1, <2>3 DEF SameFor, Embeds
    <2>5. QED
      BY <1>1, <2>2, <2>4, OutcomeEmbeds
  <1>13. \A k \in Locos : \A heard :
            Outcome(w, "speed", k, heard) = IF l \in {0, k} THEN ESTOP ELSE Outcome(s, "speed", k, heard)
    BY <1>11, <1>12
  <1>14. QED
    BY <1>8, <1>9, <1>13 DEF s, n, p

\* The packets of the low priority queue are not speeds, and only coil-on slots energise
\* the coils that are pulsed.
LEMMA LowKinds ==
  ASSUME NEW s, LowRight(s)
  PROVE  /\ s.packet.kind # "speed"
         /\ \A a \in Accs : Carries(s, "acc", a) => s.type = "ACC_ON" /\ s.packet = Packet(a, "acc", ON)
         /\ s.type = "ACC_ON" => \E a \in Accs : s.packet = Packet(a, "acc", ON)
  <1>1. \A g \in Groups : /\ FnKind(g) \notin {"speed", "cv", "acc", "idle", "aspect", "time"}
                          /\ FnType(g) \notin {"SPEED", "ACC_OFF", "NORMAL", "ACC_ON"}
    BY Groups5
  <1>2. ASSUME NEW a \in Accs, s.packet = Packet(a, "acc", ON)
        PROVE  s.packet.kind = "acc" /\ s.packet.to = a
    BY <1>2 DEF Packet
  <1>3. s.packet.kind # "speed"
    BY <1>1, <1>2 DEF LowRight
  <1>4. s.type = "ACC_ON" => \E a \in Accs : s.packet = Packet(a, "acc", ON)
    BY <1>1 DEF LowRight
  <1>5. ASSUME NEW a \in Accs, Carries(s, "acc", a)
        PROVE  s.type = "ACC_ON" /\ s.packet = Packet(a, "acc", ON)
    <2>1. s.packet.kind = "acc" /\ s.packet.to = a /\ a \notin Signals
      BY <1>5, UsersAssumption DEF Carries, Reaches
    <2>2. s.type = "ACC_ON"
      BY <1>1, <2>1 DEF LowRight
    <2>3. PICK b \in Accs : s.packet = Packet(b, "acc", ON)
      BY <1>4, <2>2
    <2>4. QED
      BY <1>2, <2>1, <2>2, <2>3
  <1>6. QED
    BY <1>3, <1>4, <1>5

\* A packet sent from the high priority queue is the oldest for its loco; the queue stays
\* in order, and switches off what it did, apart from what is sent.
LEMMA HighSent ==
  ASSUME NEW Q \in Queues, NEW R, NEW p, NEW t, SentHigh(Q, R, p, t), Ordered(Q.high)
  PROVE  /\ Ordered(R.high)
         /\ \A l \in Locos : \A heard :
               Outcome(R.high, "speed", l, Told(p, "speed", l, heard)) = Outcome(Q.high, "speed", l, heard)
         /\ \A a, u : Switches(Q.high, a, u) /\ p # Packet(a, "acc", u) => Switches(R.high, a, u)
  <1> DEFINE s == Q.high
             w == R.high
  <1>1. s \in Seq(HighSlots) /\ Len(s) \in Nat /\ Ordered(s)
    BY LenProperties DEF Queues
  <1>2. PICK i \in 1 .. Len(s) :
            /\ Chosen(Q, s, i, t) /\ p = s[i].packet
            /\ \/ w = RemoveAt(s, i)
               \/ s[i].repeats > 0 /\ w = Repeating(s, i)
    BY DEF SentHigh
  <1> HIDE DEF s, w
  <1>3. s[i] \in HighSlots /\ SpeedRight(s[i]) /\ 0 \notin Locos
    BY <1>1, ElementOfSeq, MainTrackAssumption DEF Ordered
  <1>4. ASSUME NEW l \in Locos, Carries(s[i], "speed", l), NEW j \in 1 .. i - 1
        PROVE  ~Carries(s[j], "speed", l)
    <2> SUFFICES ASSUME Carries(s[j], "speed", l) PROVE FALSE
      OBVIOUS
    <2>1. j \in 1 .. Len(s) /\ j < i
      BY <1>1
    <2>2. ~Sendable(Q, s[j], t) /\ Sendable(Q, s[i], t)
      BY <1>2, <2>1 DEF Chosen
    <2>3. /\ s[i].type = "SPEED" /\ (s[i].union = 0 \/ s[i].union = l)
          /\ s[j].type = "SPEED" /\ (s[j].union = 0 \/ s[j].union = l)
      BY <1>1, <1>4, <2>1, SpeedUnion DEF Ordered
    <2>4. Before(s[j], s[i])
      BY <1>1, <2>1 DEF Ordered
    <2>5. s[j].union = 0
      BY <1>3, <2>3, <2>4 DEF Before
    <2>6. locoId(s[j]) = 0
      BY <2>5, LocoIds
    <2>7. QED
      BY <2>2, <2>3, <2>6 DEF Sendable
  <1>5. CASE w = RemoveAt(s, i)
    <2>1. PICK e : Embeds(e, w, s, (1 .. Len(s)) \ {i})
      BY <1>1, <1>5, RemoveAtEmbeds
    <2> DEFINE I == (1 .. Len(s)) \ {i}
    <2>2. I \subseteq 1 .. Len(s) /\ Embeds(e, w, s, I)
      BY <2>1
    <2>3. /\ Ordered(w)
          /\ \A a, v : (\E k \in I : s[k].packet = Packet(a, "acc", v)) => Switches(w, a, v)
      <3> HIDE DEF I
      <3>1. QED
        BY <1>1, <2>2, OrderedEmbeds
    <2>4. ASSUME NEW a, NEW u, Switches(s, a, u), p # Packet(a, "acc", u) PROVE Switches(w, a, u)
      <3>1. PICK k \in 1 .. Len(s) : s[k].packet = Packet(a, "acc", u)
        BY <2>4 DEF Switches
      <3>2. k # i
        BY <1>2, <2>4, <3>1
      <3>3. QED
        BY <2>3, <3>1, <3>2
    <2>5. ASSUME NEW l \in Locos, NEW heard
          PROVE  Outcome(w, "speed", l, Told(p, "speed", l, heard)) = Outcome(s, "speed", l, heard)
      <3>1. CASE Carries(s[i], "speed", l)
        <4>1. \A j \in 1 .. i - 1 : ~Carries(s[j], "speed", l)
          BY <1>4, <3>1
        <4>2. Outcome(RemoveAt(s, i), "speed", l, s[i].packet.val) = Outcome(s, "speed", l, heard)
          BY <1>1, <3>1, <4>1, OutcomeRemoveFirst
        <4>3. Told(p, "speed", l, heard) = s[i].packet.val
          BY <1>2, <3>1 DEF Told, Carries
        <4>4. QED
          BY <1>5, <4>2, <4>3
      <3>2. CASE ~Carries(s[i], "speed", l)
        <4>1. Outcome(RemoveAt(s, i), "speed", l, heard) = Outcome(s, "speed", l, heard)
          BY <1>1, <3>2, OutcomeRemoveOther
        <4>2. Told(p, "speed", l, heard) = heard
          BY <1>2, <3>2 DEF Told, Carries
        <4>3. QED
          BY <1>5, <4>1, <4>2
      <3>3. QED
        BY <3>1, <3>2
    <2>6. QED
      BY <2>3, <2>4, <2>5 DEF s, w
  <1>6. CASE s[i].repeats > 0 /\ w = Repeating(s, i)
    <2>2. /\ w \in Seq(HighSlots) /\ Len(w) = Len(s)
          /\ \A j \in 1 .. Len(s) : /\ w[j].packet = s[j].packet
                                    /\ w[j].type = s[j].type /\ w[j].union = s[j].union
      <3>1. w \in Seq(HighSlots) /\ SamePackets(w, s)
        BY <1>1, <1>6, RepeatingHigh
      <3>2. QED
        BY <3>1 DEF SamePackets
    <2>3. ASSUME NEW j \in 1 .. Len(w) PROVE SpeedRight(w[j])
      BY <1>1, <2>2 DEF Ordered, SpeedRight
    <2>4. ASSUME NEW j \in 1 .. Len(w), NEW k \in 1 .. Len(w), j < k PROVE Before(w[j], w[k])
      <3>1. Before(s[j], s[k])
        BY <1>1, <2>2, <2>4 DEF Ordered
      <3>2. QED
        BY <2>2, <3>1 DEF Before
    <2>5. ASSUME NEW a, NEW u, Switches(s, a, u) PROVE Switches(w, a, u)
      BY <2>2, <2>5 DEF Switches
    <2>6. ASSUME NEW l \in Locos, NEW heard
          PROVE  Outcome(w, "speed", l, Told(p, "speed", l, heard)) = Outcome(s, "speed", l, heard)
      <3> DEFINE h == Told(p, "speed", l, heard)
      <3>1. Outcome(w, "speed", l, h) = Outcome(s, "speed", l, h)
        BY <1>1, <2>2, OutcomeSamePackets
      <3>2. CASE Carries(s[i], "speed", l)
        BY <1>1, <3>1, <3>2, OutcomeForgets
      <3>3. CASE ~Carries(s[i], "speed", l)
        <4>1. h = heard
          BY <1>2, <3>3 DEF Told, Carries
        <4>2. QED
          BY <3>1, <4>1
      <3>4. QED
        BY <3>2, <3>3
    <2>7. QED
      BY <2>3, <2>4, <2>5, <2>6 DEF Ordered, s, w
  <1>7. QED
    BY <1>2, <1>5, <1>6

\* The second inductive invariant, relative to the first.
InOrder == Ordered(q.high) /\ NewestSpeedWins /\ CoilOffOwed

\* CoilOffOwed in these words,
LEMMA OwedAs ==
  ASSUME q \in Queues
  PROVE  CoilOffOwed <=> \A a \in Accs : rails.coil[a] = ON =>
                            Switches(q.high, a, OFF) \/ Switches(q.low, a, ON)
  <1>1. DOMAIN q.high = 1 .. Len(q.high) /\ DOMAIN q.low = 1 .. Len(q.low)
    BY LenProperties DEF Queues
  <1>2. QED
    BY <1>1 DEF CoilOffOwed, Switches

\* and after a step.
LEMMA OwedAfter ==
  ASSUME q' \in Queues
  PROVE  CoilOffOwed' <=> \A a \in Accs : rails'.coil[a] = ON =>
                             Switches(q'.high, a, OFF) \/ Switches(q'.low, a, ON)
  <1>1. DOMAIN q'.high = 1 .. Len(q'.high) /\ DOMAIN q'.low = 1 .. Len(q'.low)
    BY LenProperties DEF Queues
  <1>2. QED
    BY <1>1 DEF CoilOffOwed, Switches

\* What a step must show, when nothing is sent and nothing is taken out of a queue;
LEMMA OrderKept ==
  ASSUME Sound, Sound', InOrder, rails' = rails, Ordered(q'.high), NewestSpeedWins',
         \A a \in Accs : Switches(q.high, a, OFF) => Switches(q'.high, a, OFF),
         \A a \in Accs : Switches(q.low, a, ON) => Switches(q'.low, a, ON)
  PROVE  InOrder'
  <1>1. q \in Queues
    BY SoundFacts
  <1>2. q' \in Queues
    BY DEF Sound, SlotsSound, QTypeOK, Queues
  <1>3. CoilOffOwed'
    BY <1>1, <1>2, OwedAs, OwedAfter DEF InOrder
  <1>4. QED
    BY <1>3 DEF InOrder

\* and when the high priority queue is not touched.
LEMMA OrderUntouched ==
  ASSUME Sound, Sound', InOrder, rails' = rails, q'.high = q.high, cmd'.speed = cmd.speed,
         \A a \in Accs : Switches(q.low, a, ON) => Switches(q'.low, a, ON)
  PROVE  InOrder'
  <1>1. Ordered(q'.high) /\ NewestSpeedWins'
    BY DEF InOrder, NewestSpeedWins
  <1>2. QED
    BY <1>1, OrderKept

\* A speed preserves it, if no coil-off slot is taken for one of the loco;
LEMMA SpeedOrder ==
  ASSUME Sound, Sound', InOrder, NoCollision, NEW l \in Locos, NEW v \in Speeds, SpeedCommand(l, v)
  PROVE  InOrder'
  <1> DEFINE p == SpeedPacket(l, v)
             R == scheduleDCCSpeedPacket(q, p, 0, l)
  <1>1. q' = R /\ rails' = rails /\ cmd' = [cmd EXCEPT !.speed[l] = v]
    BY DEF SpeedCommand, Schedule
  <1>2. p \in Packets
    BY DEF SpeedPacket, Packet, Packets, Kinds, Vals
  <1>3. /\ q \in Queues /\ NoLeak(q) /\ 0 \in Nat /\ l \in Nat /\ v \in Vals /\ cmd \in Cmds
        /\ q.high \in Seq(HighSlots) /\ Ordered(q.high) /\ NoCollisionIn(q.high)
    BY SoundFacts, MainTrackAssumption DEF InOrder, NoCollision, Vals
  <1> HIDE DEF p
  <1>4. /\ R.low = q.low
        /\ SpeedQueued(q, R, p, 0, l)
    BY <1>2, <1>3, SpeedScheduled
  <1> HIDE DEF R
  <1> DEFINE w == R.high
  <1>5. SpeedTaken(q.high, w, l, v)
    <2>1. ASSUME NEW i \in 1 .. Len(q.high), locoId(q.high[i]) = l,
                 w = replacePacket(q.high, i, p, 0)
          PROVE  SpeedTaken(q.high, w, l, v)
      BY <1>3, <2>1, SpeedReplaced DEF p
    <2>2. CASE /\ \A i \in 1 .. Len(q.high) : locoId(q.high[i]) # l
               /\ w = Append(q.high, Slot("SPEED", p, 0, l))
      BY <1>3, <2>2, SpeedAppended DEF p
    <2>3. QED
      BY <1>4, <2>1, <2>2 DEF SpeedQueued
  <1>6. \A k \in Locos : cmd'.speed[k] = IF k = l THEN v ELSE cmd.speed[k]
    BY <1>1, <1>3 DEF Cmds
  <1>7. NewestSpeedWins'
    <2>1. NewestSpeedWins
      BY DEF InOrder
    <2>2. \A k \in Locos : Outcome(w, "speed", k, rails.speed[k]) = cmd'.speed[k]
      BY <1>5, <1>6, <2>1 DEF NewestSpeedWins, SpeedTaken
    <2>3. QED
      BY <1>1, <2>2 DEF NewestSpeedWins
  <1>8. q'.low = q.low /\ q'.high = w
    BY <1>1, <1>4
  <1> HIDE DEF w
  <1>9. QED
    BY <1>1, <1>5, <1>7, <1>8, OrderKept DEF SpeedTaken

\* an emergency stop does, as it spares the coil-off slots;
LEMMA EstopOrder ==
  ASSUME Sound, Sound', InOrder, NEW l \in Locos \cup {0}, EstopCommand(l)
  PROVE  InOrder'
  <1> DEFINE p == SpeedPacket(l, ESTOP)
             R == scheduleEstopPacket(q, p, EstopRepeats, l)
             n == Slot("SPEED", p, EstopRepeats, 0)
             sp == [k \in Locos |-> IF l \in {0, k} THEN ESTOP ELSE cmd.speed[k]]
  <1>1. q' = R /\ rails' = rails /\ cmd' = [cmd EXCEPT !.speed = sp]
    BY DEF EstopCommand, Schedule
  <1>2. p \in Packets
    BY DEF SpeedPacket, Packet, Packets, Kinds, Vals
  <1>3. /\ q \in Queues /\ NoLeak(q) /\ EstopRepeats \in Nat /\ cmd \in Cmds
        /\ q.high \in Seq(HighSlots) /\ Ordered(q.high)
    BY SoundFacts, MainTrackAssumption DEF InOrder
  <1> HIDE DEF p
  <1>4. PICK kept \in Seq(HighSlots) : /\ \E e : Embeds(e, kept, q.high, Spared(q, l))
                                       /\ R.high = <<n>> \o kept /\ R.low = q.low
    <2>1. R.low = q.low /\ EstopQueued(q, R, p, EstopRepeats, l)
      BY <1>2, <1>3, EstopScheduled
    <2>2. QED
      BY <2>1 DEF EstopQueued
  <1>5. PICK e : Embeds(e, kept, q.high, Spared(q, l))
    BY <1>4
  <1> DEFINE w == <<n>> \o kept
  <1>6. /\ Ordered(w)
        /\ \A k \in Locos : \A heard :
              Outcome(w, "speed", k, heard) =
                 IF l \in {0, k} THEN ESTOP ELSE Outcome(q.high, "speed", k, heard)
        /\ \A a, u : Switches(q.high, a, u) => Switches(w, a, u)
    BY <1>3, <1>5, EstopOrdered DEF p
  <1>7. q'.high = w /\ q'.low = q.low
    BY <1>1, <1>4
  <1>8. \A k \in Locos : cmd'.speed[k] = IF l \in {0, k} THEN ESTOP ELSE cmd.speed[k]
    <2>1. cmd'.speed = sp
      <3> HIDE DEF sp
      <3>1. QED
        BY <1>1, <1>3 DEF Cmds
    <2>2. QED
      BY <2>1
  <1> HIDE DEF w
  <1>9. NewestSpeedWins'
    <2>1. NewestSpeedWins
      BY DEF InOrder
    <2>2. \A k \in Locos : Outcome(w, "speed", k, rails.speed[k]) = cmd'.speed[k]
      BY <1>6, <1>8, <2>1 DEF NewestSpeedWins
    <2>3. QED
      BY <1>1, <1>7, <2>2 DEF NewestSpeedWins
  <1>10. QED
    BY <1>1, <1>6, <1>7, <1>9, OrderKept

\* A slot more, or another function packet, leaves the coil-on packets where they are.
LEMMA SwitchesAppend ==
  ASSUME NEW S, NEW s \in Seq(S), NEW x \in S, NEW a, NEW v, Switches(s, a, v)
  PROVE  Switches(Append(s, x), a, v)
  <1> DEFINE w == Append(s, x)
  <1>1. Len(w) = Len(s) + 1 /\ \A j \in 1 .. Len(s) : w[j] = s[j]
    BY AppendProperties
  <1>2. PICK j \in 1 .. Len(s) : s[j].packet = Packet(a, "acc", v)
    BY DEF Switches
  <1>3. Len(s) \in Nat
    BY LenProperties
  <1> HIDE DEF w
  <1>4. j \in 1 .. Len(w) /\ w[j].packet = Packet(a, "acc", v)
    BY <1>1, <1>2, <1>3
  <1>5. QED
    BY <1>4 DEF Switches, w

\* A function packet does not touch the coils.
LEMMA FunctionOrder ==
  ASSUME Sound, Sound', InOrder, NEW l \in Locos, NEW g \in Groups, NEW v \in {ON, OFF},
         FunctionCommand(l, g, v)
  PROVE  InOrder'
  <1> DEFINE p == Packet(l, FnKind(g), v)
             R == scheduleDCCFunctionPacket(q, p, l, g)
  <1>1. q' = R /\ rails' = rails /\ cmd' = [cmd EXCEPT !.fn[l][g] = v]
    BY DEF FunctionCommand, Schedule
  <1>2. p \in Packets /\ l \in Nat /\ p.kind = FnKind(g)
    BY Groups5, MainTrackAssumption DEF Packet, Packets, Vals
  <1>3. q \in Queues /\ NoLeak(q) /\ cmd \in Cmds /\ q.low \in Seq(LowSlots) /\ LowSound(q.low)
    BY SoundFacts DEF Sound
  <1> HIDE DEF p
  <1>4. /\ R.high = q.high
        /\ \/ \E i \in 1 .. Len(q.low) :
                 /\ locoId(q.low[i]) = l /\ q.low[i].type = FnType(g)
                 /\ R.low = replacePacket(q.low, i, p, 0)
           \/ R.low = Append(q.low, Slot(FnType(g), p, 0, l))
    BY <1>2, <1>3, FunctionScheduled
  <1> HIDE DEF R
  <1> DEFINE w == R.low
  <1>5. ASSUME NEW a \in Accs, Switches(q.low, a, ON) PROVE Switches(w, a, ON)
    <2>1. ASSUME NEW i \in 1 .. Len(q.low), q.low[i].type = FnType(g),
                 w = replacePacket(q.low, i, p, 0)
          PROVE  Switches(w, a, ON)
      <3> DEFINE n == Slot(q.low[i].type, p, 0, q.low[i].union)
      <3>1. q.low[i] \in LowSlots /\ LowSlots \subseteq Slots
        BY <1>3, ElementOfSeq DEF LowSlots
      <3>2. n \in LowSlots
        BY <1>2, <3>1 DEF LowSlots, Slots, Slot
      <3> HIDE DEF n
      <3>3. Len(w) = Len(q.low) /\ \A j \in 1 .. Len(q.low) : j # i => w[j] = q.low[j]
        <4>1. \A j \in 1 .. Len(q.low) : replacePacket(q.low, i, p, 0)[j] = IF j = i THEN n ELSE q.low[j]
          BY <1>3, <3>1, <3>2, ReplaceElements DEF n
        <4>2. Len(replacePacket(q.low, i, p, 0)) = Len(q.low)
          BY <1>3, <3>1, <3>2, ReplaceElements DEF n
        <4>3. QED
          BY <2>1, <4>1, <4>2
      <3>4. PICK j \in 1 .. Len(q.low) : q.low[j].packet = Packet(a, "acc", ON)
        BY <1>5 DEF Switches
      <3>5. j # i
        <4>1. Carries(q.low[j], "acc", a)
          BY <3>4 DEF Carries, Reaches, Packet
        <4>2. q.low[j].type = "ACC_ON"
          BY <1>3, <4>1, LowKinds DEF LowSound
        <4>3. FnType(g) # "ACC_ON"
          BY Groups5
        <4>4. QED
          BY <2>1, <4>2, <4>3
      <3> HIDE DEF w
      <3>6. QED
        BY <3>3, <3>4, <3>5 DEF Switches
    <2>2. CASE w = Append(q.low, Slot(FnType(g), p, 0, l))
      <3>1. Slot(FnType(g), p, 0, l) \in LowSlots
        <4>1. FnType(g) \in Types \ {"SPEED", "ACC_OFF"}
          BY Groups5
        <4>2. QED
          BY <1>2, <4>1 DEF LowSlots, Slots, Slot
      <3>2. QED
        BY <1>3, <1>5, <2>2, <3>1, SwitchesAppend
    <2>3. QED
      BY <1>4, <2>1, <2>2
  <1>6. q'.high = q.high /\ q'.low = w
    BY <1>1, <1>4
  <1>7. cmd'.speed = cmd.speed
    BY <1>1, <1>3 DEF Cmds
  <1> HIDE DEF w
  <1>8. QED
    BY <1>1, <1>5, <1>6, <1>7, OrderUntouched

\* A command that adds a slot to the low priority queue.
LEMMA AddOrder ==
  ASSUME Sound, Sound', InOrder, rails' = rails, cmd'.speed = cmd.speed,
         NEW x \in LowSlots, q' = [getSlot(q) EXCEPT !.low = addQueue(@, x)]
  PROVE  InOrder'
  <1>1. q \in Queues /\ NoLeak(q) /\ q.low \in Seq(LowSlots)
    BY SoundFacts
  <1>2. q'.high = q.high /\ q'.low = Append(q.low, x)
    BY <1>1, AddLow
  <1>3. \A a \in Accs : Switches(q.low, a, ON) => Switches(q'.low, a, ON)
    BY <1>1, <1>2, SwitchesAppend
  <1>4. QED
    BY <1>2, <1>3, OrderUntouched

\* A slot taken out of a queue takes its own packet with it.
LEMMA SwitchesRemove ==
  ASSUME NEW S, NEW s \in Seq(S), NEW i \in 1 .. Len(s), NEW a, NEW v,
         Switches(s, a, v), s[i].packet # Packet(a, "acc", v)
  PROVE  Switches(RemoveAt(s, i), a, v)
  <1> DEFINE w == RemoveAt(s, i)
  <1>1. PICK e : Embeds(e, w, s, (1 .. Len(s)) \ {i})
    BY RemoveAtEmbeds
  <1>2. PICK k \in 1 .. Len(s) : s[k].packet = Packet(a, "acc", v)
    BY DEF Switches
  <1>3. k \in (1 .. Len(s)) \ {i}
    BY <1>2
  <1> HIDE DEF w
  <1>4. PICK j \in 1 .. Len(w) : e[j] = k
    BY <1>1, <1>3 DEF Embeds
  <1>5. w[j].packet = Packet(a, "acc", v)
    BY <1>1, <1>2, <1>4 DEF Embeds
  <1>6. QED
    BY <1>5 DEF Switches, w

\* Sending from the low priority queue changes no speed; the coil it energises is owed its
\* switch-off, and those that were owed one still are.
LEMMA LowSentOrder ==
  ASSUME NEW Q \in Queues, NEW R \in Queues, NEW p, NEW t \in Nat,
         LowSound(Q.low), Ordered(Q.high), SentLow(Q, R, p, t)
  PROVE  /\ Ordered(R.high) /\ p.kind # "speed"
         /\ \A l \in Locos : \A heard : Outcome(R.high, "speed", l, heard) = Outcome(Q.high, "speed", l, heard)
         /\ \A a \in Accs : \/ Carries([packet |-> p], "acc", a)
                            \/ Switches(Q.high, a, OFF) \/ Switches(Q.low, a, ON)
                            => Switches(R.high, a, OFF) \/ Switches(R.low, a, ON)
  <1> DEFINE s == Q.low
             h == Q.high
             w == R.low
             g == R.high
  <1>1. s \in Seq(LowSlots) /\ h \in Seq(HighSlots) /\ LowSound(s) /\ Ordered(h) /\ g \in Seq(HighSlots)
    BY DEF Queues
  <1>2. PICK i \in 1 .. Len(s) :
            /\ p = s[i].packet
            /\ \/ g = h /\ s[i].repeats > 0 /\ w = Repeating(s, i)
               \/ /\ s[i].type = "ACC_ON" /\ w = RemoveAt(s, i)
                  /\ g = <<Off(s[i], t)>> \o h
               \/ g = h /\ s[i].type # "ACC_ON" /\ w = RemoveAt(s, i)
    BY DEF SentLow
  <1> HIDE DEF s, h, w, g
  <1>3. s[i] \in LowSlots /\ LowRight(s[i])
    BY <1>1, ElementOfSeq DEF LowSound
  <1>4. p.kind # "speed"
    BY <1>2, <1>3, LowKinds
  <1>5. ASSUME NEW a \in Accs, Carries([packet |-> p], "acc", a)
        PROVE  s[i].type = "ACC_ON" /\ s[i].packet = Packet(a, "acc", ON)
    <2>1. Carries(s[i], "acc", a)
      BY <1>2, <1>5 DEF Carries
    <2>2. QED
      BY <1>3, <2>1, LowKinds
  <1> DEFINE Good == /\ Ordered(g)
                     /\ \A l \in Locos : \A heard : Outcome(g, "speed", l, heard) = Outcome(h, "speed", l, heard)
                     /\ \A a \in Accs : \/ Carries([packet |-> p], "acc", a)
                                        \/ Switches(h, a, OFF) \/ Switches(s, a, ON)
                                        => Switches(g, a, OFF) \/ Switches(w, a, ON)
  <1>6. ASSUME g = h /\ s[i].repeats > 0 /\ w = Repeating(s, i) PROVE Good
    <2>2. Len(w) = Len(s) /\ \A j \in 1 .. Len(s) : w[j].packet = s[j].packet
      <3>1. SamePackets(w, s)
        BY <1>1, <1>6, RepeatingLow
      <3>2. QED
        BY <3>1 DEF SamePackets
    <2>3. \A a : Switches(s, a, ON) => Switches(w, a, ON)
      BY <2>2 DEF Switches
    <2>4. ASSUME NEW a \in Accs, Carries([packet |-> p], "acc", a) PROVE Switches(s, a, ON)
      BY <1>5, <2>4 DEF Switches
    <2>5. QED
      BY <1>1, <1>6, <2>3, <2>4
  <1>7. ASSUME s[i].type = "ACC_ON" /\ w = RemoveAt(s, i) /\ g = <<Off(s[i], t)>> \o h PROVE Good
    <2>1. PICK b \in Accs : s[i].packet = Packet(b, "acc", ON)
      BY <1>3, <1>7, LowKinds
    <2> DEFINE o == Off(s[i], t)
    <2>2. /\ o = Slot("ACC_OFF", Packet(b, "acc", OFF), s[i].repeats, (t + locoId(s[i])) % W32)
          /\ (t + locoId(s[i])) % W32 \in Nat
      <3>1. s[i] \in Slots /\ OFF \in Vals /\ s[i].packet.val \in Vals
        BY <1>3, <2>1 DEF LowSlots, Vals, Packet
      <3>2. s[i].packet.to = b /\ s[i].packet.kind = "acc"
        BY <2>1 DEF Packet
      <3>3. QED
        BY <1>7, <3>1, <3>2, OffSound
    <2>3. o.type = "ACC_OFF" /\ o.packet = Packet(b, "acc", OFF) /\ o \in HighSlots
      <3>1. Packet(b, "acc", OFF) \in Packets
        BY DEF Packet, Packets, Kinds, Vals
      <3>2. s[i].repeats \in Nat
        BY <1>3 DEF LowSlots, Slots
      <3> DEFINE u == (t + locoId(s[i])) % W32
      <3>3. u \in Nat /\ o = Slot("ACC_OFF", Packet(b, "acc", OFF), s[i].repeats, u)
        BY <2>2
      <3> HIDE DEF u, o
      <3>4. QED
        BY <3>1, <3>2, <3>3 DEF HighSlots, Slots, Slot, Types
    <2> HIDE DEF o
    <2>4. SpeedRight(o) /\ (\A y : Before(o, y)) /\ \A l : ~Carries(o, "speed", l)
      BY <2>3 DEF SpeedRight, Before, Carries, Packet
    <2>5. g = <<o>> \o h
      BY <1>7 DEF o
    <2>6. /\ Ordered(g)
          /\ \A a, v : Switches(h, a, v) => Switches(g, a, v)
          /\ Switches(g, b, OFF)
      BY <1>1, <2>3, <2>4, <2>5, OrderedCons
    <2>7. \A l \in Locos : \A heard : Outcome(g, "speed", l, heard) = Outcome(h, "speed", l, heard)
      BY <1>1, <2>3, <2>4, <2>5, OutcomeConsOther
    <2>8. ASSUME NEW a \in Accs, a # b, Switches(s, a, ON) PROVE Switches(w, a, ON)
      <3>1. s[i].packet # Packet(a, "acc", ON)
        BY <2>1, <2>8 DEF Packet
      <3>2. QED
        BY <1>1, <1>7, <2>8, <3>1, SwitchesRemove
    <2>9. ASSUME NEW a \in Accs, Carries([packet |-> p], "acc", a) PROVE a = b
      <3>1. Packet(a, "acc", ON) = Packet(b, "acc", ON)
        BY <1>5, <2>1, <2>9
      <3>2. Packet(a, "acc", ON).to = a /\ Packet(b, "acc", ON).to = b
        BY DEF Packet
      <3>3. QED
        BY <3>1, <3>2
    <2>10. QED
      BY <2>6, <2>7, <2>8, <2>9
  <1>8. ASSUME g = h /\ s[i].type # "ACC_ON" /\ w = RemoveAt(s, i) PROVE Good
    <2>1. ASSUME NEW a \in Accs, Switches(s, a, ON) PROVE Switches(w, a, ON)
      <3>1. s[i].packet # Packet(a, "acc", ON)
        <4>1. s[i].packet = Packet(a, "acc", ON) => Carries(s[i], "acc", a)
          BY DEF Carries, Reaches, Packet
        <4>2. QED
          BY <1>3, <1>8, <4>1, LowKinds
      <3>2. QED
        BY <1>1, <1>8, <2>1, <3>1, SwitchesRemove
    <2>2. QED
      BY <1>1, <1>5, <1>8, <2>1
  <1>9. Good
    BY <1>2, <1>6, <1>7, <1>8
  <1>10. QED
    BY <1>4, <1>9 DEF s, h, w, g

\* What each way to send a packet does to the order of the high priority queue.
LEMMA SentOrder ==
  ASSUME NEW Q \in Queues, NEW R \in Queues, NEW p, NEW t \in Nat,
         LowSound(Q.low), Ordered(Q.high), Sent(Q, R, p, t)
  PROVE  /\ Ordered(R.high)
         /\ \A l \in Locos : \A heard :
               Outcome(R.high, "speed", l, Told(p, "speed", l, heard)) = Outcome(Q.high, "speed", l, heard)
         /\ \A a \in Accs : \A heard :
               /\ Told(p, "acc", a, heard) = ON
               /\ heard = ON => Switches(Q.high, a, OFF) \/ Switches(Q.low, a, ON)
               => Switches(R.high, a, OFF) \/ Switches(R.low, a, ON)
  <1>1. CASE SentIdle(Q, R, p)
    <2>1. R.high = Q.high /\ R.low = Q.low /\ p.kind = "idle"
      BY <1>1 DEF SentIdle, IdlePacket, Packet
    <2>2. \A l, heard : Told(p, "speed", l, heard) = heard /\ Told(p, "acc", l, heard) = heard
      BY <2>1 DEF Told
    <2>3. QED
      BY <2>1, <2>2
  <1>2. CASE SentLow(Q, R, p, t)
    <2>1. /\ Ordered(R.high) /\ p.kind # "speed"
          /\ \A l \in Locos : \A heard : Outcome(R.high, "speed", l, heard) = Outcome(Q.high, "speed", l, heard)
          /\ \A a \in Accs : \/ Carries([packet |-> p], "acc", a)
                             \/ Switches(Q.high, a, OFF) \/ Switches(Q.low, a, ON)
                             => Switches(R.high, a, OFF) \/ Switches(R.low, a, ON)
      BY <1>2, LowSentOrder
    <2>2. \A l, heard : Told(p, "speed", l, heard) = heard
      BY <2>1 DEF Told
    <2>3. ASSUME NEW a \in Accs, NEW heard, ~Carries([packet |-> p], "acc", a)
          PROVE  Told(p, "acc", a, heard) = heard
      BY <2>3 DEF Told, Carries
    <2>4. QED
      BY <2>1, <2>2, <2>3
  <1>3. CASE SentHigh(Q, R, p, t)
    <2>1. /\ Ordered(R.high)
          /\ \A l \in Locos : \A heard :
                Outcome(R.high, "speed", l, Told(p, "speed", l, heard)) = Outcome(Q.high, "speed", l, heard)
          /\ \A a, u : Switches(Q.high, a, u) /\ p # Packet(a, "acc", u) => Switches(R.high, a, u)
      BY <1>3, HighSent
    <2>2. PICK i \in 1 .. Len(Q.high) : p = Q.high[i].packet /\ R.low = Q.low
      BY <1>3 DEF SentHigh
    <2>3. SpeedRight(Q.high[i])
      BY DEF Ordered
    <2>4. ASSUME NEW a \in Accs, NEW heard, Told(p, "acc", a, heard) = ON
          PROVE  heard = ON /\ p # Packet(a, "acc", OFF)
      <3>1. ON # OFF
        BY DEF ON, OFF
      <3>2. p = Packet(a, "acc", OFF) => Told(p, "acc", a, heard) = OFF
        BY DEF Packet, Told, Reaches
      <3>3. p.kind = "acc" => p.val = OFF
        <4>1. ASSUME NEW b, p = Packet(b, "acc", OFF) PROVE p.val = OFF
          BY <4>1 DEF Packet
        <4>2. QED
          BY <2>2, <2>3, <4>1 DEF SpeedRight
      <3>4. QED
        BY <2>4, <3>1, <3>2, <3>3 DEF Told
    <2>5. QED
      BY <2>1, <2>2, <2>4
  <1>4. QED
    BY <1>1, <1>2, <1>3 DEF Sent

\* A transmission preserves the order.
LEMMA TransmitOrder ==
  ASSUME Sound, Sound', InOrder, NEW force \in BOOLEAN, Transmit(force)
  PROVE  InOrder'
  <1>1. PICK p \in Packets :
            /\ q' \in Queues /\ Sent(q, q', p, now)
            /\ rails' = Hear(rails, p) /\ cmd' = cmd
    BY Transmission
  <1>2. /\ q \in Queues /\ now \in Nat /\ rails \in Heard /\ LowSound(q.low)
        /\ Ordered(q.high) /\ NewestSpeedWins /\ CoilOffOwed
    BY SoundFacts DEF Sound, InOrder
  <1>3. /\ \A l \in Locos : rails'.speed[l] = Told(p, "speed", l, rails.speed[l])
        /\ \A a \in Accs : rails'.coil[a] = Told(p, "acc", a, rails.coil[a])
    BY <1>1, <1>2, Hearing
  <1> DEFINE R == q'
  <1>4. R \in Queues /\ Sent(q, R, p, now)
    BY <1>1
  <1> HIDE DEF R
  <1>5. /\ Ordered(R.high)
        /\ \A l \in Locos : \A heard :
              Outcome(R.high, "speed", l, Told(p, "speed", l, heard)) = Outcome(q.high, "speed", l, heard)
        /\ \A a \in Accs : \A heard :
              /\ Told(p, "acc", a, heard) = ON
              /\ heard = ON => Switches(q.high, a, OFF) \/ Switches(q.low, a, ON)
              => Switches(R.high, a, OFF) \/ Switches(R.low, a, ON)
    BY <1>2, <1>4, SentOrder
  <1>6. NewestSpeedWins'
    <2>1. \A l \in Locos : Outcome(R.high, "speed", l, rails'.speed[l]) = cmd.speed[l]
      BY <1>2, <1>3, <1>5 DEF NewestSpeedWins
    <2>2. QED
      BY <1>1, <2>1 DEF NewestSpeedWins, R
  <1>7. CoilOffOwed'
    <2>1. \A a \in Accs : rails.coil[a] = ON => Switches(q.high, a, OFF) \/ Switches(q.low, a, ON)
      BY <1>2, OwedAs
    <2>2. \A a \in Accs : rails'.coil[a] = ON => Switches(R.high, a, OFF) \/ Switches(R.low, a, ON)
      BY <1>3, <1>5, <2>1
    <2>3. QED
      BY <1>4, <2>2, OwedAfter DEF R
  <1>8. QED
    BY <1>5, <1>6, <1>7 DEF InOrder, R

\* The commands that add a packet of type NORMAL and no speed;
LEMMA NormalOrder ==
  ASSUME Sound, Sound', InOrder, rails' = rails, cmd'.speed = cmd.speed,
         NEW p \in Packets, NEW r \in Nat, NEW l \in Nat, q' = scheduleDCCPacket(q, p, r, l)
  PROVE  InOrder'
  <1> DEFINE x == Slot("NORMAL", p, r, l)
  <1>1. q' = [getSlot(q) EXCEPT !.low = addQueue(@, x)] /\ x \in LowSlots
    BY NormalSlot
  <1> HIDE DEF x
  <1>2. QED
    BY <1>1, AddOrder

\* program-on-main packets,
LEMMA CvOrder ==
  ASSUME Sound, Sound', InOrder, NEW l \in Locos, CvCommand(l)
  PROVE  InOrder'
  <1> DEFINE p == Packet(l, "cv", Fresh)
  <1>1. p \in Packets /\ CvRepeats \in Nat /\ l \in Nat
    BY MainTrackAssumption DEF Packet, Packets, Kinds, Vals
  <1>2. q' = scheduleDCCPacket(q, p, CvRepeats, l) /\ cmd' = cmd /\ rails' = rails
    BY DEF CvCommand, Schedule
  <1> HIDE DEF p
  <1>3. QED
    BY <1>1, <1>2, NormalOrder

\* (a coil-on packet adds no speed either)
LEMMA PulseOrder ==
  ASSUME Sound, Sound', InOrder, NEW t \in AccCommands, AccessoryPulse(t)
  PROVE  InOrder'
  <1> DEFINE c == Coil(Accessory(t))
             p == Packet(c, "acc", ON)
             x == Slot("ACC_ON", p, AccRepeats, AccDelay)
  <1>1. c \in Accs
    BY UsersAssumption DEF AccessoryPulse
  <1>2. q' = scheduleAccOnOffPacket(q, p, AccRepeats, AccDelay) /\ cmd' = cmd /\ rails' = rails
    BY DEF AccessoryPulse, Schedule
  <1> HIDE DEF c
  <1>3. p \in Packets
    BY <1>1 DEF Packet, Packets, Kinds, Vals
  <1>4. q' = [getSlot(q) EXCEPT !.low = addQueue(@, x)]
    BY <1>2 DEF scheduleAccOnOffPacket
  <1> HIDE DEF p
  <1>5. x \in LowSlots
    BY <1>3, MainTrackAssumption DEF LowSlots, Slots, Slot, Types
  <1> HIDE DEF x
  <1>6. QED
    BY <1>2, <1>4, <1>5, AddOrder

\* on and off packets of their own,
LEMMA SetOrder ==
  ASSUME Sound, Sound', InOrder, NEW t \in AccCommands, AccessorySet(t)
  PROVE  InOrder'
  <1> DEFINE c == Coil(Accessory(t))
             v == IF Accessory(t).onoff = 1 THEN ON ELSE OFF
             p == Packet(c, "acc", v)
  <1>1. c \in Signals
    <2>1. Accepted(t) /\ Accessory(t).onoff # 2
      BY DEF AccessorySet
    <2>2. QED
      BY <2>1, UsersAssumption
  <1>2. /\ q' = scheduleDCCPacket(q, p, AccRepeats, 0) /\ rails' = rails
        /\ cmd' = [cmd EXCEPT !.coil[c] = v]
    BY DEF AccessorySet, Schedule
  <1>3. v \in Vals
    BY DEF Vals
  <1> HIDE DEF c, v
  <1>4. p \in Packets /\ AccRepeats \in Nat /\ 0 \in Nat
    BY <1>1, <1>3, MainTrackAssumption DEF Packet, Packets, Kinds
  <1>5. cmd'.speed = cmd.speed
    BY <1>2, SoundFacts DEF Cmds
  <1> HIDE DEF p
  <1>6. QED
    BY <1>2, <1>4, <1>5, NormalOrder

\* aspects,
LEMMA AspectOrder ==
  ASSUME Sound, Sound', InOrder, NEW h \in Heads, NEW v \in Aspects, ExtendedAccessory(h, v)
  PROVE  InOrder'
  <1> DEFINE p == Packet(h, "aspect", v)
  <1>1. /\ q' = scheduleDCCPacket(q, p, AccRepeats, 0) /\ rails' = rails
        /\ cmd' = [cmd EXCEPT !.aspect[h] = v] /\ v \in Nat
    BY DEF ExtendedAccessory, Schedule
  <1>2. p \in Packets /\ AccRepeats \in Nat /\ 0 \in Nat
    BY <1>1, MainTrackAssumption DEF Packet, Packets
  <1>3. cmd'.speed = cmd.speed
    BY <1>1, SoundFacts DEF Cmds
  <1> HIDE DEF p
  <1>4. QED
    BY <1>1, <1>2, <1>3, NormalOrder

\* and the time, unless it is refused.
LEMMA TimeOrder ==
  ASSUME Sound, Sound', InOrder, NEW m \in Times, NEW r \in ClockRates, setClockTime(m, r)
  PROVE  InOrder'
  <1>1. m \in Nat
    BY UsersAssumption
  <1>2. /\ rails' = rails /\ q' = setTime(m, r)
        /\ cmd' = [cmd EXCEPT !.lastclocktime = m, !.time = IF TimeRight(m, r) THEN m ELSE @]
    BY DEF setClockTime, Schedule
  <1>3. cmd'.speed = cmd.speed
    BY <1>2, SoundFacts DEF Cmds
  <1>4. CASE TimeRight(m, r)
    <2> DEFINE p == Packet(0, "time", m)
    <2>1. q' = scheduleDCCPacket(q, p, TimeRepeats, 0)
      BY <1>2, <1>4 DEF setTime
    <2>2. p \in Packets /\ TimeRepeats \in Nat /\ 0 \in Nat
      BY <1>1, MainTrackAssumption DEF Packet, Packets
    <2> HIDE DEF p
    <2>3. QED
      BY <1>2, <1>3, <2>1, <2>2, NormalOrder
  <1>5. CASE ~TimeRight(m, r)
    <2>1. q' = q
      BY <1>2, <1>5 DEF setTime
    <2>2. QED
      BY <1>2, <1>3, <2>1, OrderUntouched
  <1>6. QED
    BY <1>4, <1>5

\* The order holds initially,
LEMMA InitInOrder ==
  ASSUME QInit
  PROVE  InOrder
  <1>1. q = NoQueue /\ rails = Unheard /\ cmd.speed = Unheard.speed
    BY DEF QInit
  <1>2. q.high = <<>> /\ Len(q.high) = 0 /\ q.high \in Seq(HighSlots)
    BY <1>1 DEF NoQueue
  <1>3. Ordered(q.high)
    BY <1>2 DEF Ordered
  <1>4. \A l, heard : Outcome(q.high, "speed", l, heard) = heard
    <2>1. ASSUME NEW l, NEW heard PROVE Outcome(q.high, "speed", l, heard) = heard
      <3>1. \A j \in 1 .. Len(q.high) : ~Carries(q.high[j], "speed", l)
        BY <1>2
      <3>2. QED
        BY <1>2, <3>1, OutcomeOfNone
    <2>2. QED
      BY <2>1
  <1>5. NewestSpeedWins
    BY <1>1, <1>4 DEF NewestSpeedWins
  <1>6. CoilOffOwed
    <2>1. \A a \in Accs : rails.coil[a] = OFF
      BY <1>1 DEF Unheard
    <2>2. QED
      BY <2>1 DEF CoilOffOwed, ON, OFF
  <1>7. QED
    BY <1>3, <1>5, <1>6 DEF InOrder

\* and after every step.
LEMMA InOrderStep ==
  ASSUME Sound, Sound', InOrder, NoCollision, [QNext]_qvars
  PROVE  InOrder'
  <1>1. ASSUME NEW l \in Locos, NEW v \in Speeds, SpeedCommand(l, v) PROVE InOrder'
    BY <1>1, SpeedOrder
  <1>2. ASSUME NEW l \in Locos \cup {0}, EstopCommand(l) PROVE InOrder'
    BY <1>2, EstopOrder
  <1>3. ASSUME NEW l \in Locos, NEW g \in Groups, NEW v \in {ON, OFF}, FunctionCommand(l, g, v)
        PROVE  InOrder'
    BY <1>3, FunctionOrder
  <1>4. ASSUME NEW l \in Locos, CvCommand(l) PROVE InOrder'
    BY <1>4, CvOrder
  <1>5. ASSUME NEW t \in AccCommands, AccessoryPulse(t) \/ AccessorySet(t) PROVE InOrder'
    BY <1>5, PulseOrder, SetOrder
  <1>6. ASSUME NEW a \in Heads, NEW v \in Aspects, ExtendedAccessory(a, v) PROVE InOrder'
    BY <1>6, AspectOrder
  <1>7. ASSUME NEW m \in Times, NEW r \in ClockRates, setClockTime(m, r) PROVE InOrder'
    BY <1>7, TimeOrder
  <1>8. ASSUME NEW force \in BOOLEAN, Transmit(force) PROVE InOrder'
    BY <1>8, TransmitOrder
  <1>9. ASSUME Tick \/ UNCHANGED qvars PROVE InOrder'
    <2>1. q' = q /\ rails' = rails /\ cmd' = cmd
      BY <1>9 DEF Tick, qvars
    <2>2. QED
      BY <2>1, OrderUntouched
  <1>10. QED
    BY <1>1, <1>2, <1>3, <1>4, <1>5, <1>6, <1>7, <1>8, <1>9 DEF QNext

\* Every function group, signal and aspect, and the clock, ends up with its newest command.
THEOREM NewestWinsAlways == QSafety => [](NewestFunctionWins /\ NewestSignalWins)
  <1>1. Sound => NewestFunctionWins /\ NewestSignalWins
    BY DEF Sound
  <1>2. QED
    BY <1>1, SoundAlways, PTL

\* So does every loco's speed, and every energised coil is owed its switch-off, as long as
\* no coil-off slot reads as a packet to a loco.
THEOREM OutcomeRightAlways == QSafety /\ []NoCollision => []OutcomeRight
  <1>1. QInit => Sound /\ InOrder
    BY InitSound, InitInOrder
  <1>2. Sound /\ InOrder /\ NoCollision /\ [QNext]_qvars => Sound' /\ InOrder'
    BY SoundStep, InOrderStep
  <1>3. Sound /\ InOrder => OutcomeRight
    BY DEF Sound, InOrder, OutcomeRight
  <1>4. QED
    BY <1>1, <1>2, <1>3, PTL DEF QSafety
=============================================================================
