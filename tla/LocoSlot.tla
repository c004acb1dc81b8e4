------------------------------ MODULE LocoSlot ------------------------------
(***************************************************************************)
(* The table of locos the command station drives (LocoSlot.cpp/.h) and the *)
(* consists built in it (DCCConsist.cpp).  Slots are heap objects on a     *)
(* linked list; forgotten ones go to a recycler list and are reused, so    *)
(* they are modelled by identity and not by loco address.                  *)
(*                                                                         *)
(* The table is a record; the class's functions are operators on it.       *)
(***************************************************************************)
EXTENDS Integers, Sequences, SequencesExt

CONSTANTS
    MAX_LOCOS,  \* size limit of the table
    HALF,       \* 128: a speed code is speed + HALF * direction
    Groups      \* function groups, a subset of 1..5

ASSUME TableAssumption == MAX_LOCOS \in Nat \ {0} /\ HALF \in Nat /\ HALF > 2

Objs == 1..MAX_LOCOS
Null == 0
Codes == 0..(2 * HALF - 1)
Stopped == HALF          \* speed 0, forward
Speed(code) == code % HALF
SameDirection(code, speed) == (code \div HALF) * HALF + speed
Reversed(code) == (code + HALF) % (2 * HALF)

\* A slot as prepare leaves it.
FreshSlot(loco) ==
    [loco |-> loco, speedCode |-> Stopped, targetSpeed |-> Stopped,
     savedSpeedCode |-> 0, groupFlags |-> {}, functions |-> [g \in Groups |-> "off"],
     consistLead |-> Null, consistNext |-> Null, consistReverse |-> FALSE]

\* slot[o]: the object; chain: the list, newest first; recycler: the list of
\* forgotten objects; count: objects allocated.
EmptyTable == [slot |-> [o \in Objs |-> FreshSlot(0)], chain |-> <<>>,
               recycler |-> <<>>, count |-> 0, chainModified |-> FALSE]

prepare(T, o, loco) ==
    [T EXCEPT !.slot[o] = FreshSlot(loco), !.chain = <<o>> \o @,
              !.chainModified = TRUE]

\* The object that holds the loco, or Null.
findSlot(T, loco) ==
    LET found == {i \in DOMAIN T.chain : T.slot[T.chain[i]].loco = loco}
    IN  IF found = {} THEN Null ELSE T.chain[CHOOSE i \in found : \A j \in found : i <= j]

\* getSlot(loco, true): the table afterwards and the object, Null when the
\* table is full (or the loco is 0).
getSlot(T, loco) ==
    LET o == findSlot(T, loco)
        fresh == T.count + 1
    IN  CASE loco = 0 \/ o # Null -> [t |-> T, obj |-> o]
          [] loco # 0 /\ o = Null /\ T.recycler # <<>> ->
               [t |-> prepare([T EXCEPT !.recycler = Tail(@)], Head(T.recycler), loco),
                obj |-> Head(T.recycler)]
          [] loco # 0 /\ o = Null /\ T.recycler = <<>> /\ T.count < MAX_LOCOS ->
               [t |-> prepare([T EXCEPT !.count = fresh], fresh, loco), obj |-> fresh]
          [] OTHER -> [t |-> T, obj |-> Null]

forget(T, o) ==
    [T EXCEPT !.chain = RemoveFirst(@, o),
              !.recycler = <<o>> \o @, !.chainModified = TRUE]

\* Every object is deleted, those in the recycler too.
forgetAll(T) == [EmptyTable EXCEPT !.chainModified = TRUE]

isConsistLead(T, o) == T.slot[o].consistNext # Null /\ T.slot[o].consistLead = Null
isConsistFollower(T, o) == T.slot[o].consistLead # Null
inConsist(T, o) == isConsistLead(T, o) \/ isConsistFollower(T, o)

Abs(n) == IF n < 0 THEN -n ELSE n

\* The end of a walk along consistLead.
Lead(T, o) ==
    LET walk[k \in 0..MAX_LOCOS] ==
            IF k = 0 THEN o
            ELSE IF T.slot[walk[k - 1]].consistLead = Null THEN walk[k - 1]
            ELSE T.slot[walk[k - 1]].consistLead
    IN  walk[MAX_LOCOS]

\* The objects from o on, along consistNext.
Members(T, o) ==
    LET walk[k \in 0..MAX_LOCOS] ==
            IF k = 0 THEN <<o>>
            ELSE LET next == T.slot[Last(walk[k - 1])].consistNext
                 IN  IF next = Null THEN walk[k - 1] ELSE Append(walk[k - 1], next)
    IN  walk[MAX_LOCOS]

-----------------------------------------------------------------------------
(* DCCConsist.                                                             *)

\* Faulty variant: only the slot that is named is unchained.
deleteOnlyThis(T, loco) ==
    LET o == findSlot(T, loco)
    IN  IF o = Null THEN T
        ELSE [T EXCEPT !.slot[o].consistLead = Null, !.slot[o].consistNext = Null,
                       !.slot[o].consistReverse = FALSE]

\* Any member names the consist; all its members are unchained.
deleteAnyConsist(T, loco) ==
    LET o == findSlot(T, loco)
        lead == IF isConsistLead(T, o) THEN o ELSE T.slot[o].consistLead
        members == Range(Members(T, lead))
    IN  IF o = Null THEN T
        ELSE IF lead = Null THEN T
        ELSE [T EXCEPT !.slot = [x \in Objs |->
                IF x \in members
                THEN [@[x] EXCEPT !.consistLead = Null, !.consistNext = Null,
                                  !.consistReverse = FALSE]
                ELSE @[x]]]

\* One more loco behind the last one, acc.prev, of the consist that is being built.
\* A null slot is used when the table is full.
linkOne(acc, lead, id) ==
    LET got == getSlot(acc.t, Abs(id))
        o == got.obj
    IN  IF acc.crash THEN acc
        ELSE IF o = Null THEN [acc EXCEPT !.crash = TRUE]
        ELSE [t |-> [got.t EXCEPT !.slot[o].consistLead = lead,
                                  !.slot[o].consistReverse = id < 0,
                                  !.slot[acc.prev].consistNext = o],
              prev |-> o, crash |-> FALSE]

\* All locos of p behind the first.
linkAll(start, lead, p) ==
    LET built[k \in 0 .. Len(p) - 1] ==
            IF k = 0 THEN start ELSE linkOne(built[k - 1], lead, p[k + 1])
    IN  built[Len(p) - 1]

\* `<^ p0 p1 ...>`: p is a sequence of loco addresses, negative when the
\* loco is reversed; ids are in range and different.  The result says whether
\* the command succeeded and whether it used a null slot.
parse(T, p) ==
    LET first == findSlot(T, Abs(p[1]))
        T1 == IF first # Null /\ isConsistLead(T, first)
              THEN deleteAnyConsist(T, Abs(p[1])) ELSE T
        taken == \E i \in DOMAIN p : LET o == findSlot(T1, Abs(p[i]))
                                     IN  o # Null /\ inConsist(T1, o)
        gotLead == getSlot(T1, Abs(p[1]))
        lead == gotLead.obj
        start == [t |-> [gotLead.t EXCEPT !.slot[lead].consistReverse = p[1] < 0],
                  prev |-> lead, crash |-> FALSE]
        built == linkAll(start, lead, p)
    IN  CASE Len(p) < 2 -> [t |-> T1, ok |-> TRUE, crash |-> FALSE]
          [] Len(p) >= 2 /\ taken -> [t |-> T1, ok |-> FALSE, crash |-> FALSE]
          [] Len(p) >= 2 /\ ~taken /\ lead = Null ->
                [t |-> gotLead.t, ok |-> FALSE, crash |-> TRUE]
          [] OTHER -> [t |-> built.t, ok |-> ~built.crash, crash |-> built.crash]

\* Faulty variant: a loco of another consist is taken over.
addLocoUnchecked(T, consistId, loco, reversed) ==
    LET T1 == getSlot(T, consistId).t
        named == getSlot(T, consistId).obj
        tail == Last(Members(T1, named))
        T2 == getSlot(T1, loco).t
        add == getSlot(T1, loco).obj
    IN  IF Null \in {named, add} \/ loco = consistId THEN T2
        ELSE [T2 EXCEPT !.slot[add].consistReverse = reversed,
                        !.slot[add].consistLead = named,
                        !.slot[tail].consistNext = add]

\* EXRAIL's BUILD_CONSIST: the loco joins the consist of consistId.
addLocoToConsist(T, consistId, loco, reversed) ==
    LET got1 == getSlot(T, consistId)
        named == got1.obj
        lead == Lead(got1.t, named)
        tail == Last(Members(got1.t, lead))
        got2 == getSlot(got1.t, loco)
        add == got2.obj
    IN  CASE loco = consistId -> T
          [] loco # consistId /\ named = Null -> got1.t
          [] loco # consistId /\ named # Null /\ (add = Null \/ inConsist(got2.t, add)) ->
                got2.t
          [] OTHER ->
                [got2.t EXCEPT !.slot[add].consistReverse = reversed,
                               !.slot[add].consistLead = IF add # lead THEN lead ELSE @,
                               !.slot[tail].consistNext = IF tail # add THEN add ELSE @]
=============================================================================
