------------------------------ MODULE CabTable ------------------------------
(***************************************************************************)
(* What throttles and wired clients share: the table of locos, seen        *)
(* through DCC::setThrottle, setFn and forgetLoco, the broadcasts by which *)
(* every change reaches the other throttles, and the jobs of the           *)
(* programming track. Everything is an operator on a record s of the whole *)
(* state (module Throttles).                                               *)
(***************************************************************************)
EXTENDS Integers, Sequences, SequencesExt, Eager

CONSTANTS
    Cabs,         \* loco addresses
    MaxSlots,     \* MAX_LOCOS
    MaxMine       \* MAX_MY_LOCO


Stopped == [speed |-> 0, fwd |-> TRUE, fn |-> {}]
Unknown == [speed |-> -1, fwd |-> TRUE, fn |-> {}]
Known(s, c) == c \in DOMAIN s.tab

\* The loco as the getters report it.
State(s, c) == IF Known(s, c) THEN s.tab[c] ELSE Stopped

\* LocoSlot::getSlot(c, true).
HasRoom(s, c) == Known(s, c) \/ Len(SetToSeq(DOMAIN s.tab)) < MaxSlots
getSlot(s, c) ==
    IF Known(s, c) \/ ~HasRoom(s, c) THEN s
    ELSE [s EXCEPT !.tab = [k \in DOMAIN @ \cup {c} |-> IF k = c THEN Stopped ELSE @[k]]]

-----------------------------------------------------------------------------
\* Z21: the locos of a throttle, and what it is sent.

Free(z) == {i \in DOMAIN z.cabs : z.cabs[i] = 0}
Mine(z) == {z.cabs[i] : i \in DOMAIN z.cabs}
getOrAddLoco(z, c) ==
    IF c \in Mine(z) \/ Free(z) = {} THEN z
    ELSE [z EXCEPT !.cabs[CHOOSE i \in Free(z) : \A j \in Free(z) : i <= j] = c]

\* notifyLocoInfo of throttle k: it takes the loco in its list and in the table,
\* then writes to the address of its client; a throttle that has logged off has
\* none.
notifyLocoInfo(s, k, c) ==
    LET tell(t) == IF ~Known(t, c) THEN t
                   ELSE [t EXCEPT !.z21[k].told[c] = t.tab[c], !.stray = @ \/ t.z21[k].client = -1]
        take(z) == IF c \notin Mine(z) THEN s ELSE With(getSlot([s EXCEPT !.z21[k] = z], c), tell)
    IN With(getOrAddLoco(s.z21[k], c), take)

\* Z21EXCommItem::broadcastLoco.
broadcastZ21(s, c) ==
    LET tell(t, k) == IF t.z21[k].flag THEN notifyLocoInfo(t, k, c)
                      ELSE [t EXCEPT !.z21[k].told[c] = Unknown]
    IN Each(tell, s, Reverse([k \in DOMAIN s.z21 |-> k]))

-----------------------------------------------------------------------------
\* WiThrottle: the entries of the loco are marked; the next loop sends them.

MarkEntries(m, c) == [i \in DOMAIN m |-> IF m[i].cab = c THEN [m[i] EXCEPT !.pending = TRUE] ELSE m[i]]

\* Faulty variant: only the newest throttle is marked.
markFirst(s, c) ==
    IF s.wit = <<>> THEN s ELSE [s EXCEPT !.wit[1].mine = MarkEntries(@, c)]

markForBroadcast(s, c) ==
    [s EXCEPT !.wit = [i \in DOMAIN @ |-> [@[i] EXCEPT !.mine = MarkEntries(@, c)]]]

broadcastLoco(s, c) == With(broadcastZ21(s, c), LAMBDA t : markForBroadcast(t, c))

-----------------------------------------------------------------------------
setThrottle(s, c, speed, fwd) ==
    LET set(t) == IF ~Known(t, c) \/ (t.tab[c].speed = speed /\ t.tab[c].fwd = fwd) THEN t
                  ELSE broadcastLoco([t EXCEPT !.tab[c].speed = speed, !.tab[c].fwd = fwd], c)
    IN With(getSlot(s, c), set)

setFn(s, c, f, on) ==
    LET set(t) == IF ~Known(t, c) \/ (f \in t.tab[c].fn) = on THEN t
                  ELSE broadcastLoco([t EXCEPT !.tab[c].fn = IF on THEN @ \cup {f} ELSE @ \ {f}], c)
    IN With(getSlot(s, c), set)
changeFn(s, c, f) == IF Known(s, c) THEN setFn(s, c, f, f \notin s.tab[c].fn) ELSE s

\* forgetLoco, then its broadcast: the WiThrottles are not marked, and a Z21
\* throttle puts the loco back in the table.
forgetLoco(s, c) ==
    IF ~Known(s, c) THEN s
    ELSE broadcastZ21([s EXCEPT !.tab = [k \in DOMAIN @ \ {c} |-> @[k]], !.forgotten = @ \cup {c}], c)

\* estopAll: every loco in the table, in its direction.
estopAll(s) ==
    LET stop(t, c) == broadcastLoco([t EXCEPT !.tab[c].speed = 1], c)
    IN Each(stop, s, SetToSeq(DOMAIN s.tab))

-----------------------------------------------------------------------------
\* The programming track as the wired command items see it: one manager, which
\* keeps the callback of the last caller only. s.wire[who].cv is what that item
\* waits for (stateCV) and how it ended.

NoJob == [by |-> "", doing |-> ""]
Ready == <<"", "">>

\* The callback of the item: the value read or written, or a failure.
cvValueCallback(s, who, doing, ok) ==
    [s EXCEPT !.wire[who].cv = <<doing, IF ok THEN "ok" ELSE "failed">>]

\* DCCACK::Setup: without a programming track the callback is called at once;
\* a job that is running is forgotten, and its callback with it.
CvSetup(s, who, doing) ==
    IF ~s.wire.track THEN (IF who = "other" THEN s ELSE cvValueCallback(s, who, doing, FALSE))
    ELSE [s EXCEPT !.wire.job = [by |-> who, doing |-> doing]]

\* DCC::writeCVByte: the box takes the CVs that are its own, and calls nobody.
writeCVByte(s, who, boxCv) == IF boxCv THEN s ELSE CvSetup(s, who, "write")

\* The manager ends its job.
CvDone(s, ok) ==
    LET j == s.wire.job
        t == [s EXCEPT !.wire.job = NoJob]
    IN IF j.by = "other" THEN t ELSE cvValueCallback(t, j.by, j.doing, ok)

\* The item has asked, and waits: written after the call, whatever the call did.
Waits(s, who, doing) == [s EXCEPT !.wire[who].cv = <<doing, "waits">>]
=============================================================================
