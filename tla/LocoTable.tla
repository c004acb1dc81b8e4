----------------------------- MODULE LocoTable ------------------------------
(***************************************************************************)
(* The loco table under every command that changes its structure: locos    *)
(* appear when a throttle first names them, are forgotten one by one or    *)
(* all together, and are chained into consists and unchained again.        *)
(***************************************************************************)
EXTENDS LocoSlot, FiniteSets

CONSTANTS
    Locos,     \* loco addresses
    MaxList    \* the longest list of locos a command takes (MAX_COMMAND_PARAMS)

ASSUME LocosAssumption == Locos \subseteq Nat \ {0} /\ MaxList \in Nat

VARIABLES
    tb,       \* the statics of LocoSlot and the slots
    crashed   \* a null slot was dereferenced

tvars == <<tb, crashed>>

TInit == tb = EmptyTable /\ crashed = FALSE

\* A throttle, function or momentum command names a loco.
Touch(l) == ~crashed /\ tb' = getSlot(tb, l).t /\ UNCHANGED crashed

\* DCC::forgetLoco, as far as the table goes.
Forget(l) ==
    LET o == findSlot(tb, l)
        unchained == IF inConsist(tb, o) THEN deleteAnyConsist(tb, l) ELSE tb
    IN  /\ ~crashed /\ o # Null
        /\ tb' = forget(unchained, o)
        /\ UNCHANGED crashed

ForgetAll == ~crashed /\ tb' = forgetAll(tb) /\ UNCHANGED crashed

\* Lists of different locos, each in either direction.
Params == {p \in UNION {[1..n -> Locos \cup {-l : l \in Locos}] : n \in 1..MaxList} :
              \A i, j \in DOMAIN p : Abs(p[i]) = Abs(p[j]) => i = j}

ConsistCommand(p) ==
    \E r \in {parse(tb, p)} :
        ~crashed /\ tb' = r.t /\ crashed' = r.crash

BuildConsist(consistId, l, reversed) ==
    /\ ~crashed
    /\ tb' = addLocoToConsist(tb, consistId, l, reversed)
    /\ UNCHANGED crashed

BreakConsist(l) == ~crashed /\ tb' = deleteAnyConsist(tb, l) /\ UNCHANGED crashed

\* DCC::issueReminders starts again from the head of the list.
SeeChain == ~crashed /\ tb' = [tb EXCEPT !.chainModified = FALSE] /\ UNCHANGED crashed

TNext ==
    \/ \E l \in Locos : Touch(l) \/ Forget(l) \/ BreakConsist(l)
    \/ \E l, k \in Locos, r \in BOOLEAN : BuildConsist(l, k, r)
    \/ \E p \in Params : ConsistCommand(p)
    \/ ForgetAll \/ SeeChain

TSpec == TInit /\ [][TNext]_tvars

-----------------------------------------------------------------------------
(* Properties.                                                             *)

InChain == Range(tb.chain)

\* Slots are where their class says they can be.
TTypeOK ==
    /\ tb.chain \in Seq(Objs) /\ tb.recycler \in Seq(Objs)
    /\ tb.count \in 0..MAX_LOCOS
    /\ \A o \in Objs : /\ tb.slot[o].loco \in Locos \cup {0}
                        /\ tb.slot[o].consistLead \in Objs \cup {Null}
                        /\ tb.slot[o].consistNext \in Objs \cup {Null}
    /\ crashed \in BOOLEAN

\* Every allocated slot is on exactly one of the two lists, once, and no
\* loco has two slots: reuse through the recycler neither leaks a slot nor
\* leaves it reachable from both lists.
ListsSound ==
    /\ IsInjective(tb.chain \o tb.recycler)
    /\ Range(tb.chain \o tb.recycler) = 1..tb.count
    /\ \A o, x \in InChain : tb.slot[o].loco = tb.slot[x].loco => o = x

\* Consists are proper chains of live slots: a follower's lead is a live
\* lead that reaches it, a lead's chain ends and holds only its own
\* followers, and a slot outside any consist is not marked reversed.
\* Forgetting any member, rebuilding and reusing slots must all keep this.
ConsistsSound ==
    \A o \in InChain :
        /\ isConsistFollower(tb, o) =>
              LET lead == tb.slot[o].consistLead
              IN  lead \in InChain /\ isConsistLead(tb, lead)
                  /\ o \in Range(Members(tb, lead))
        /\ isConsistLead(tb, o) =>
              LET ms == Members(tb, o)
              IN  /\ IsInjective(ms) /\ Range(ms) \subseteq InChain
                  /\ tb.slot[Last(ms)].consistNext = Null
                  /\ \A i \in 2..Len(ms) : tb.slot[ms[i]].consistLead = o
        /\ ~inConsist(tb, o) => ~tb.slot[o].consistReverse

\* getSlot gives no slot for a loco only when each of the MAX_LOCOS slots holds
\* another one.  Its callers test for that, but for the consist command, which
\* goes on with the null slot: no sequence of reuse and forgetting brings it
\* there while a slot is free, recycled or not yet allocated.
NullOnlyWhenFull == crashed => InChain = Objs

\* A loco changes consist only by leaving one: no step moves a follower
\* straight from one lead to another.
NoConsistStolen ==
    [][\A l \in Locos :
          LET o == findSlot(tb, l)
              o2 == findSlot(tb', l)
          IN  (/\ o # Null /\ isConsistFollower(tb, o)
               /\ o2 # Null /\ isConsistFollower(tb', o2))
              => tb.slot[tb.slot[o].consistLead].loco
                   = tb'.slot[tb'.slot[o2].consistLead].loco]_tvars

\* The table stays sound through creation, reuse, consists and forgetting, until
\* a consist command finds it full; the lists are sound even then.
TableSound ==
    /\ TTypeOK /\ ListsSound /\ NullOnlyWhenFull
    /\ ~crashed => ConsistsSound
=============================================================================
