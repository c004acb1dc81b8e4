---------------------------- MODULE AckPrograms -----------------------------
(***************************************************************************)
(* The programs the ACK manager interprets (DCC.cpp), as sequences of      *)
(* instructions. An instruction is a tuple: its opcode and, for SETCV,     *)
(* SETBIT and SETBYTE, the operand the code keeps in the next program byte.*)
(***************************************************************************)
EXTENDS Integers, Sequences

\* Instructions without an operand.
Ops(names) == [i \in DOMAIN names |-> <<names[i]>>]

SETCV(cv) == <<<<"SETCV", cv>>>>
SETBIT(n) == <<<<"SETBIT", n>>>>
SETBYTE(b) == <<<<"SETBYTE", b>>>>
SKIPTARGET == Ops(<<"SKIPTARGET">>)

\* V0, WACK, MERGE, n times over.
ReadBits(n) == [i \in 1 .. 3 * n |-> <<<<"V0", "WACK", "MERGE">>[((i - 1) % 3) + 1]>>]

\* STARTMERGE and the eight bits of a CV, verified as a byte at the end.
ReadByte == Ops(<<"STARTMERGE">>) \o ReadBits(8) \o Ops(<<"VB", "WACK">>)

\* Bit 7 is also tested for 1, so a missing decoder fails after two tests.
ReadByteOrFail(last) ==
    Ops(<<"STARTMERGE", "V0", "WACK", "MERGE", "ITSKIP">>) \o SETBIT(7)
    \o Ops(<<"V1", "WACK", "NAKFAIL">>) \o SETBIT(6) \o SKIPTARGET
    \o ReadBits(7) \o Ops(<<"VB", "WACK", last, "CALLFAIL">>)

WRITE_BIT0_PROG == Ops(<<"BASELINE", "W0", "WACK", "V0", "WACK", "ITC1", "CALLFAIL">>)
WRITE_BIT1_PROG == Ops(<<"BASELINE", "W1", "WACK", "V1", "WACK", "ITC1", "CALLFAIL">>)
VERIFY_BIT0_PROG ==
    Ops(<<"BASELINE", "V0", "WACK", "ITC0", "V1", "WACK", "ITC1", "CALLFAIL">>)
VERIFY_BIT1_PROG ==
    Ops(<<"BASELINE", "V1", "WACK", "ITC1", "V0", "WACK", "ITC0", "CALLFAIL">>)
READ_BIT_PROG == VERIFY_BIT1_PROG

WRITE_BYTE_PROG ==
    Ops(<<"BASELINE", "WB", "WACK", "ITC1", "VB", "WACK", "ITC1", "CALLFAIL">>)

VERIFY_BYTE_PROG ==
    Ops(<<"BASELINE", "BIV", "VB", "WACK", "ITCB">>) \o ReadByteOrFail("ITCBV")

\* Faulty variant: the merged byte is not verified before it is returned.
READ_CV_UNVERIFIED ==
    Ops(<<"BASELINE", "STARTMERGE">>) \o ReadBits(8) \o Ops(<<"ITCB", "CALLFAIL">>)

READ_CV_PROG == Ops(<<"BASELINE">>) \o ReadByteOrFail("ITCB")

\* CV 20 (and then CV 19): the extended consist address, unless CV 20 is zero,
\* unreadable or above 120.
ExtendedConsist ==
    SETCV(20) \o SETBYTE(0) \o Ops(<<"VB", "WACK", "ITSKIP">>)
    \o ReadByte \o Ops(<<"NAKSKIP", "BAD20SKIP", "STASHLOCOID">>)
    \o SETCV(19) \o ReadByte \o Ops(<<"NAKFAIL", "COMBINE1920">>)
    \o SKIPTARGET

\* CV 19, unless it is 0 or 128: none is what follows in those cases.
ShortConsist(none) ==
    SETCV(19) \o SETBYTE(0) \o Ops(<<"VB", "WACK", none>>)
    \o SETBYTE(128) \o Ops(<<"VB", "WACK", none>>)
    \o ReadByte \o Ops(<<"ITCB7">>)

LOCO_READ_ID_PROG ==
    Ops(<<"BASELINE">>) \o SETCV(29) \o SETBIT(5) \o Ops(<<"V0", "WACK", "ITSKIP">>)
    \o SETCV(17) \o ReadByte \o Ops(<<"NAKFAIL", "STASHLOCOID">>)
    \o SETCV(18) \o ReadByte \o Ops(<<"NAKFAIL", "COMBINELOCOID">>)
    \o SKIPTARGET \o SETCV(1) \o Ops(<<"STARTMERGE">>) \o SETBIT(6) \o ReadBits(7)
    \o Ops(<<"VB", "WACK", "ITCB", "CALLFAIL">>)

LOCO_DRIVEAWAY_PROG ==
    Ops(<<"BASELINE">>) \o ExtendedConsist \o ShortConsist("ITSKIP")
    \o SKIPTARGET \o Tail(LOCO_READ_ID_PROG)

LOCO_READ_CONSIST_PROG ==
    Ops(<<"BASELINE">>) \o ExtendedConsist \o ShortConsist("ITC0") \o Ops(<<"CALLFAIL">>)

\* Both address programs first clear the consist CVs, acknowledged or not.
ClearConsist ==
    SETCV(20) \o SETBYTE(0) \o Ops(<<"WB", "WACK">>)
    \o SETCV(19) \o SETBYTE(0) \o Ops(<<"WB", "WACK">>)

\* Write and callback(1) if acknowledged, else verify.
WriteLast == Ops(<<"WB", "WACK", "ITC1", "VB", "WACK", "ITC1", "CALLFAIL">>)

SHORT_LOCO_ID_PROG ==
    Ops(<<"BASELINE">>) \o ClearConsist
    \o SETCV(29) \o SETBIT(5) \o Ops(<<"W0", "WACK", "V0", "WACK", "NAKFAIL">>)
    \o SETCV(1) \o Ops(<<"SETBYTEL">>) \o WriteLast

CONSIST_ID_PROG ==
    Ops(<<"BASELINE">>) \o SETCV(20)
    \o Ops(<<"SETBYTEH", "WB", "WACK", "ITSKIP", "FAIL_IF_NONZERO_NAK">>)
    \o SKIPTARGET \o SETCV(19) \o Ops(<<"SETBYTEL">>) \o WriteLast

LONG_LOCO_ID_PROG ==
    Ops(<<"BASELINE">>) \o ClearConsist
    \o SETCV(29) \o SETBIT(5) \o Ops(<<"W1", "WACK", "V1", "WACK", "NAKFAIL">>)
    \o SETCV(17)
    \o Ops(<<"SETBYTEH", "WB", "WACK", "ITSKIP", "VB", "WACK", "ITSKIP", "CALLFAIL">>)
    \o SKIPTARGET \o SETCV(18) \o Ops(<<"SETBYTEL">>) \o WriteLast

\* The programs by name; no program is ackManagerProg == NULL.
Program ==
    [none |-> Ops(<<"NULL">>),
     WRITE_BIT0 |-> WRITE_BIT0_PROG, WRITE_BIT1 |-> WRITE_BIT1_PROG,
     VERIFY_BIT0 |-> VERIFY_BIT0_PROG, VERIFY_BIT1 |-> VERIFY_BIT1_PROG,
     READ_BIT |-> READ_BIT_PROG, WRITE_BYTE |-> WRITE_BYTE_PROG,
     VERIFY_BYTE |-> VERIFY_BYTE_PROG, READ_CV |-> READ_CV_PROG,
     LOCO_DRIVEAWAY |-> LOCO_DRIVEAWAY_PROG, LOCO_READ_ID |-> LOCO_READ_ID_PROG,
     LOCO_READ_CONSIST |-> LOCO_READ_CONSIST_PROG,
     SHORT_LOCO_ID |-> SHORT_LOCO_ID_PROG, CONSIST_ID |-> CONSIST_ID_PROG,
     LONG_LOCO_ID |-> LONG_LOCO_ID_PROG]
=============================================================================
