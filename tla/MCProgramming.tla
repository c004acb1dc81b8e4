--------------------------- MODULE MCProgramming ----------------------------
\* Four decoders and the tasks of two clients: the command parser and a Z21
\* throttle that reads a CV.
EXTENDS Programming, TLC

CVs(c1, c17, c18, c19, c20, c29) ==
    (1 :> c1) @@ (17 :> c17) @@ (18 :> c18) @@ (19 :> c19) @@ (20 :> c20) @@ (29 :> c29)

MCDecoders ==
    {[cv |-> CVs(3, 192, 0, 0, 0, 6), acks |-> TRUE],           \* short address 3
     [cv |-> CVs(3, 196, 210, 128, -1, 32), acks |-> FALSE],    \* long address 1234
     [cv |-> CVs(65, -1, -1, 134, 12, 0), acks |-> TRUE],       \* consist 1206
     [cv |-> CVs(7, -1, -1, 133, 255, 0), acks |-> TRUE]}       \* consist 5

MCTasks ==
    [parser |-> {writeCVBit(29, 5, FALSE), writeCVBit(29, 5, TRUE),
                 verifyCVBit(29, 1, FALSE), verifyCVBit(29, 1, TRUE),
                 readCVBit(29, 8), writeCVByte(1, 5), writeCVByte(1007, 1),
                 verifyCVByte(19, 134), readCV(18),
                 getDriveawayLocoId, getLocoId, getConsistId,
                 setLocoId(77), setLocoId(978), setLocoId(0),
                 setConsistId(5, FALSE), setConsistId(1206, TRUE), Malformed},
     z21    |-> {readCV(1)}]
=============================================================================
