SPECIFICATION FairSpec
\* Two packets, up to two repeats; a counter that wraps after eight packets.
CONSTANTS
    Packets = {"p1", "p2"}
    Repeats = {0, 1, 2}
    Idle = "idle"
    Torn = "torn"
    W8 = 4
    W32 = 8
INVARIANTS
    NeverTorn
    JobSent
PROPERTIES
    ImplementsFeed
    Returns
