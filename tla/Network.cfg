SPECIFICATION Spec
CONSTANTS
    RingLen = 11
    Conns = {1, 2, 3}
    MaxTcp = 2
    Lengths = {0, 1}
    MaxMessages = 2
CHECK_DEADLOCK FALSE
INVARIANTS RingRight NothingLeft
PROPERTY RingDrains
