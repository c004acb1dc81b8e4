SPECIFICATION TSpec
CONSTANTS
    MAX_LOCOS = 3
    HALF = 4
    Groups = {1}
    Locos = {1, 2, 3, 4}
    MaxList = 3
INVARIANTS
    TableSound
PROPERTY NoConsistStolen
\* The box stops when it uses a null slot.
CHECK_DEADLOCK FALSE
