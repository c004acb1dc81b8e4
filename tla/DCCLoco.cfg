SPECIFICATION DSpec
CONSTANTS
    MAX_LOCOS = 2
    HALF = 4
    Groups = {1}
    W16 = 64
    W32 = 128
    Locos = {1, 2}
    MaxList = 2
    Orders <- MCOrders
    MaxCommands = 3
PROPERTY RemindersConverge
INVARIANTS
    RemindersSound
    StopsHold
