SPECIFICATION QSpec
\* Accessory addresses are disjoint from loco addresses; a coil-on slot reads as
\* a packet to loco AccDelay, so one of the locos has that address.
CONSTANTS
    Locos = {3, 40}
    Accs = {501}
    Signals = {502}
    Speeds = {"slow", "fast"}
    Groups = {1}
    AccCommands <- TypedAccs
    Heads = {7, 2045}
    Aspects = {0, 31, 32}
    Times = {61, 1440}
    ClockRates = {1, 64}
    TimeRepeats = 1
    CvRepeats = 1
    AccRepeats = 1
    EstopRepeats = 4
    AccDelay = 3
    W16 = 64
    W32 = 128
    BootTime = 4
    MaxTime = 4
    MaxCommands = 3
INVARIANTS
    SlotsSound
    OutcomeRight
    Separated
PROPERTY QueuesServe
