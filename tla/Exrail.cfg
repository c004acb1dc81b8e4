SPECIFICATION Spec
CONSTANTS
    Programs <- MCPrograms
    Addr = {1, 2, 3}
    Locos = {1, 2}
    Sections = {1, 2, 9}
    Signals = {1}
    Turnouts = {1}
    Pins = {1, 2}
    MinReadCount = 1
    MAX_STACK_DEPTH = 2
CHECK_DEADLOCK FALSE
INVARIANTS TasksSound SectionExclusive NoRunaway
PROPERTY EveryTaskMoves
