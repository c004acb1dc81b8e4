SPECIFICATION Spec
CONSTANTS
    NTracks = 2
    CanBrake = {0, 1}
    Decoders <- MCDecoders
    Tasks <- MCTasks
    Site = 1
    CanMeasure = {1}
    AckRetry = 1
    MaxFaults = 1
    MaxMissed = 45
    MaxOvertaken = 8
INVARIANT AnsweredOnce
PROPERTIES AnswersTrue TracksGivenBack ManagerFrees
CHECK_DEADLOCK FALSE
