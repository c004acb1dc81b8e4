SPECIFICATION Spec
CONSTANTS
    Cabs = {1, 2}
    MaxSlots = 2
    MaxMine = 2
    Chars = {"T"}
    Momentary = {"horn"}
    EstopTime = 0
    Z21Time = 0
    BufSize = 12
    WitClients = {0, 1}
    Peers = {1, 2}
    Datagrams = {1, 4, 5, 6, 9, 11}
    WiredClients = {{}, {"sprog"}, {"xnet"}, {"can"}, {"serial"}}
    Round <- ThreePlaces
    Priority = {1}
    MaxAcks = 2
    LineSize = 6
    MaxInputs = 3
CHECK_DEADLOCK FALSE
INVARIANTS ThrottlesAgree InStep
PROPERTY DeadMansHandle
