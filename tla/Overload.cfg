SPECIFICATION Spec
CONSTANTS
    OVERLOAD_WAIT = 3
    ALL_GOOD = 8
    ALERT_GOOD = 2
    IGNORE_FAULT_LOW = 5
    IGNORE_FAULT_HIGH = 1
    IGNORE_CURRENT = 5
    RETRY_MAX = 12
INVARIANT Protects
PROPERTIES Retries Recovers
