SPECIFICATION Spec
CONSTANTS
    Layouts <- MCLayouts
    MAX_I2C_RETRIES = 1
    MinReadCount = 1
    PerEntry = 1
INVARIANTS DevicesSound HardwareFollows
PROPERTIES NoGlitch SensorsSettle
