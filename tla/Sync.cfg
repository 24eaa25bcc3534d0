SPECIFICATION Spec
CONSTANTS
    LATENCY_SAMPLES = 3
    OFFSET = 50000
    DELAYS <- Slow
    HOLDS = {500}
    GAPS = {400, 970000, 1200000}
    SETTINGS <- Settings
    MAX_PUSHES = 3
    MAX_TIME = 2100000
INVARIANTS TypeOK MedianWhenSynchronized PlayoutWithin SynchronizesInTime OneRequestWhenSynchronized
CHECK_DEADLOCK FALSE
