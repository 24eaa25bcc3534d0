SPECIFICATION Spec
CONSTANTS
    IN_CHUNK = 4
    FRAME = 3
    PACKETS = {1, 5, 9}
    MAX_FAILURES = 1
    MAX_TIME = 16
INVARIANTS Throttled NoBurst
PROPERTY InOrder
CHECK_DEADLOCK FALSE
