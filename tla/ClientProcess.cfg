SPECIFICATION ProcessSpec
CONSTANTS
    HEADER = 2
    GARBAGE_SIZES = {0, 2}
    SCRIPTS <- Scripts
    LATENCIES = {0, 2}
    MAX_TIME = 3
    TIMEOUT = 3
    ANSWERS <- Answers
INVARIANTS InStep NeverBehind ReturnsInTime FromOneAnswer
PROPERTIES PlayedInOrder NeverEarly DeadPlayerEnds CodecInstalled StartsOrGivesUp
CHECK_DEADLOCK FALSE
