SPECIFICATION SpotifySpec
CONSTANTS
    IN_CHUNK = 2
    FRAME = 2
    PACKETS = {5}
    MAX_FAILURES = 0
    MAX_TIME = 4
    TASKS = {e1, e2}
    MAX_EVENTS = 2
INVARIANT NoneMissed
PROPERTIES InOrder SessionsFollow LeftoversEnd
CHECK_DEADLOCK FALSE
