SPECIFICATION Spec
CONSTANTS
    Conns = {c1}
    Tasks = {}
    CHANNEL_SLOTS = 1
    SOCK_BUF = 1
    LIMIT = 0
    MAX_CLIENT_ID = 1
    MAX_VOLUME = 0
INVARIANT ReaderGoneUnregistered
