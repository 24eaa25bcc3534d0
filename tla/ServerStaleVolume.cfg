SPECIFICATION Spec
CONSTANTS
    Conns = {c1}
    Tasks = {t1}
    CHANNEL_SLOTS = 1
    SOCK_BUF = 1
    LIMIT = 0
    MAX_CLIENT_ID = 1
    MAX_VOLUME = 1
INVARIANT SettingsCurrent
