SPECIFICATION PausedSpec
CONSTANTS
    Conns = {c1, c2}
    Tasks = {t1}
    CHANNEL_SLOTS = 1
    SOCK_BUF = 1
    LIMIT = 0
    MAX_CLIENT_ID = 2
    MAX_VOLUME = 1
CONSTRAINT PausedAndWell
PROPERTY SettingsReachResponsive
