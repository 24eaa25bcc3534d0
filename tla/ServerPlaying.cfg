SPECIFICATION PlayingSpec
CONSTANTS
    Conns = {c1}
    Tasks = {t1, t2}
    CHANNEL_SLOTS = 1
    SOCK_BUF = 1
    LIMIT = 1
    MAX_CLIENT_ID = 1
    MAX_VOLUME = 2
PROPERTIES SettingsComplete WedgedDropped ReadersProceed Reclaimed
VIEW WithoutHistory
