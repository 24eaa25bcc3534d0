SPECIFICATION Spec
CONSTANTS
    Conns = {c1, c2}
    Tasks = {t1, t2}
    CHANNEL_SLOTS = 1
    SOCK_BUF = 1
    LIMIT = 0
    MAX_CLIENT_ID = 2
    MAX_VOLUME = 2
INVARIANTS NoLostVolume LastInForce HandshakeOrder ServedWhileOpen NoZombie SessionMatchesChannel
PROPERTIES EvictionJustified Implements
CONSTRAINT OneOrTheOther
SYMMETRY Symmetry
