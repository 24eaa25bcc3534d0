SPECIFICATION ProtoSpec
CONSTANTS
    TERMS <- Terms
    MAX_TERMS = 6
    JSON = 6
    IDS <- Ids
    TIMES <- Times
    DATA <- Data
    FORMATS <- Formats
    DIALS <- Dials
    LIES <- Lies
    FLIGHT = 2
INVARIANTS NormalizeIsLoops SumExact LateByTheSeconds
INVARIANTS RoundTrip Echoed UntrustedRefused VolumeNearest
CHECK_DEADLOCK FALSE
