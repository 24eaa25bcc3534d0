SPECIFICATION Spec
CONSTANTS
    LATENCY_SAMPLES = 2
    OFFSET = 50000
    DELAYS <- Even
    HOLDS = {0}
    GAPS = {6000}
    SETTINGS <- NoSettings
    MAX_PUSHES = 2
    MAX_TIME = 1100000
INVARIANTS SamplesExact
CHECK_DEADLOCK FALSE
