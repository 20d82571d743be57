SPECIFICATION Spec
CONSTANTS
    MaxBytes = 4
    MaxPackets = 4
    Chunks = {1, 2}
    Window = 2
    MaxPending = 1
INVARIANTS  KeptUntilLost FirstFlightAtOwnOffset
PROPERTIES RetryStagesAll
CHECK_DEADLOCK FALSE
