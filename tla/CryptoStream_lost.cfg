SPECIFICATION Spec
CONSTANTS
    MaxBytes = 4
    MaxPackets = 4
    Chunks = {1, 2}
    Window = 2
    MaxPending = 1
PROPERTY LostIsRequeued
CHECK_DEADLOCK FALSE
