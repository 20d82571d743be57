SPECIFICATION Spec
CONSTANTS
    Spaces = {0, 2}
    Kinds <- MCKinds
    K_PACKET_THRESHOLD = 2
    MaxPn <- MCMaxPn
    MaxGap = 1
    MaxPto = 1
    IsServer = FALSE
INVARIANTS RecoveryInv BaseIffOutstanding BytesExact
PROPERTIES ProbeKept
CHECK_DEADLOCK FALSE
