CONSTANTS
    MaxOffset = 4
    StreamWindow = 2
    StreamMaxWindow = 3
    ConnWindow = 3
    ConnMaxWindow = 3
    MaxGaps = 1
    MaxResets = 2
    DrainsBeforeStop = TRUE
SPECIFICATION Spec
INVARIANT ResetCreditReturned
