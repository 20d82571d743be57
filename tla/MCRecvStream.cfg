SPECIFICATION MCSpec
CONSTANTS
    MaxOffset = 4
    StreamWindow = 2
    StreamMaxWindow = 3
    ConnWindow = 3
    ConnMaxWindow = 3
    MaxGaps = 1
    MaxResets = 1
    DrainsBeforeStop = TRUE
    SegMaxOffset = 6
    SegCopies = {1, 2}
INVARIANTS
    RecvInv CreditReturnedOnce NoLostWakeup StreamPeerNotStarved
    ConnPeerNotStarved SegmentsExact
PROPERTIES FinalSizeStable NeverTakenBack
