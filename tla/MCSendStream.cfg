SPECIFICATION MCSpec
CONSTANTS
    MaxData = 4
    MaxFrame = 2
    MaxPn = 5
    InitLimit = 2
    MaxLimit = 4
    RangesMaxOffset = 9
    RangesMaxLen = 3
INVARIANTS SendInv NoByteForgotten FinalSizeAgrees ParkedExact
PROPERTIES SilentAfterEnd
