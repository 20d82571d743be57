SPECIFICATION FairSpec
CONSTANTS
    MaxPn = 6
    MaxRanges = 2
    MaxAckDelay = 2
INVARIANTS RangesSound FrameRoundTrip AckInTime ReplayNeedsOverflow
PROPERTIES EventuallyAcked
