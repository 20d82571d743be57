SPECIFICATION Spec
CONSTANTS
    MaxData = 3
    MaxFrame = 2
    MaxPn = 4
    InitLimit = 2
    MaxLimit = 3
INVARIANTS FinNotForgotten
