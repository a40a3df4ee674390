CONSTANTS
    MaxSkb = 6
    AllocArgs <- MCAllocArgs
    Lens = {1, 2, 3}
    ResetRooms = {0, 2}
    Vals = {0, 1}
    DebugAssertions = FALSE
SPECIFICATION Spec
INVARIANT CursorOrder
