CONSTANTS
    MaxSkb = 17
    AllocArgs <- MCAllocArgs
    Lens = {1, 2}
    ResetRooms = {0}
    Vals = {7}
    DebugAssertions = TRUE
    Macs <- MCMacs
    Protos <- MCProtos
    RuntLens = {0, 13}
    RxPad = 1
    WireCap = 1
SPECIFICATION EthSpec
INVARIANT FrameRoundTrip
