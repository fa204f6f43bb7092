CONSTANTS
    Writers = {w1, w2}
    Reader = reader
    Capacity = 1
    MaxWrites = 2
    States = {"exec", "call"}
    Contexts <- MCContexts
    Waiters = {"w1"}
    MaxWaits = 2
    Byte <- MCByte
    Caps = {0, 1, 2, 3, 5}
    Chunks <- MCChunks
    MaxWritten = 9
    Marker <- MCMarker
SPECIFICATION MCSpec
INVARIANTS
    Types
    NoLostWakeup
    EofIsComplete
    NoLostCancellation
    CaptureWhole
PROPERTIES
    SleepersWake
