SPECIFICATION Spec
CONSTANTS
    Heap0 = 6
    Cap = 16
    Headroom = 3
    Slack = 2
    TriggerMin = 3
    ContSlots = 1
    Stress = TRUE
    EntryFrame = 2
    FrameSizes = {1}
    MaxFrames = 2
    MaxAllocs = 3
    MaxChunk = 2
    Messages <- OneMessage
    Blocks = {b1, b2}
    Ids <- FourIds
INVARIANTS
    TypeOK
    FrameStaysFree
    RoomWasReserved
PROPERTIES
    CollectionIsPrecise
    ImplementsStore
SYMMETRY BlockSymmetry
CHECK_DEADLOCK FALSE
