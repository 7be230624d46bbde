SPECIFICATION FramingSpec
CONSTANTS
    Bodies <- TwoBodies
    Room = 6
    MaxFrames = 3
CHECK_DEADLOCK FALSE
INVARIANTS
    FramingTypeOK
    StreamIntact
    EndAfterFrames
PROPERTIES
    ImplementsChannel
    WrittenIsReceived
