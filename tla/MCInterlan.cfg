CONSTANTS
    RxQ = 3
    FrameLens = {68, 210}
    MaxFrames = 2
    SmallBlock = 64
    LargeBlock = 128
    Mtu = 188
    NChan = 2
    MaxPackets = 2
    MaxPieces = 2
    MaxTurns = 1
    RBytes = 376
    MaxRBufs = 3
SPECIFICATION Spec
INVARIANTS RingAgrees WholeFrames PanicsExplained WholePackets
PROPERTIES FramesReported BuffersReturn PacketsSent
CHECK_DEADLOCK FALSE
