SPECIFICATION FairSpec
CONSTANTS
    RX_BUF_SIZE = 32
    TxDescs = 2
    Packets <- MCPackets
    OurIp <- MCOurIp
    Target <- MCTarget
    Pings = 1
    MaxPackets = 3
    NONE = NONE
INVARIANTS
    RxInStep
    EchoAnswered
    PingWhole
PROPERTY
    EveryPacketHandled
CHECK_DEADLOCK FALSE
