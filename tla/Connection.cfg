\* A request is repeated after one unit, the bot leaves after more than two.
CONSTANTS
    Home = Home
    Proxy = Proxy
    Elsewhere = Elsewhere
    RETRANSMIT_TIMEOUT = 1
    RecentPacket = 1
    ServerTimeout = 2
    ProtocolOdd = ProtocolOdd
    ProtocolEven = ProtocolEven
    NetCap = 2
SPECIFICATION FairSpec
INVARIANTS
    TypeOK
    ConnectedIsAccepted
PROPERTIES
    HandshakeEnds
    DeadServerIsLeft
