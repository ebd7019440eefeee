\* As Connection.cfg: the disconnect packets of the server are of no use.
CONSTANTS
    Home = Home
    Proxy = Proxy
    Elsewhere = Elsewhere
    RETRANSMIT_TIMEOUT = 1
    RecentPacket = 1
    ServerTimeout = 2
    ProtocolOdd = ProtocolOdd
    ProtocolEven = ProtocolEven
    NetCap = 2
SPECIFICATION FairSpec
PROPERTY DroppedBotLeaves
