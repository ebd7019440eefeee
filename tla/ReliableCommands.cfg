\* Two maps, three commands, one packet in flight each way; the ring of two
\* slots overruns on some of the behaviours.
CONSTANTS
    K = 2
    Cmds = {team, chat}
    Disconnect = disconnect
    AckCmd = ackcmd
    NoTime = NoTime
    MaxSeq = 3
    MaxMap = 2
    NetCap = 1
SPECIFICATION FairSpec
INVARIANTS
    TypeOK
    NoOffsetTime
    DroppedOnlyByOverrun
PROPERTIES
    AckCmdIsFresh
    ImplementsLog
    TimeIsBelieved
