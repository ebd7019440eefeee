\* Two maps, three commands, two packets in flight each way: the third command
\* overwrites the first, not acknowledged, in the ring of two slots.
CONSTANTS
    K = 2
    Cmds = {team, chat}
    Disconnect = disconnect
    AckCmd = ackcmd
    NoTime = NoTime
    MaxSeq = 3
    MaxMap = 2
    NetCap = 2
SPECIFICATION Spec
INVARIANT UnacknowledgedKept
