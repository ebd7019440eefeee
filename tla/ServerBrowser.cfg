SPECIFICATION FairSpec
CONSTANTS
    NumServers = 2
    NumSlots = 2
    MaxPing = 2
    ScanPeriod = 2
    StatusPeriod = 2
    MaxSleep = 2
INVARIANTS
    TypeOK
    InfoIsOwn
    PingIsFresh
    NoAnswerLost
    AskedOnce
PROPERTIES
    AskedAgain
    StatusIsLearnt
