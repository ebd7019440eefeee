\* Three servers, two process ids, room for two entries.
CONSTANTS
    NumServers = 3
    Pids = {1, 2}
    MaxLaunched = 2
    MaxHumans = 1
SPECIFICATION FairSpec
INVARIANTS
    TypeOK
    SweepIsComplete
    RunningIsTracked
    OneBotPerServer
PROPERTY EntryIsCleared
