\* Two server ids, by a restart or a change of the map, three commands in a
\* ring of two slots; a match ends at time 1, its intermission is at 2.
CONSTANTS
    K = 2
    InfoRoom = 3
    Delay = 1
    NoDemo = NoDemo
    MaxLog = 3
    MaxId = 2
    MaxTime = 2
    NetCap = 1
SPECIFICATION FairSpec
INVARIANTS
    TypeOK
    ConfigstringsAgree
    IntermissionIsKnown
PROPERTIES
    ImplementsLog
    StopsAfterMatch
    Settles
