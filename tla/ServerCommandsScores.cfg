\* Two commands: CS_INTERMISSION arrives late, the scores do not stop the demo.
CONSTANTS
    K = 2
    InfoRoom = 3
    Delay = 1
    NoDemo = NoDemo
    MaxLog = 2
    MaxId = 1
    MaxTime = 2
    NetCap = 1
SPECIFICATION Spec
PROPERTY FinalScoresEndDemo
