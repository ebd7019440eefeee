\* Six messages: two demos with a full snapshot and messages after it.
CONSTANTS
    NoDemo = NoDemo
    MaxRead = 6
SPECIFICATION Spec
INVARIANTS
    TypeOK
    DemosPlay
    IndexedIsComplete
    RecordsToLast
