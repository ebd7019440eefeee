\* Two chains with two and three variables.  The engine registers x, which the
\* console or a module may have made; only the console names y.  net_enabled is
\* set by the console, net_port by the system info.
CONSTANTS
    MaxCvars = 5
    Names = {cheats, enabled, port, x, y}
    Buckets = {{enabled, x, y}, {cheats, port}}
    Legacy = {}
    Cheats = cheats
    NoName = NoName
    Low = 1
    High = 1
    MaxValue = 2
    Enabled = enabled
    Port = port
    EngineNames = {x}
    ConsoleNames = {enabled, x, y}
    ModuleNames = {x}
    SystemNames = {port}
    EngineFlags = {{"ROM"}}
    VMFlags = {{"CHEAT", "LATCH"}}
    Tries = 2
    Invalid = Invalid
SPECIFICATION Spec
INVARIANTS
    TypeOK
    TableIsSound
    PointersHold
    SocketIsCurrent
