------------------------------ MODULE NetConfig ------------------------------
(***************************************************************************)
(* The bot's socket, which follows console variables.                      *)
(*                                                                         *)
(* net_enabled and net_port stand for the nine variables of NET_GetCvars   *)
(* (DemoBot/net_ip.cpp): the others are read as net_enabled is, and SOCKS, *)
(* which no code turns on, is left out.  The table is that of Cvars, with  *)
(* every caller it has or may have: the bot's main, the system info of the *)
(* server, the console, a game module, and an engine that registers the    *)
(* variables of EngineNames.                                               *)
(*                                                                         *)
(* The operating system is external: a bind succeeds or fails.             *)
(***************************************************************************)
EXTENDS Cvars

CONSTANTS
    Enabled, Port,         \* "net_enabled", "net_port"
    EngineNames,           \* other variables the engine registers
    ConsoleNames,          \* those the console names
    ModuleNames,           \* those a game module or the server's code names
    SystemNames,           \* those in the server's system info
    EngineFlags, VMFlags,  \* flags they, and a game module's, are given
    Tries,                 \* how many ports NET_OpenIP tries, 10
    Invalid                \* INVALID_SOCKET

NetNames == {Enabled, Port}

ASSUME NetNamesAssumption ==
    /\ Enabled # Port /\ EngineNames \cap NetNames = {}
    /\ NetNames \cup EngineNames \subseteq Names \ {Cheats}
    /\ ConsoleNames \cup ModuleNames \cup SystemNames \subseteq Names
\* Only the console makes variables of the user's; of its own the engine asks
\* for none of a game module's.
ASSUME FlagsAssumption ==
    /\ EngineFlags \subseteq SUBSET (Flags \ {"USER_CREATED", "VM_CREATED"})
    /\ VMFlags \subseteq SUBSET (Flags \ {"USER_CREATED"})
\* Those of NET_GetCvars always fit.
ASSUME FitAssumption == 3 <= MaxCvars
ASSUME TriesAssumption == Tries \in Nat \ {0}
ASSUME InvalidAssumption == Invalid \notin Values

VARIABLES
    networkingEnabled,
    ip_socket,    \* the port it is bound to, or Invalid
    pointer,      \* the cvar_t * the engine holds for a name, or 0
    restarting,   \* in Cvar_Restart: what goes, besides "no"
    curvar        \* there, the slot of the variable it looks at next, or 0

vars == <<cvars, networkingEnabled, ip_socket, pointer, restarting, curvar>>
loop == <<restarting, curvar>>

\* Bound: a variable that only the console names is 1, or 0 when toggled.
ValuesOf(n) ==
    IF n = Port THEN Values \ {0}
    ELSE IF n \in EngineNames \cup ModuleNames \cup SystemNames THEN {0, 1} ELSE {1}

\* The bot's main sets its port before it calls NET_Init.  It does not call
\* Cvar_Init, which adds the console's commands; an engine does.
Init ==
    /\ \E c \in {Empty, Cvar_Init}, port \in ValuesOf(Port) :
           cvars = Cvar_Set(c, Port, port)
    /\ networkingEnabled = FALSE
    /\ ip_socket = Invalid
    /\ pointer = [n \in Names |-> IF n = Cheats THEN Cvar_FindVar(cvars, n) ELSE 0]
    /\ restarting = "no"
    /\ curvar = 0

(***************************************************************************)
(* NET_Config.                                                             *)
(***************************************************************************)
\* NET_GetCvars: the variables, and whether one of them was modified.
Got ==
    LET enabled == Cvar_Get(cvars, Enabled, 1, {"LATCH"})
    IN  Cvar_Get(enabled, Port, 1, {"LATCH"})

Var(c, n) == c.index[Cvar_FindVar(c, n)]

Modified(c) == \E n \in NetNames : Var(c, n).modified

Unmodified(c) ==
    [c EXCEPT !.index = [s \in Slots |->
        IF c.index[s].name \in NetNames
        THEN [c.index[s] EXCEPT !.modified = FALSE] ELSE c.index[s]]]

\* NET_OpenIP: the socket gets net_port or one of the next ports, which then
\* is net_port; or none.
OpenIP(c) ==
    \/ /\ cvars' = c
       /\ ip_socket' = Invalid
    \/ \E i \in 0 .. Tries - 1 :
        LET port == Var(c, Port).string + i
        IN  /\ port <= MaxValue
            /\ cvars' = Cvar_Set(c, Port, port)
            /\ ip_socket' = port

\* What runs is stopped, and started again if it should run.
NET_Config(enableNetworking) ==
    LET got == Got
        enable == enableNetworking /\ Var(got, Enabled).string # 0
    IN  /\ ~cvars.error
        /\ networkingEnabled' = enable
        /\ pointer' = [n \in Names |-> IF n \in NetNames
                                       THEN Cvar_FindVar(got, n) ELSE pointer[n]]
        /\ IF enable /\ (Modified(got) \/ ~networkingEnabled)
           THEN OpenIP(Unmodified(got))
           ELSE /\ cvars' = Unmodified(got)
                /\ ip_socket' = IF enable THEN ip_socket ELSE Invalid

NET_Init == NET_Config(TRUE)

NET_Shutdown == networkingEnabled /\ NET_Config(FALSE)

(***************************************************************************)
(* The callers of Cvars.                                                   *)
(***************************************************************************)
\* The program has ended with Com_Error when there are too many variables.
Sets(c) ==
    /\ ~cvars.error
    /\ pointer[Port] # 0
    /\ cvars' = c
    /\ UNCHANGED <<networkingEnabled, ip_socket, pointer>>

\* Cvar_Set: by main for net_port, by CL_SystemInfoChanged for any name.
SystemInfo == \E n \in SystemNames : \E v \in ValuesOf(n) : Sets(Cvar_Set(cvars, n, v))

Server == \E n \in ModuleNames : \E v \in ValuesOf(n) : Sets(Cvar_Server_Set(cvars, n, v))

\* The console's commands were added.
HasConsole == pointer[Cheats] # 0

Console ==
    /\ HasConsole
    /\ \E n \in ConsoleNames :
        \/ \E v \in ValuesOf(n) : Sets(Cvar_User_Set(cvars, n, v))
        \/ Sets(Cvar_Toggle(cvars, n))
        \/ Sets(Cvar_Reset(cvars, n, FALSE))
        \/ Sets(Cvar_Unset_f(cvars, n))

\* Cvar_Restart, which frees variables of the list it walks, one turn of its
\* loop at a time.
Restart ==
    /\ HasConsole
    /\ Sets(cvars)
    /\ restarting' \in {"user", "vm"}
    /\ curvar' = cvars.vars

RestartTurn ==
    /\ restarting # "no"
    /\ curvar # 0
    /\ cvars' = Cvar_RestartTurn(cvars, curvar, restarting = "vm")
    /\ curvar' = cvars.index[curvar].next
    /\ UNCHANGED <<networkingEnabled, ip_socket, pointer, restarting>>

RestartEnds ==
    /\ restarting # "no"
    /\ curvar = 0
    /\ restarting' = "no"
    /\ UNCHANGED <<cvars, networkingEnabled, ip_socket, pointer, curvar>>

Module ==
    \E n \in ModuleNames, flags \in VMFlags : \E v \in ValuesOf(n) :
        Sets(Cvar_Register(cvars, n, v, flags))

\* A range is given to a variable as it is registered: Cvar_CheckRange does not
\* enforce it on one for which a value waits that is in the range.
Engine ==
    \E n \in EngineNames, flags \in EngineFlags, ranged \in BOOLEAN :
        \E v \in ValuesOf(n) :
            LET c == Cvar_Get(cvars, n, v, flags)
            IN  /\ ~cvars.error
                /\ pointer[Port] # 0
                /\ cvars' = IF ranged /\ ~c.error THEN Cvar_CheckRange(c, n)
                            ELSE c
                /\ pointer' = [pointer EXCEPT ![n] = Cvar_FindVar(c, n)]
                /\ UNCHANGED <<networkingEnabled, ip_socket>>

EngineResets ==
    \E n \in EngineNames : pointer[n] # 0 /\ Sets(Cvar_Reset(cvars, n, TRUE))

Cheating == Sets(Cvar_SetCheatState(cvars))

\* There is one thread: a restart is not interrupted.
Call ==
    \/ NET_Init \/ NET_Shutdown
    \/ SystemInfo \/ Server \/ Console \/ Module
    \/ Engine \/ EngineResets \/ Cheating

Next ==
    \/ restarting = "no" /\ Call /\ UNCHANGED loop
    \/ restarting = "no" /\ Restart
    \/ RestartTurn
    \/ RestartEnds

Spec == Init /\ [][Next]_vars

(***************************************************************************)
(* Properties.                                                             *)
(***************************************************************************)
TypeOK ==
    /\ cvars \in Tables
    /\ networkingEnabled \in BOOLEAN
    /\ ip_socket \in Values \cup {Invalid}
    /\ pointer \in [Names -> {0} \cup Slots]
    /\ restarting \in {"no", "user", "vm"}
    /\ curvar \in {0} \cup Slots

\* The list and the hash chains thread exactly the variables in the table, and
\* a value waits only where the rules let it, in the range if there is one,
\* after any registrations, sets, resets, unsets and restarts.
TableIsSound == WellThreaded(cvars) /\ WellValued(cvars)

\* A variable the engine holds a pointer to stays in its slot: no reset, unset
\* or restart, and no module's or server's registration, takes it away.  And a
\* restart never looks at a slot it has freed, nor passes over a variable that
\* is to go: those it has not yet looked at are behind the one it is at.
PointersHold ==
    /\ \A n \in Names : pointer[n] # 0 => cvars.index[pointer[n]].name = n
    /\ curvar # 0 => curvar \in Named(cvars)
    /\ restarting # "no" =>
           \A s \in Named(cvars) :
               Outgoing(cvars.index[s], restarting = "vm")
                   => s \in Chain(curvar, Nexts(cvars))

\* The socket is what the variables ask for, or one of them is marked as
\* modified, so that the next NET_Config opens it anew.
SocketIsCurrent ==
    IF networkingEnabled
    THEN \/ Modified(Got)
         \/ /\ Var(cvars, Enabled).string # 0
            /\ ip_socket \in {Invalid, Var(cvars, Port).string}
    ELSE ip_socket = Invalid
=============================================================================
