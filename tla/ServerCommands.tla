---------------------------- MODULE ServerCommands ----------------------------
(***************************************************************************)
(* The server's reliable commands to the bot, and the game state they      *)
(* change.                                                                 *)
(*                                                                         *)
(* The server numbers its commands and repeats in every message those the  *)
(* bot has not acknowledged.  The bot stores the new ones of a message in  *)
(* a ring, and executes them once the whole message is parsed              *)
(* (CL_ParseServerMessage).  A gamestate replaces the game state first, so *)
(* the commands in front of it in its message act on the new one; it also  *)
(* starts a demo, which the scores of the intermission end.  After a       *)
(* map_restart the bot asks for a gamestate ("donedl").                    *)
(*                                                                         *)
(* DemoBot/deps.cpp and demobot.cpp.  The server and the netchan are       *)
(* external: a channel is a queue whose head may be lost.  The bot's own   *)
(* reliable commands are the subject of ReliableCommands; here "donedl" is *)
(* a count that its packets carry.                                         *)
(***************************************************************************)
EXTENDS Integers, Sequences

CONSTANTS
    K,         \* MAX_RELIABLE_COMMANDS, the slots of the ring
    InfoRoom,  \* MAX_INFO_STRING, counted in keys of the system info
    Delay,     \* INTERMISSION_DELAY_TIME, from CS_INTERMISSION to intermission
    NoDemo,    \* no demo is being recorded
    MaxLog,    \* bound: the server's commands
    MaxId,     \* bound: its maps and restarts
    MaxTime,   \* bound: its time
    NetCap     \* bound: snapshots in flight

ASSUME KAssumption == K \in Nat \ {0, 1}
\* The system info of a gamestate, two keys in the model, fits the buffer.
ASSUME InfoRoomAssumption == InfoRoom \in Nat \ {0, 1}
ASSUME NoDemoAssumption == NoDemo \notin Nat
ASSUME TimeAssumption == Delay \in Nat \ {0} /\ MaxTime \in Nat \ {0}
ASSUME BoundsAssumption == MaxLog \in Nat /\ MaxId \in Nat \ {0}
ASSUME NetCapAssumption == NetCap \in Nat \ {0}

VARIABLES
    phase,                     \* "read", or "execute" until the bot has written
    serverCommandSequence,     \* number of the last command stored
    lastExecutedServerCommand, \* number of the next one to execute
    serverCommands,            \* the ring, indexed by number % K
    cl,                        \* the game state, zero until a gamestate comes
    intermissionTime,          \* when the bot thinks intermission begins, or -1
    demo,                      \* the gamestate the demo began with, or NoDemo
    donedl,                    \* "donedl" commands queued
    gamestateId,               \* history: server id of the last gamestate
    stale,                     \* history: a command of an earlier map has
                               \* acted on the game state
    executed,                  \* history: the commands executed
    svLog,                     \* server: its commands, svLog[n] numbered n
    svAck,                     \* server: the last command acknowledged
    sv,                        \* server: the rest of its state
    toClient                   \* messages in flight

stored == <<serverCommandSequence, serverCommands>>
history == <<gamestateId, stale, executed>>
client == <<phase, stored, lastExecutedServerCommand, cl, intermissionTime,
            demo, donedl, history>>
server == <<svLog, svAck, sv>>
vars == <<client, server, toClient>>

Ids == 1 .. MaxId
Times == 0 .. MaxTime

\* The system info is a sequence of keys: the server id, and others.
Other == 0

GameStates ==
    [intermission : {0, 1},        \* CS_INTERMISSION
     systemInfo : Seq(Ids \cup {Other}),  \* CS_SYSTEMINFO
     serverId : {0} \cup Ids,      \* 0 when the system info has none
     serverTime : Times,           \* 0 before the first snapshot
     timeBelieved : BOOLEAN]       \* gamestateAckCmd is acknowledged

\* A command, with what the properties ask of it: the server id it was queued
\* under, CS_INTERMISSION with it, and whether intermission had begun.
Commands ==
    [kind : {"cs", "patch", "serverid", "scores", "map_restart"},
     id : Ids, intermission : {0, 1}, final : BOOLEAN]
NoCommand == [kind |-> "empty"]

Messages ==
    [kind : {"gamestate", "snapshot"}, first : Nat, commands : Seq(Commands),
     id : Ids, intermission : {0, 1}, time : Times]

SvStates ==
    [id : Ids,                     \* sv.serverId, of a map or its restart
     restartedId : Ids,            \* the server id its map began with
     primed : BOOLEAN,             \* a gamestate of the map was sent
     infoSent : BOOLEAN,           \* the clients were sent the server id
     intermission : {0, 1},
     time : Times,
     exitTime : Times \cup {-1},   \* when the match ended
     donedl : Nat]                 \* "donedl" commands executed

Min2(a, b) == IF a <= b THEN a ELSE b
Max2(a, b) == IF a >= b THEN a ELSE b

Init ==
    /\ phase = "read"
    /\ serverCommandSequence = 0
    /\ lastExecutedServerCommand = 0
    /\ serverCommands = [i \in 0 .. K - 1 |-> NoCommand]
    /\ cl = [intermission |-> 0, systemInfo |-> << >>, serverId |-> 0,
             serverTime |-> 0, timeBelieved |-> TRUE]
    /\ intermissionTime = -1
    /\ demo = NoDemo
    /\ donedl = 0
    /\ gamestateId = 0
    /\ stale = FALSE
    /\ executed = << >>
    /\ svLog = << >>
    /\ svAck = 0
    /\ sv = [id |-> 1, restartedId |-> 1, primed |-> FALSE, infoSent |-> TRUE,
             intermission |-> 0, time |-> 1, exitTime |-> -1, donedl |-> 0]
    /\ toClient = << >>

(***************************************************************************)
(* Reading a message.                                                      *)
(***************************************************************************)
Last(m) == m.first + Len(m.commands) - 1

\* CL_ParseCommandString, for each command of the message: those already
\* stored are passed over.
Ring(m) ==
    [i \in 0 .. K - 1 |->
        LET new == {n \in Max2(m.first, serverCommandSequence + 1) .. Last(m) :
                        n % K = i}
        IN  IF new = {} THEN serverCommands[i]
            ELSE m.commands[(CHOOSE n \in new : \A o \in new : o <= n)
                            - m.first + 1]]

\* Where the execution of the commands starts: what the ring has lost is
\* passed over.
StartAgain(last) == Max2(0, last - K + 1)

StartUnbounded(last) == last - K + 1

StartLatest(last) == Max2(lastExecutedServerCommand, last)

Start(last) == Max2(lastExecutedServerCommand, last - K + 1)

ReadMessage(kind, last) ==
    LET m == Head(toClient)
    IN  /\ phase = "read"
        /\ toClient # << >>
        /\ m.kind = kind
        /\ toClient' = Tail(toClient)
        /\ serverCommands' = Ring(m)
        /\ serverCommandSequence' = last
        /\ lastExecutedServerCommand' = Start(last)
        /\ phase' = "execute"
        /\ UNCHANGED <<donedl, executed, server>>

\* DemoBot_IntermissionCSChanged_f
IntermissionAtOnce(cs, time) == IF cs = 0 THEN -1 ELSE time

IntermissionKept(cs, time) == IF cs = 0 THEN intermissionTime ELSE time + Delay

IntermissionTime(cs, time) == IF cs = 0 THEN -1 ELSE time + Delay

\* CL_SystemInfoChanged: atoi( Info_ValueForKey( systemInfo, "sv_serverid" ) )
ServerIdFirst(info) == Head(info)

ServerIdOf(info) ==
    LET ids == {i \in 1 .. Len(info) : info[i] # Other}
    IN  IF ids = {} THEN 0
        ELSE info[CHOOSE i \in ids : \A j \in ids : i <= j]

\* The svc_gamestate case: the demo of the last gamestate ends, one begins.
ReadGamestate ==
    LET m == Head(toClient)
    IN  /\ ReadMessage("gamestate", Last(m))
        /\ cl' = [intermission |-> m.intermission,
                  systemInfo |-> <<Other, m.id>>,
                  serverId |-> ServerIdOf(<<Other, m.id>>),
                  serverTime |-> 0, timeBelieved |-> FALSE]
        /\ intermissionTime' = IntermissionTime(m.intermission, 0)
        /\ demo' = m.id
        /\ gamestateId' = m.id
        /\ stale' = FALSE

\* The svc_snapshot case.  Whether its time is believed is the subject of
\* ReliableCommands: from some snapshot after the gamestate on it is.
ReadSnapshot ==
    LET m == Head(toClient)
    IN  /\ ReadMessage("snapshot", Max2(serverCommandSequence, Last(m)))
        /\ \/ cl' = [cl EXCEPT !.timeBelieved = TRUE, !.serverTime = m.time]
           \/ ~cl.timeBelieved /\ UNCHANGED cl
        /\ UNCHANGED <<intermissionTime, demo, gamestateId, stale>>

ReadNothing ==
    /\ phase = "read"
    /\ phase' = "execute"
    /\ UNCHANGED <<stored, lastExecutedServerCommand, cl, intermissionTime,
                   demo, donedl, history, server, toClient>>

(***************************************************************************)
(* The loop that executes the commands, one action for each handler.       *)
(***************************************************************************)
Command == serverCommands[lastExecutedServerCommand % K]

\* Cmd_ExecuteString calls the handler of the command.
Execute(kinds) ==
    /\ phase = "execute"
    /\ lastExecutedServerCommand <= serverCommandSequence
    /\ Command.kind \in kinds
    /\ lastExecutedServerCommand' = lastExecutedServerCommand + 1
    /\ executed' = IF Command = NoCommand THEN executed
                   ELSE Append(executed, Command)
    /\ stale' = (stale \/ (Command # NoCommand /\ Command.id < gamestateId))
    /\ UNCHANGED <<phase, stored, gamestateId, server, toClient>>

\* The slot of number 0 is empty.
ExecuteEmpty ==
    /\ Execute({"empty"})
    /\ UNCHANGED <<cl, intermissionTime, demo, donedl>>

\* CL_ConfigstringModified; an unchanged configstring is passed over.
ExecuteConfigstring ==
    LET cs == Command.intermission
    IN  /\ Execute({"cs"})
        /\ cl' = [cl EXCEPT !.intermission = cs]
        /\ intermissionTime' = IF cs = cl.intermission THEN intermissionTime
                               ELSE IntermissionTime(cs, cl.serverTime)
        /\ UNCHANGED <<demo, donedl>>

\* A system info with a server id replaces the old one; one without is
\* appended to it, as far as the buffer has room.
PatchAppended(patch) ==
    LET all == cl.systemInfo \o patch
    IN  SubSeq(all, 1, Min2(Len(all), InfoRoom))

ExecuteSystemInfo ==
    LET info == IF Command.kind = "serverid" THEN <<Other, Command.id>>
                ELSE PatchAppended(<<Other>>)
    IN  /\ Execute({"patch", "serverid"})
        /\ cl' = [cl EXCEPT !.systemInfo = info, !.serverId = ServerIdOf(info)]
        /\ UNCHANGED <<intermissionTime, demo, donedl>>

\* CG_ParseScores_f: in intermission the demo ends, with this turn.
InIntermission == intermissionTime # -1 /\ cl.serverTime >= intermissionTime

ExecuteScores ==
    LET wrong == cl.intermission = 0
    IN  /\ Execute({"scores"})
        /\ demo' = IF InIntermission /\ ~wrong THEN NoDemo ELSE demo
        /\ intermissionTime' =
               IF InIntermission /\ wrong THEN -1 ELSE intermissionTime
        /\ UNCHANGED <<cl, donedl>>

\* CG_MapRestart
DonedlQueued == donedl + 1

ExecuteMapRestart ==
    /\ Execute({"map_restart"})
    /\ donedl' = DonedlQueued
    /\ UNCHANGED <<cl, intermissionTime, demo>>

\* CL_WritePacket ends the turn with a packet that carries cl.serverId, the
\* acknowledge serverCommandSequence and the oldest command, "donedl".
CL_WritePacket ==
    /\ phase = "execute"
    /\ lastExecutedServerCommand > serverCommandSequence
    /\ phase' = "read"
    /\ UNCHANGED <<stored, lastExecutedServerCommand, cl, intermissionTime,
                   demo, donedl, history>>

(***************************************************************************)
(* The server and the network (external).                                  *)
(***************************************************************************)
SvInIntermission == sv.exitTime # -1 /\ sv.time >= sv.exitTime + Delay

\* A command is queued, once a gamestate of the map was sent.  A server with
\* more than K commands not acknowledged drops the bot, which is left out.
\* The bound keeps room for the system info of a restart.
SvQueue(kind, s) ==
    /\ sv.primed
    /\ Len(svLog) - svAck < K
    /\ Len(svLog) + (IF s.infoSent THEN 1 ELSE 2) <= MaxLog
    /\ svLog' = Append(svLog,
           [kind |-> kind, id |-> s.id, intermission |-> s.intermission,
            final |-> SvInIntermission])
    /\ sv' = s
    /\ UNCHANGED <<client, svAck, toClient>>

SvPatch == SvQueue("patch", sv)

SvScores == SvQueue("scores", sv)

\* The match ends: CS_INTERMISSION now, intermission in Delay.
SvExit ==
    /\ sv.intermission = 0
    /\ SvQueue("cs", [sv EXCEPT !.intermission = 1, !.exitTime = sv.time])

\* A restart of the map, its configstrings first.
SvNewMatch ==
    /\ sv.intermission = 1
    /\ SvQueue("cs", [sv EXCEPT !.intermission = 0, !.exitTime = -1])

SvMapRestart ==
    /\ sv.intermission = 0
    /\ sv.infoSent
    /\ sv.id < MaxId
    /\ SvQueue("map_restart",
               [sv EXCEPT !.id = sv.id + 1, !.infoSent = FALSE])

\* The system info with the new server id follows in the next frame.
SvSystemInfo ==
    /\ ~sv.infoSent
    /\ SvQueue("serverid", [sv EXCEPT !.infoSent = TRUE])

SvMapChange ==
    /\ sv.primed
    /\ sv.id < MaxId
    /\ sv' = [sv EXCEPT !.id = sv.id + 1, !.restartedId = sv.id + 1,
                        !.primed = FALSE, !.infoSent = TRUE,
                        !.intermission = 0, !.exitTime = -1]
    /\ UNCHANGED <<client, svLog, svAck, toClient>>

\* Time matters only once a match has ended.
SvTick ==
    /\ sv.exitTime # -1
    /\ sv.time < MaxTime
    /\ sv' = [sv EXCEPT !.time = sv.time + 1]
    /\ UNCHANGED <<client, svLog, svAck, toClient>>

SvMessage(kind, ack) ==
    [kind |-> kind, first |-> ack + 1,
     commands |-> SubSeq(svLog, ack + 1, Len(svLog)),
     id |-> sv.id, intermission |-> sv.intermission, time |-> sv.time]

SvSendSnapshot ==
    /\ Len(toClient) < NetCap
    /\ toClient' = Append(toClient, SvMessage("snapshot", svAck))
    /\ UNCHANGED <<client, server>>

\* The bot's packet is lost, or the server reads it at once: one that is late
\* cannot be told from one that is sent late, as the channels are queues.
LosePacket == CL_WritePacket /\ UNCHANGED <<server, toClient>>

\* The packet acknowledges commands.
SvReceive == CL_WritePacket /\ svAck' = serverCommandSequence /\ UNCHANGED svLog

SvReceivePacket ==
    /\ SvReceive
    /\ cl.serverId = sv.id => donedl = sv.donedl
    /\ UNCHANGED <<sv, toClient>>

\* The gamestate is sent when the packet shows an older map, not merely the
\* time before a restart, or when the bot asks for it.
SvSendGamestate ==
    /\ SvReceive
    /\ Len(toClient) <= NetCap
    /\ \/ cl.serverId < sv.restartedId
       \/ cl.serverId = sv.id /\ donedl > sv.donedl
    /\ sv' = [sv EXCEPT !.primed = TRUE,
                        !.donedl = IF cl.serverId = sv.id THEN donedl
                                   ELSE sv.donedl]
    /\ toClient' = Append(toClient, SvMessage("gamestate", svAck'))

\* A packet that never arrives is dropped where it would have been read.
LoseToClient ==
    /\ phase = "read"
    /\ toClient # << >>
    /\ toClient' = Tail(toClient)
    /\ UNCHANGED <<client, server>>

\* A turn of the main loop, but for the message it may read.
Turn ==
    \/ ReadNothing
    \/ ExecuteEmpty \/ ExecuteConfigstring \/ ExecuteSystemInfo
    \/ ExecuteScores \/ ExecuteMapRestart
    \/ LosePacket \/ SvReceivePacket \/ SvSendGamestate

ServerNext ==
    \/ SvPatch \/ SvScores \/ SvExit \/ SvNewMatch
    \/ SvMapRestart \/ SvSystemInfo \/ SvMapChange \/ SvTick
    \/ SvSendSnapshot \/ LoseToClient

Next == Turn \/ ReadGamestate \/ ReadSnapshot \/ ServerNext

Spec == Init /\ [][Next]_vars

\* The main loop turns, the server keeps sending snapshots, and the network
\* may lose any packet, but not for ever every one of a kind.
Fairness ==
    /\ WF_vars(Turn)
    /\ WF_vars(SvSendSnapshot)
    /\ WF_vars(SvSystemInfo)
    /\ SF_vars(SvReceivePacket)
    /\ SF_vars(SvSendGamestate)
    /\ SF_vars(ReadGamestate)
    /\ SF_vars(ReadSnapshot)

FairSpec == Spec /\ Fairness

(***************************************************************************)
(* Properties.                                                             *)
(***************************************************************************)
TypeOK ==
    /\ phase \in {"read", "execute"}
    /\ serverCommandSequence \in Nat
    /\ lastExecutedServerCommand \in 0 .. serverCommandSequence + 1
    /\ serverCommands \in [0 .. K - 1 -> Commands \cup {NoCommand}]
    /\ cl \in GameStates
    /\ intermissionTime \in Nat \cup {-1}
    /\ demo \in Ids \cup {NoDemo}
    /\ donedl \in Nat
    /\ gamestateId \in {0} \cup Ids
    /\ stale \in BOOLEAN
    /\ executed \in Seq(Commands)
    /\ svLog \in Seq(Commands)
    /\ svAck \in 0 .. serverCommandSequence
    /\ sv \in SvStates
    /\ toClient \in Seq(Messages)

\* The commands are executed in the order of their numbers, none twice, none
\* passed over, whatever messages are lost and however late the
\* acknowledges: the channel is the log of CommandLog.
Channel == INSTANCE CommandLog WITH
    Texts <- Commands, AckCmd <- NoCommand, log <- svLog, broken <- FALSE

ImplementsLog == Channel!Spec

\* Once the stored commands are executed, the configstring is the one the
\* server had after the last of them, gamestates and repeated commands
\* notwithstanding, unless one of an earlier map came after the gamestate.
ConfigstringsAgree ==
    (/\ lastExecutedServerCommand > serverCommandSequence
     /\ executed # << >>
     /\ ~stale)
        => LET c == executed[Len(executed)]
           IN  c.id = gamestateId => cl.intermission = c.intermission

\* intermissionTime is set exactly while CS_INTERMISSION is: the error that
\* CG_ParseScores_f reports ("but not in intermission!") cannot occur.
IntermissionIsKnown == intermissionTime # -1 <=> cl.intermission = 1

\* Scores end a demo only if the server sent them after the recorded match
\* was over (CG_ParseScores_f), unless a command of an earlier map acted on
\* the game state of this one.
StopsAfterMatch ==
    [][demo # NoDemo /\ demo' = NoDemo /\ ~stale'
        => Command.intermission = 1 \/ Command.id # demo]_vars

\* "stop the demo at this point so that we can get the metadata before map
\* changes" (CG_ParseScores_f): the scores the server sends in the
\* intermission of the recorded match end its demo.
FinalScoresEndDemo ==
    [][ExecuteScores /\ Command.final /\ Command.id = gamestateId
        => demo' = NoDemo]_vars

\* The bot ends up sending its packets under the server id of the map, or of
\* its restart, has executed every command, and has the gamestate; or the
\* server has sent the one it asked for after a restart, and it was lost: the
\* server sends it again only to a bot that shows another id.
Settles ==
    []<>(/\ cl.serverId = sv.id
         /\ lastExecutedServerCommand > Len(svLog)
         /\ gamestateId = sv.id \/ donedl = sv.donedl)
=============================================================================
