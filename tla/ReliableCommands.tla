-------------------------- MODULE ReliableCommands --------------------------
(***************************************************************************)
(* The bot's reliable command channel to the game server and the rule by   *)
(* which it throws away the offset server time reported at a map change.   *)
(*                                                                         *)
(* A command is numbered when it is queued (NewClientCommand), sits in a   *)
(* ring of K slots until the server acknowledges its number, and goes out  *)
(* one at a time, at most once a second (CL_WritePacket).  Every server    *)
(* message carries the number of the last command executed.  A gamestate   *)
(* (the start of a map) drops the queue but for the command that may be in *)
(* flight and queues an empty command, gamestateAckCmd; until that one is  *)
(* acknowledged the snapshots' time is not believed.                       *)
(*                                                                         *)
(* Client: DemoBot/deps.cpp and DemoBot/demobot.cpp.  The server and the   *)
(* netchan are not in the repository: they are modelled from what the      *)
(* client's code and comments rely on.  The netchan throws away duplicate  *)
(* and late packets, so a channel is a queue whose head may be lost.       *)
(***************************************************************************)
EXTENDS Integers, Sequences

CONSTANTS
    K,          \* MAX_RELIABLE_COMMANDS, the slots of the ring
    Cmds,       \* the texts of ordinary commands: "team s", chat, "donedl"
    Disconnect, \* the text of the command sent on leaving
    AckCmd,     \* the text of gamestateAckCmd, "\n" in the code
    NoTime,     \* cl.serverTime before the first snapshot of a gamestate
    MaxSeq,     \* bound: commands are queued up to this number
    MaxMap,     \* bound: the number of maps the server loads
    NetCap      \* bound: packets in flight in each direction, gamestates apart

Texts == Cmds \cup {Disconnect, AckCmd}

ASSUME KAssumption == K \in Nat \ {0, 1}
ASSUME BoundsAssumption == MaxSeq \in Nat /\ MaxMap \in Nat /\ NetCap \in Nat
ASSUME NoTimeAssumption == NoTime \notin [id : Nat, offset : BOOLEAN]

VARIABLES
    phase,               \* where the main loop is, "gone" once it has ended
    reliableSequence,    \* number of the last command queued
    reliableAcknowledge, \* number of the last command the server has seen
    reliableCommands,    \* the ring, indexed by number % K
    gamestateAckCmd,     \* number of the empty command of the last gamestate
    commandTimer,        \* more than a second since the last command was sent
    serverId,            \* the map of the last gamestate
    serverTime,          \* the last time believed: its map, offset or not
    svServerId,          \* server: the map it runs
    svOffset,            \* server: it still adds oldServerTime to the time
    svExecuted,          \* server: the commands executed, in order
    svDropped,           \* server: dropped us for "Lost reliable commands"
    toServer,            \* packets in flight
    toClient,
    log,                 \* history: log[n] is the command now numbered n
    overrun              \* history: more than K commands were outstanding

client == <<phase, reliableSequence, reliableAcknowledge, reliableCommands,
            gamestateAckCmd, commandTimer, serverId, serverTime, log, overrun>>
server == <<svServerId, svOffset, svExecuted, svDropped>>
vars == <<client, server, toServer, toClient>>

\* A client packet carries the map it was sent in and one command or none.
NoCommand == 0
Packets == [id : Nat, num : Nat, text : Texts]

\* Every server message carries its map and the last command executed; a
\* snapshot's time is offset or not.
Messages == [kind : {"gamestate", "snapshot"}, id : Nat, offset : BOOLEAN,
             ack : Nat]

lastClientCommand == Len(svExecuted)

Min2(a, b) == IF a <= b THEN a ELSE b

TypeOK ==
    /\ phase \in {"read", "act", "bye", "gone"}
    /\ reliableSequence \in Nat
    /\ reliableAcknowledge \in Nat
    /\ reliableCommands \in [0 .. K - 1 -> Texts]
    /\ gamestateAckCmd \in Nat \cup {-1}
    /\ commandTimer \in BOOLEAN
    /\ serverId \in Nat
    /\ serverTime \in [id : Nat, offset : BOOLEAN] \cup {NoTime}
    /\ svServerId \in Nat
    /\ svOffset \in BOOLEAN
    /\ svExecuted \in Seq(Texts)
    /\ svDropped \in BOOLEAN
    /\ toServer \in Seq(Packets)
    /\ toClient \in Seq(Messages)
    /\ log \in Seq(Texts)
    /\ Len(log) = reliableSequence
    /\ overrun \in BOOLEAN

\* The handshake is over, no gamestate has arrived: cl and clc are zero but
\* for gamestateAckCmd.  An unused slot reads as an empty command.
Init ==
    /\ phase = "read"
    /\ reliableSequence = 0
    /\ reliableAcknowledge = 0
    /\ reliableCommands = [i \in 0 .. K - 1 |-> AckCmd]
    /\ gamestateAckCmd = -1
    /\ commandTimer = TRUE
    /\ serverId = 0
    /\ serverTime = NoTime
    /\ svServerId = 1
    /\ svOffset = FALSE
    /\ svExecuted = << >>
    /\ svDropped = FALSE
    /\ toServer = << >>
    /\ toClient = << >>
    /\ log = << >>
    /\ overrun = FALSE

(***************************************************************************)
(* The client.  One turn of the main loop reads at most one packet, queues *)
(* commands (replies to what the packet carried, "team s", "disconnect"),  *)
(* and writes one packet.                                                  *)
(***************************************************************************)

\* The acknowledge a message brings.  One that is further behind than the
\* ring is long is replaced by reliableSequence.
Acknowledge(m) ==
    IF m.ack < reliableSequence - K THEN reliableSequence ELSE m.ack

\* What the gamestate keeps of the queue: commands up to this number.
LastKeptDropsInFlight(ack) == Min2(ack, reliableSequence)

LastKeptRestarts(ack) == 0

LastKept(ack) == Min2(ack + 1, reliableSequence)

\* The number of the empty command that will show the gamestate was seen.
NextAckCmdReused(ack) == LastKept(ack)

NextAckCmd(ack) == LastKept(ack) + 1

\* A gamestate starts a map: the queue is cut, the empty command queued.
ParseGamestate(m) ==
    LET ack == Acknowledge(m)
        num == NextAckCmd(ack)
    IN  /\ m.kind = "gamestate"
        /\ reliableAcknowledge' = ack
        /\ reliableSequence' = num
        /\ gamestateAckCmd' = num
        /\ reliableCommands' = [reliableCommands EXCEPT ![num % K] = AckCmd]
        /\ log' = Append(SubSeq(log, 1, num - 1), AckCmd)
        /\ serverId' = m.id
        /\ serverTime' = NoTime
        /\ UNCHANGED overrun

\* A snapshot's time is believed once the empty command is acknowledged.
TimeBelievedEarly(ack) == ack >= gamestateAckCmd - 1

TimeBelieved(ack) == ack >= gamestateAckCmd

ParseSnapshot(m) ==
    LET ack == Acknowledge(m)
    IN  /\ m.kind = "snapshot"
        /\ reliableAcknowledge' = ack
        /\ serverTime' = IF TimeBelieved(ack)
                         THEN [id |-> m.id, offset |-> m.offset]
                         ELSE serverTime
        /\ UNCHANGED <<reliableSequence, gamestateAckCmd, reliableCommands,
                       log, serverId, overrun>>

CL_ParseServerMessage(m) == ParseGamestate(m) \/ ParseSnapshot(m)

ReadGamestate ==
    /\ phase = "read"
    /\ toClient # << >>
    /\ ParseGamestate(Head(toClient))
    /\ toClient' = Tail(toClient)
    /\ phase' = "act"
    /\ UNCHANGED <<commandTimer, server, toServer>>

ReadSnapshot ==
    /\ phase = "read"
    /\ toClient # << >>
    /\ ParseSnapshot(Head(toClient))
    /\ toClient' = Tail(toClient)
    /\ phase' = "act"
    /\ UNCHANGED <<commandTimer, server, toServer>>

\* NET_Sleep returned with no packet to read.
ReadNothing ==
    /\ phase = "read"
    /\ phase' = "act"
    /\ UNCHANGED <<reliableSequence, reliableAcknowledge, reliableCommands,
                   gamestateAckCmd, commandTimer, serverId, serverTime, log,
                   overrun, server, toServer, toClient>>

\* The next number is taken and its slot overwritten, whatever it holds.
NewClientCommand(c) ==
    LET num == reliableSequence + 1
    IN  /\ num <= MaxSeq
        /\ reliableSequence' = num
        /\ reliableCommands' = [reliableCommands EXCEPT ![num % K] = c]
        /\ log' = Append(log, c)
        /\ overrun' = (overrun \/ num - reliableAcknowledge > K)
        /\ UNCHANGED <<reliableAcknowledge, gamestateAckCmd, commandTimer,
                       serverId, serverTime, server, toServer, toClient>>

\* Chat, "team s" and "donedl" follow what was read; the chat that reports a
\* finished match index precedes it.
QueueCommand ==
    /\ phase \in {"read", "act"}
    /\ \E c \in Cmds : NewClientCommand(c)
    /\ UNCHANGED phase

\* Too few humans: queue "disconnect" and leave after one more packet.
Quit ==
    /\ phase = "act"
    /\ NewClientCommand(Disconnect)
    /\ phase' = "bye"

\* The one command a packet carries, if any: the oldest not acknowledged.
CommandDueLast ==
    IF commandTimer /\ reliableAcknowledge < reliableSequence
    THEN reliableSequence
    ELSE NoCommand

CommandDueShort ==
    IF commandTimer /\ reliableAcknowledge + 1 < reliableSequence
    THEN reliableAcknowledge + 1
    ELSE NoCommand

CommandDue ==
    IF commandTimer /\ reliableAcknowledge < reliableSequence
    THEN reliableAcknowledge + 1
    ELSE NoCommand

CL_WritePacket ==
    LET num == CommandDue
    IN  /\ phase \in {"act", "bye"}
        /\ Len(toServer) < NetCap
        /\ toServer' = Append(toServer,
               [id |-> serverId, num |-> num,
                text |-> IF num = NoCommand THEN AckCmd
                         ELSE reliableCommands[num % K]])
        /\ commandTimer' = (commandTimer /\ num = NoCommand)
        /\ phase' = IF phase = "bye" THEN "gone" ELSE "read"
        /\ UNCHANGED <<reliableSequence, reliableAcknowledge, reliableCommands,
                       gamestateAckCmd, serverId, serverTime, log, overrun,
                       server, toClient>>

\* A second passes.
CommandTimer ==
    /\ phase # "gone"
    /\ ~commandTimer
    /\ commandTimer' = TRUE
    /\ UNCHANGED <<phase, reliableSequence, reliableAcknowledge,
                   reliableCommands, gamestateAckCmd, serverId, serverTime,
                   log, overrun, server, toServer, toClient>>

\* No packet from the server in 60 seconds.
Timeout ==
    /\ phase = "read"
    /\ toClient = << >>
    /\ phase' = "gone"
    /\ UNCHANGED <<reliableSequence, reliableAcknowledge, reliableCommands,
                   gamestateAckCmd, commandTimer, serverId, serverTime, log,
                   overrun, server, toServer, toClient>>

(***************************************************************************)
(* The server and the network (external).                                  *)
(***************************************************************************)

SvMessage(kind) ==
    [kind |-> kind, id |-> svServerId, offset |-> svOffset,
     ack |-> lastClientCommand]

\* A packet of another map: its command is not executed.
SvIgnorePacket ==
    /\ ~svDropped
    /\ toServer # << >>
    /\ Head(toServer).id # svServerId
    /\ toServer' = Tail(toServer)
    /\ UNCHANGED <<client, server, toClient>>

\* ... and if the client seems to have missed the gamestate, send it again,
\* even when the snapshots in flight are as many as the bound allows.
SvResendGamestate ==
    /\ ~svDropped
    /\ toServer # << >>
    /\ Head(toServer).id # svServerId
    /\ toServer' = Tail(toServer)
    /\ Len(toClient) <= NetCap
    /\ toClient' = Append(toClient, SvMessage("gamestate"))
    /\ UNCHANGED <<client, server>>

\* A packet of this map: the gamestate was seen, the true time is sent from
\* now on.  Its command is executed if it is the next one.
SvExecutePacket ==
    LET p == Head(toServer)
    IN  /\ ~svDropped
        /\ toServer # << >>
        /\ p.id = svServerId
        /\ toServer' = Tail(toServer)
        /\ svOffset' = FALSE
        /\ svExecuted' = IF p.num = lastClientCommand + 1
                         THEN Append(svExecuted, p.text)
                         ELSE svExecuted
        /\ svDropped' = (p.num > lastClientCommand + 1)
        /\ UNCHANGED <<client, svServerId, toClient>>

SvSendSnapshot ==
    /\ ~svDropped
    /\ Len(toClient) < NetCap
    /\ toClient' = Append(toClient, SvMessage("snapshot"))
    /\ UNCHANGED <<client, server, toServer>>

SvMapChange ==
    /\ ~svDropped
    /\ svServerId < MaxMap
    /\ svServerId' = svServerId + 1
    /\ svOffset' = TRUE
    /\ UNCHANGED <<client, svExecuted, svDropped, toServer, toClient>>

LoseToServer ==
    /\ toServer # << >>
    /\ toServer' = Tail(toServer)
    /\ UNCHANGED <<client, server, toClient>>

\* A packet that never arrives is dropped where it would have been read.
LoseToClient ==
    /\ phase = "read"
    /\ toClient # << >>
    /\ toClient' = Tail(toClient)
    /\ UNCHANGED <<client, server, toServer>>

\* The process has ended.
Terminated == phase = "gone" /\ UNCHANGED vars

ClientNext ==
    \/ ReadGamestate \/ ReadSnapshot \/ ReadNothing
    \/ QueueCommand \/ Quit \/ CL_WritePacket
    \/ CommandTimer \/ Timeout

ServerNext ==
    \/ SvIgnorePacket \/ SvResendGamestate \/ SvExecutePacket
    \/ SvSendSnapshot \/ SvMapChange
    \/ LoseToServer \/ LoseToClient

Next == ClientNext \/ ServerNext \/ Terminated

Spec == Init /\ [][Next]_vars

(***************************************************************************)
(* Fairness.  The main loop never blocks for more than a second, so a turn *)
(* always goes on; the server keeps sending snapshots; the network may     *)
(* lose any packet, but not for ever every one of a kind.                  *)
(***************************************************************************)
CarriesCommand == toServer # << >> /\ Head(toServer).num # NoCommand

ToServerMoves ==
    SvIgnorePacket \/ SvResendGamestate \/ SvExecutePacket \/ LoseToServer

Fairness ==
    /\ WF_vars(ReadNothing)
    /\ WF_vars(ToServerMoves)
    /\ WF_vars(CL_WritePacket)
    /\ WF_vars(CommandTimer)
    /\ WF_vars(SvSendSnapshot)
    /\ SF_vars(SvResendGamestate)
    /\ SF_vars(SvExecutePacket)
    /\ SF_vars(CarriesCommand /\ SvExecutePacket)
    /\ SF_vars(ReadGamestate)
    /\ SF_vars(ReadSnapshot)

FairSpec == Spec /\ Fairness

(***************************************************************************)
(* Properties.                                                             *)
(***************************************************************************)

\* Once the client has a map's gamestate, it never takes from a snapshot of
\* that map the offset time the server reports until it has seen our first
\* packet of the map (comment at the svc_snapshot case of
\* CL_ParseServerMessage), as long as the ring never overran.
NoOffsetTime ==
    ~overrun /\ serverTime # NoTime /\ serverTime.id = serverId
        => ~serverTime.offset

\* The server executes the commands in the order of their numbers, each
\* once, and a command it has executed is never renumbered or replaced by
\* what a gamestate drops from the queue.
ExecutedInOrder ==
    ~overrun => /\ lastClientCommand <= reliableSequence
                /\ \A n \in 1 .. lastClientCommand : svExecuted[n] = log[n]

\* The server drops the bot for lost commands only after the ring overran.
DroppedOnlyByOverrun == svDropped => overrun

\* While a command is not acknowledged its slot still holds it, so that
\* CL_WritePacket can send it again ("write any unacknowledged
\* clientCommands", deps.cpp:1621).
UnacknowledgedKept ==
    \A n \in reliableAcknowledge + 1 .. reliableSequence :
        reliableCommands[n % K] = log[n]

\* The number chosen for the empty command of a gamestate was never sent
\* with another text: nothing in flight and nothing executed reaches it.
AckCmdIsFresh ==
    [][ReadGamestate /\ ~overrun =>
        /\ gamestateAckCmd' > lastClientCommand
        /\ \A i \in 1 .. Len(toServer) : toServer[i].num < gamestateAckCmd']_vars

\* As long as the ring has not overrun, the channel is the log of CommandLog.
Channel == INSTANCE CommandLog WITH executed <- svExecuted, broken <- overrun

ImplementsLog == Channel!Spec

\* Unless the bot leaves, is dropped or overruns its ring, it ends up in the
\* server's last map with a time of that map that it believes.
TimeIsBelieved ==
    []<>(\/ serverTime # NoTime /\ serverTime.id = svServerId
            /\ serverId = svServerId
         \/ phase = "gone" \/ svDropped \/ overrun)

(***************************************************************************)
(* The inductive invariant.  What holds until the ring overruns:           *)
(***************************************************************************)

\* what the server has executed lies between what the client knows of it
\* and the one command that may be in flight;
Window ==
    /\ reliableAcknowledge <= lastClientCommand
    /\ lastClientCommand <= reliableAcknowledge + 1
    /\ lastClientCommand <= reliableSequence
    /\ reliableSequence - reliableAcknowledge <= K
    /\ gamestateAckCmd <= reliableSequence
    /\ ~svDropped

\* commands in flight are the log's, and those numbered from
\* gamestateAckCmd on were sent after the gamestate;
PacketsInFlight ==
    \A i \in 1 .. Len(toServer) :
        LET p == toServer[i]
        IN  p.num # NoCommand =>
                /\ p.num <= reliableAcknowledge + 1
                /\ p.num <= reliableSequence
                /\ p.text = log[p.num]
                /\ p.num >= gamestateAckCmd => p.id = serverId

\* acknowledges in flight are in order;
AcksInFlight ==
    /\ \A i \in 1 .. Len(toClient) :
           /\ reliableAcknowledge <= toClient[i].ack
           /\ toClient[i].ack <= lastClientCommand
    /\ \A i, j \in 1 .. Len(toClient) :
           i < j => toClient[i].ack <= toClient[j].ack

\* whoever acknowledges gamestateAckCmd in the client's map has stopped
\* adding the offset.
MapsInFlight ==
    /\ serverId <= svServerId
    /\ lastClientCommand >= gamestateAckCmd /\ svServerId = serverId
           => ~svOffset
    /\ \A i \in 1 .. Len(toClient) :
           /\ toClient[i].id <= svServerId
           /\ toClient[i].ack >= gamestateAckCmd /\ toClient[i].id = serverId
                  => ~toClient[i].offset

Executed == \A n \in 1 .. lastClientCommand : svExecuted[n] = log[n]

Consistent ==
    /\ Window
    /\ PacketsInFlight
    /\ AcksInFlight
    /\ MapsInFlight
    /\ Executed
    /\ UnacknowledgedKept
    /\ serverTime # NoTime /\ serverTime.id = serverId => ~serverTime.offset

\* The invariant the theorems of ReliableCommandsProofs rest on.
IInv == overrun \/ Consistent

=============================================================================
