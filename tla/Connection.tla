------------------------------ MODULE Connection ------------------------------
(***************************************************************************)
(* How the bot connects to its server, and how it notices that it is no    *)
(* longer connected.  It asks for a challenge, answers it with a connect   *)
(* request, under its two protocol versions in turn, and sends packets     *)
(* once it is connected; each turn of the main loop reads at most one      *)
(* packet, and the bot leaves when none has come for a minute.             *)
(*                                                                         *)
(* DemoBot/deps.cpp and the main loop of DemoBot/demobot.cpp.  The game    *)
(* server and the network are external: packets may be lost or overtake    *)
(* each other, and repeated requests bring repeated answers.  Time is      *)
(* counted in units, and an age stops counting when nothing waits for it.  *)
(***************************************************************************)
EXTENDS Integers, FiniteSets

CONSTANTS
    Home,               \* the address the bot was started with
    Proxy,              \* the address its server hands it on to
    Elsewhere,          \* an address that answers what we have not asked
    RETRANSMIT_TIMEOUT, \* units before a request is sent again, 3 s
    RecentPacket,       \* units in which a disconnect is not believed, 3 s
    ServerTimeout,      \* units without a packet before the bot leaves, 60 s
    ProtocolOdd,        \* PROTOCOL_VERSION, of connect requests 1, 3, ...
    ProtocolEven,       \* PROTOCOL_VERSION - 1, of connect requests 2, 4, ...
    NetCap              \* bound: packets in flight in each direction, but
                        \* for one answer of the handshake

Addresses == {Home, Proxy, Elsewhere}
Protocols == {ProtocolOdd, ProtocolEven}

ASSUME AddressesAssumption ==
    Elsewhere \notin {Home, Proxy} /\ "none" \notin Addresses
ASSUME TimesAssumption ==
    /\ RETRANSMIT_TIMEOUT \in Nat \ {0}
    /\ RecentPacket \in Nat \ {0}
    /\ ServerTimeout \in Nat \ {0}
ASSUME NetCapAssumption == NetCap \in Nat

VARIABLES
    pc,                 \* "wait", "read" or "act": where the main loop is
    state,              \* cls.state
    serverAddress,      \* clc.serverAddress
    challenge,          \* clc.challenge: the bot's own, the server's, another
    connectPacketCount, \* of connect requests, modulo 2
    connectAge,         \* time since clc.connectTime
    remoteAddress,      \* clc.netchan.remoteAddress
    packetAge,          \* time since clc.lastPacketTime
    silence,            \* time since lastServerPacketTime
    svAddress,          \* server: the address it answers from
    svProtocol,         \* server: the protocol it speaks
    svClient,           \* server: what the bot is to it
    svFull,             \* server: it has no place for the bot, if it runs
    requests,           \* packets in flight to the server
    answers             \* packets in flight to the bot

handshake == <<state, serverAddress, challenge, connectPacketCount,
               remoteAddress>>
server == <<svAddress, svProtocol, svClient, svFull>>
vars == <<pc, handshake, connectAge, packetAge, silence, server, requests,
          answers>>

Challenges == {"own", "server", "other"}

Requests ==
    [kind : {"getchallenge"}, to : Addresses, own : Challenges]
        \cup [kind : {"connect"}, to : Addresses, challenge : Challenges,
              protocol : Protocols]
        \cup [kind : {"packet"}, to : Addresses]

Answers ==
    [kind : {"challengeResponse"}, from : Addresses, challenge : Challenges,
     own : Challenges]
        \cup [kind : {"connectResponse", "print", "disconnect",
                      "message", "dropMessage"}, from : Addresses]

TypeOK ==
    /\ pc \in {"wait", "read", "act"}
    /\ state \in {"connecting", "challenging", "connected", "disconnected"}
    /\ serverAddress \in Addresses
    /\ challenge \in Challenges
    /\ connectPacketCount \in {0, 1}
    /\ connectAge \in 0 .. RETRANSMIT_TIMEOUT
    /\ remoteAddress \in Addresses \cup {"none"}
    /\ state = "connected" => remoteAddress # "none"
    /\ packetAge \in 0 .. RecentPacket
    /\ silence \in 0 .. ServerTimeout + 1
    /\ svAddress \in {Home, Proxy}
    /\ svProtocol \in Protocols
    /\ svClient \in {"unknown", "connected", "dropped", "dead"}
    /\ svFull \in BOOLEAN
    /\ requests \subseteq Requests
    /\ answers \subseteq Answers

\* An answer to a request of someone else, from another server.
StrayAnswers ==
    {[kind |-> "challengeResponse", from |-> Elsewhere, challenge |-> "other",
      own |-> "other"],
     [kind |-> "connectResponse", from |-> Elsewhere]}

\* CL_Connect_f has run, with an address it can read and not "localhost".
Init ==
    /\ pc = "wait"
    /\ state = "connecting"
    /\ serverAddress = Home
    /\ challenge = "own"
    /\ connectPacketCount = 0
    /\ connectAge = RETRANSMIT_TIMEOUT
    /\ remoteAddress = "none"
    /\ packetAge = RecentPacket
    /\ silence = 0
    /\ svAddress \in {Home, Proxy}
    /\ svProtocol \in Protocols
    /\ svClient = "unknown"
    /\ svFull \in BOOLEAN
    /\ requests = {}
    /\ answers \in SUBSET StrayAnswers

(***************************************************************************)
(* The main loop.                                                          *)
(***************************************************************************)

Aged(age, dt, limit) == IF age + dt <= limit THEN age + dt ELSE limit

Sent(m) == IF Cardinality(requests) < NetCap THEN requests \cup {m} ELSE requests

\* The protocol a connect request names, the count already moved on.
ProtocolFirst(count) == ProtocolOdd

ProtocolOf(count) == IF count = 1 THEN ProtocolOdd ELSE ProtocolEven

Request(count) ==
    IF state = "connecting"
    THEN [kind |-> "getchallenge", to |-> serverAddress, own |-> challenge]
    ELSE [kind |-> "connect", to |-> serverAddress, challenge |-> challenge,
          protocol |-> ProtocolOf(count)]

\* The clock is read, and a request without an answer repeated.
CL_CheckForResend(dt) ==
    LET age == Aged(connectAge, dt, RETRANSMIT_TIMEOUT)
        due == /\ state \in {"connecting", "challenging"}
               /\ age >= RETRANSMIT_TIMEOUT
        count == 1 - connectPacketCount
    IN  /\ connectAge' = IF due THEN 0 ELSE age
        /\ connectPacketCount' = IF due THEN count ELSE connectPacketCount
        /\ requests' = IF due THEN Sent(Request(count)) ELSE requests

StartTurn(dt) ==
    /\ pc = "wait"
    /\ state # "disconnected"
    /\ CL_CheckForResend(dt)
    /\ packetAge' = Aged(packetAge, dt, RecentPacket)
    /\ silence' = Aged(silence, dt, ServerTimeout + 1)
    /\ pc' = "read"
    /\ UNCHANGED <<state, serverAddress, challenge, remoteAddress, server,
                   answers>>

\* A packet has come from anywhere: both clocks start again before it is
\* looked at.
PacketEvent(m) ==
    /\ pc = "read"
    /\ m \in answers
    /\ answers' = answers \ {m}
    /\ packetAge' = 0
    /\ silence' = 0
    /\ pc' = "act"
    /\ UNCHANGED <<server, requests>>

\* A challenge is taken from the address asked, or from one that knows ours.
ChallengeWanted(m) ==
    state = "connecting" /\ (m.from = serverAddress \/ m.own = challenge)

ReadChallengeResponse ==
    \E m \in answers :
        /\ m.kind = "challengeResponse"
        /\ PacketEvent(m)
        /\ IF ChallengeWanted(m)
           THEN /\ challenge' = m.challenge
                /\ state' = "challenging"
                /\ connectPacketCount' = 0
                /\ connectAge' = RETRANSMIT_TIMEOUT
                /\ serverAddress' = m.from
                /\ UNCHANGED remoteAddress
           ELSE UNCHANGED <<handshake, connectAge>>

ResponseWantedAnywhere(m) == state = "challenging"

ResponseWanted(m) == state = "challenging" /\ m.from = serverAddress

\* Netchan_Setup: whom the connection's packets go to from now on.
NotSetUp(m) == remoteAddress

NetchanSetup(m) == m.from

ReadConnectResponse ==
    \E m \in answers :
        /\ m.kind = "connectResponse"
        /\ PacketEvent(m)
        /\ IF ResponseWanted(m)
           THEN /\ state' = "connected"
                /\ remoteAddress' = NetchanSetup(m)
           ELSE UNCHANGED <<state, remoteAddress>>
        /\ UNCHANGED <<serverAddress, challenge, connectPacketCount, connectAge>>

\* The server is full, speaks the other protocol, ...: the bot keeps asking,
\* and its clocks have started again.
ReadPrint ==
    \E m \in answers :
        /\ m.kind = "print"
        /\ PacketEvent(m)
        /\ UNCHANGED <<handshake, connectAge>>

\* A disconnect is not believed while packets come in.  This one has.
ReadDisconnect ==
    \E m \in answers :
        /\ m.kind = "disconnect"
        /\ PacketEvent(m)
        /\ state' = IF /\ state = "connected"
                       /\ m.from = remoteAddress
                       /\ packetAge' >= RecentPacket
                    THEN "disconnected"
                    ELSE state
        /\ UNCHANGED <<serverAddress, challenge, connectPacketCount,
                       connectAge, remoteAddress>>

\* A message of the connection; the last one has us execute "disconnect".
ReadMessage ==
    \E m \in answers :
        /\ m.kind \in {"message", "dropMessage"}
        /\ PacketEvent(m)
        /\ state' = IF /\ m.kind = "dropMessage"
                       /\ state = "connected"
                       /\ m.from = remoteAddress
                    THEN "disconnected"
                    ELSE state
        /\ UNCHANGED <<serverAddress, challenge, connectPacketCount,
                       connectAge, remoteAddress>>

ReadNothing ==
    /\ pc = "read"
    /\ pc' = "act"
    /\ UNCHANGED <<handshake, connectAge, packetAge, silence, server,
                   requests, answers>>

\* No packet, from anywhere, for more than a minute.
TimedOutConnected == state = "connected" /\ silence > ServerTimeout

TimedOut == silence > ServerTimeout

\* A packet is written, to nobody before the bot is connected, and a last one
\* when it has just left; then it leaves if it has heard nothing for too long.
EndTurn ==
    /\ pc = "act"
    /\ pc' = "wait"
    /\ requests' = IF remoteAddress = "none"
                   THEN requests
                   ELSE Sent([kind |-> "packet", to |-> remoteAddress])
    /\ state' = IF TimedOut THEN "disconnected" ELSE state
    /\ UNCHANGED <<serverAddress, challenge, connectPacketCount, connectAge,
                   remoteAddress, packetAge, silence, server, answers>>

\* Nobody is left to play: the bot leaves.
Quit ==
    /\ pc = "act"
    /\ state = "connected"
    /\ pc' = "wait"
    /\ state' = "disconnected"
    /\ requests' = Sent([kind |-> "packet", to |-> remoteAddress])
    /\ UNCHANGED <<serverAddress, challenge, connectPacketCount, connectAge,
                   remoteAddress, packetAge, silence, server, answers>>

(***************************************************************************)
(* The server and the network (external).                                  *)
(***************************************************************************)

\* Request r is answered with packet m.
Answer(r, m) ==
    /\ svClient # "dead"
    /\ r.to # Elsewhere
    /\ requests' = requests \ {r}
    /\ answers' = answers \cup {m}
    /\ UNCHANGED <<pc, handshake, connectAge, packetAge, silence, svAddress,
                   svProtocol, svFull>>

Room == Cardinality(answers) < NetCap
RoomForOneMore == Cardinality(answers) <= NetCap

SvChallenge ==
    /\ RoomForOneMore
    /\ \E r \in requests :
           /\ r.kind = "getchallenge"
           /\ Answer(r, [kind |-> "challengeResponse", from |-> svAddress,
                         challenge |-> "server", own |-> r.own])
    /\ UNCHANGED svClient

Acceptable(r) == r.challenge = "server" /\ r.protocol = svProtocol /\ ~svFull

SvAccept ==
    /\ RoomForOneMore
    /\ \E r \in requests :
           /\ r.kind = "connect"
           /\ Acceptable(r)
           /\ Answer(r, [kind |-> "connectResponse", from |-> svAddress])
    /\ svClient' = "connected"

SvRefuse ==
    /\ Room
    /\ \E r \in requests :
           /\ r.kind = "connect"
           /\ ~Acceptable(r)
           /\ Answer(r, [kind |-> "print", from |-> svAddress])
    /\ UNCHANGED svClient

SvPacket ==
    /\ Room
    /\ \E r \in requests :
           /\ r.kind = "packet"
           /\ IF svClient = "connected"
              THEN Answer(r, [kind |-> "message", from |-> svAddress])
              ELSE Answer(r, [kind |-> "disconnect", from |-> svAddress])
    /\ UNCHANGED svClient

\* The server drops the bot, and tells it once in a message.
SvDrop ==
    /\ Room
    /\ svClient = "connected"
    /\ svClient' = "dropped"
    /\ answers' = answers \cup {[kind |-> "dropMessage", from |-> svAddress]}
    /\ UNCHANGED <<pc, handshake, connectAge, packetAge, silence, svAddress,
                   svProtocol, svFull, requests>>

SvDies ==
    /\ svClient # "dead"
    /\ svClient' = "dead"
    /\ svFull' = FALSE
    /\ UNCHANGED <<pc, handshake, connectAge, packetAge, silence, svAddress,
                   svProtocol, requests, answers>>

\* While the bot has no place at it the server fills up, or a player leaves
\* it: so does a password that is set, or a ban.
SvFills ==
    /\ svClient \in {"unknown", "dropped"}
    /\ svFull' = ~svFull
    /\ UNCHANGED <<pc, handshake, connectAge, packetAge, silence, svAddress,
                   svProtocol, svClient, requests, answers>>

LoseRequest ==
    /\ \E r \in requests : requests' = requests \ {r}
    /\ UNCHANGED <<pc, handshake, connectAge, packetAge, silence, server,
                   answers>>

\* A packet that never arrives is dropped where it would have been read.
LoseAnswer ==
    /\ pc = "read"
    /\ \E m \in answers : answers' = answers \ {m}
    /\ UNCHANGED <<pc, handshake, connectAge, packetAge, silence, server,
                   requests>>

\* The main loop has ended.
Terminated == state = "disconnected" /\ pc = "wait" /\ UNCHANGED vars

ClientNext ==
    \/ \E dt \in {0, 1} : StartTurn(dt)
    \/ ReadChallengeResponse \/ ReadConnectResponse \/ ReadPrint
    \/ ReadDisconnect \/ ReadMessage \/ ReadNothing
    \/ EndTurn \/ Quit

ServerNext ==
    \/ SvChallenge \/ SvAccept \/ SvRefuse \/ SvPacket \/ SvDrop \/ SvDies
    \/ SvFills \/ LoseRequest \/ LoseAnswer

Next == ClientNext \/ ServerNext \/ Terminated

Spec == Init /\ [][Next]_vars

(***************************************************************************)
(* Fairness.  The main loop goes on, NET_Sleep returning after a second at *)
(* the latest, and time goes on.  No request is on its way for ever, and   *)
(* of the requests and the replies that matter some get through.           *)
(***************************************************************************)
ReadReply == ReadChallengeResponse \/ ReadConnectResponse \/ ReadDisconnect
SvReply == SvChallenge \/ SvAccept \/ SvPacket

Fairness ==
    /\ WF_vars(ClientNext)
    /\ SF_vars(StartTurn(1))
    /\ WF_vars(LoseRequest \/ SvRefuse \/ SvReply)
    /\ SF_vars(SvReply)
    /\ SF_vars(ReadReply)

FairSpec == Spec /\ Fairness

(***************************************************************************)
(* Properties.                                                             *)
(***************************************************************************)

\* The bot is connected only to a server that has accepted it, at an address
\* it asked itself or that answered its own challenge: repeated, late and
\* stray answers do not connect it elsewhere.
ConnectedIsAccepted ==
    state = "connected" =>
        /\ remoteAddress = serverAddress
        /\ remoteAddress # Elsewhere
        /\ challenge = "server"
        /\ svClient # "unknown"

\* Whichever of the two protocols the server speaks, and however often it is
\* full at first, the handshake ends unless the server is full again and again:
\* the bot connects, or leaves because it hears nothing.  One that stays full
\* is never left: each refusal renews lastServerPacketTime (main).
HandshakeEnds ==
    <>[]~svFull => <>(state \in {"connected", "disconnected"})

\* When the server is gone the bot does not stay for ever, whatever it was
\* doing and whatever is still on its way.
DeadServerIsLeft == svClient = "dead" ~> state = "disconnected"

\* "If the client continues to send packets to the server, the server will
\* send out of band disconnect packets to the client so it doesn't have to
\* wait for the full timeout period" (CL_DisconnectPacket, deps.cpp:420):
\* a bot the server has dropped leaves.
DroppedBotLeaves ==
    svClient = "dropped" ~> state = "disconnected" \/ svClient # "dropped"
=============================================================================
