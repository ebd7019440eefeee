--------------------------- MODULE ConnectionProofs ---------------------------
(***************************************************************************)
(* The safety invariants of Connection hold for any addresses, times and   *)
(* number of packets in flight.                                            *)
(***************************************************************************)
EXTENDS Connection, TLAPS

(***************************************************************************)
(* The inductive invariant.                                                *)
(***************************************************************************)

\* What the bot knows of its server in each of the states it asks in.
HandshakeIsOwn ==
    /\ state = "connecting" => serverAddress = Home /\ challenge = "own"
    /\ state \in {"challenging", "connected"} =>
           serverAddress = svAddress /\ challenge = "server"
    /\ state = "connected" => remoteAddress = svAddress /\ svClient # "unknown"

\* An answer of the handshake is the server's, which has accepted the bot if
\* it says so, or a stray one, which does not know the bot's challenge.
AnswersAreOwn ==
    \A m \in answers :
        /\ m.kind = "challengeResponse" =>
               \/ m.from = svAddress /\ m.challenge = "server"
               \/ m.from = Elsewhere /\ m.own = "other"
        /\ m.kind = "connectResponse" =>
               \/ m.from = svAddress /\ svClient # "unknown"
               \/ m.from = Elsewhere

IInv == TypeOK /\ HandshakeIsOwn /\ AnswersAreOwn

LEMMA InvInit == Init => IInv
  <1>. SUFFICES ASSUME Init PROVE IInv
    OBVIOUS
  <1>1. StrayAnswers \subseteq Answers
    BY DEF StrayAnswers, Answers, Addresses, Challenges
  <1>2. TypeOK
    BY <1>1, TimesAssumption
    DEF Init, TypeOK, Addresses, Protocols, Challenges
  <1>3. AnswersAreOwn
    BY DEF Init, AnswersAreOwn, StrayAnswers
  <1>. QED  BY <1>2, <1>3 DEF Init, IInv, HandshakeIsOwn

(***************************************************************************)
(* The main loop.                                                          *)
(***************************************************************************)

LEMMA AgedType ==
    ASSUME NEW limit \in Nat, NEW age \in 0 .. limit, NEW dt \in {0, 1}
    PROVE  Aged(age, dt, limit) \in 0 .. limit
  BY DEF Aged

LEMMA SentType ==
    ASSUME TypeOK, NEW m \in Requests
    PROVE  Sent(m) \subseteq Requests
  BY DEF TypeOK, Sent

LEMMA RequestType ==
    ASSUME TypeOK, NEW count \in {0, 1}
    PROVE  Request(count) \in Requests
  BY DEF TypeOK, Request, Requests, ProtocolOf, Protocols

LEMMA StartTurnKeeps ==
    ASSUME IInv, NEW dt \in {0, 1}, StartTurn(dt)
    PROVE  IInv'
  <1>1. /\ pc' = "read" /\ CL_CheckForResend(dt)
        /\ packetAge' = Aged(packetAge, dt, RecentPacket)
        /\ silence' = Aged(silence, dt, ServerTimeout + 1)
        /\ UNCHANGED <<state, serverAddress, challenge, remoteAddress, svAddress,
                       svProtocol, svClient, svFull, answers>>
    BY DEF StartTurn, server
  <1>2. /\ connectAge' \in 0 .. RETRANSMIT_TIMEOUT
        /\ connectPacketCount' \in {0, 1}
        /\ requests' \subseteq Requests
    <2>. DEFINE count == 1 - connectPacketCount
    <2>1. count \in {0, 1}
      BY DEF IInv, TypeOK
    <2>2. Sent(Request(count)) \subseteq Requests
      BY <2>1, RequestType, SentType DEF IInv
    <2>3. Aged(connectAge, dt, RETRANSMIT_TIMEOUT) \in 0 .. RETRANSMIT_TIMEOUT
      BY TimesAssumption, AgedType DEF IInv, TypeOK
    <2>. QED
      BY <1>1, <2>1, <2>2, <2>3, TimesAssumption DEF IInv, TypeOK, CL_CheckForResend
  <1>3. packetAge' \in 0 .. RecentPacket /\ silence' \in 0 .. ServerTimeout + 1
    <2>1. RecentPacket \in Nat /\ ServerTimeout + 1 \in Nat
      BY TimesAssumption
    <2>2. packetAge \in 0 .. RecentPacket /\ silence \in 0 .. ServerTimeout + 1
      BY DEF IInv, TypeOK
    <2>3. Aged(packetAge, dt, RecentPacket) \in 0 .. RecentPacket
      BY <2>1, <2>2, AgedType
    <2>4. Aged(silence, dt, ServerTimeout + 1) \in 0 .. ServerTimeout + 1
      <3>. DEFINE limit == ServerTimeout + 1
      <3>. HIDE DEF limit
      <3>1. Aged(silence, dt, limit) \in 0 .. limit
        BY <2>1, <2>2, AgedType DEF limit
      <3>. QED  BY <3>1 DEF limit
    <2>. QED  BY <1>1, <2>3, <2>4
  <1>. QED
    BY <1>1, <1>2, <1>3 DEF IInv, TypeOK, HandshakeIsOwn, AnswersAreOwn

\* What every packet that is read changes, and what it leaves.
LEMMA PacketFacts ==
    ASSUME IInv, NEW m, PacketEvent(m)
    PROVE  /\ m \in answers /\ m \in Answers
           /\ pc' = "act" /\ packetAge' = 0 /\ silence' = 0
           /\ 0 \in 0 .. RecentPacket /\ 0 \in 0 .. ServerTimeout + 1
           /\ answers' \subseteq Answers /\ AnswersAreOwn'
           /\ UNCHANGED <<svAddress, svProtocol, svClient, svFull, requests>>
  BY TimesAssumption DEF PacketEvent, server, IInv, TypeOK, AnswersAreOwn

\* A packet is read that changes nothing of the handshake but perhaps ends it.
LEMMA OtherPacketKeeps ==
    ASSUME IInv, NEW m, PacketEvent(m), state' \in {state, "disconnected"},
           UNCHANGED <<serverAddress, challenge, connectPacketCount, connectAge,
                       remoteAddress>>
    PROVE  IInv'
  BY PacketFacts DEF IInv, TypeOK, HandshakeIsOwn

LEMMA ReadChallengeResponseKeeps ==
    ASSUME IInv, ReadChallengeResponse
    PROVE  IInv'
  <1>1. PICK m \in answers :
            /\ m.kind = "challengeResponse"
            /\ PacketEvent(m)
            /\ IF ChallengeWanted(m)
               THEN /\ challenge' = m.challenge
                    /\ state' = "challenging"
                    /\ connectPacketCount' = 0
                    /\ connectAge' = RETRANSMIT_TIMEOUT
                    /\ serverAddress' = m.from
                    /\ UNCHANGED remoteAddress
               ELSE UNCHANGED <<handshake, connectAge>>
    BY DEF ReadChallengeResponse
  <1>2. CASE ~ChallengeWanted(m)
    BY <1>1, <1>2, OtherPacketKeeps DEF handshake
  <1>3. CASE ChallengeWanted(m)
    <2>1. m.from = svAddress /\ m.challenge = "server"
      <3>1. state = "connecting" /\ (m.from = Home \/ m.own = "own")
        BY <1>3 DEF ChallengeWanted, IInv, HandshakeIsOwn
      <3>. QED
        BY <1>1, <3>1, AddressesAssumption DEF IInv, AnswersAreOwn
    <2>2. svAddress \in Addresses /\ "server" \in Challenges
      BY DEF IInv, TypeOK, Addresses, Challenges
    <2>3. TypeOK'
      BY <1>1, <1>3, <2>1, <2>2, PacketFacts, TimesAssumption DEF IInv, TypeOK
    <2>4. HandshakeIsOwn'
      BY <1>1, <1>3, <2>1, PacketFacts DEF HandshakeIsOwn
    <2>. QED  BY <1>1, <2>3, <2>4, PacketFacts DEF IInv
  <1>. QED  BY <1>2, <1>3

LEMMA ReadConnectResponseKeeps ==
    ASSUME IInv, ReadConnectResponse
    PROVE  IInv'
  <1>1. PICK m \in answers :
            /\ m.kind = "connectResponse"
            /\ PacketEvent(m)
            /\ IF ResponseWanted(m)
               THEN /\ state' = "connected"
                    /\ remoteAddress' = NetchanSetup(m)
               ELSE UNCHANGED <<state, remoteAddress>>
            /\ UNCHANGED <<serverAddress, challenge, connectPacketCount, connectAge>>
    BY DEF ReadConnectResponse
  <1>2. CASE ~ResponseWanted(m)
    BY <1>1, <1>2, OtherPacketKeeps
  <1>3. CASE ResponseWanted(m)
    <2>1. /\ state = "challenging" /\ m.from = svAddress
          /\ serverAddress = svAddress /\ challenge = "server"
      BY <1>3 DEF ResponseWanted, IInv, HandshakeIsOwn
    <2>2. svAddress \in Addresses /\ svAddress # Elsewhere /\ svAddress # "none"
      BY AddressesAssumption DEF IInv, TypeOK, Addresses
    <2>3. svClient # "unknown"
      BY <1>1, <2>1, <2>2 DEF IInv, AnswersAreOwn
    <2>4. TypeOK'
      BY <1>1, <1>3, <2>1, <2>2, PacketFacts DEF IInv, TypeOK, NetchanSetup
    <2>5. HandshakeIsOwn'
      BY <1>1, <1>3, <2>1, <2>3, PacketFacts DEF HandshakeIsOwn, NetchanSetup
    <2>. QED  BY <1>1, <2>4, <2>5, PacketFacts DEF IInv
  <1>. QED  BY <1>2, <1>3

LEMMA ReadOtherKeeps ==
    ASSUME IInv, ReadPrint \/ ReadDisconnect \/ ReadMessage
    PROVE  IInv'
  <1>1. CASE ReadPrint
    BY <1>1, OtherPacketKeeps DEF ReadPrint, handshake
  <1>2. CASE ReadDisconnect
    BY <1>2, OtherPacketKeeps DEF ReadDisconnect
  <1>3. CASE ReadMessage
    BY <1>3, OtherPacketKeeps DEF ReadMessage
  <1>. QED  BY <1>1, <1>2, <1>3

LEMMA ReadNothingKeeps ==
    ASSUME IInv, ReadNothing
    PROVE  IInv'
  BY DEF ReadNothing, handshake, server, IInv, TypeOK, HandshakeIsOwn, AnswersAreOwn

\* The turn ends with a packet, and the bot stays, or leaves.
LEMMA EndTurnKeeps ==
    ASSUME IInv, EndTurn \/ Quit
    PROVE  IInv'
  <1>1. /\ pc' = "wait" /\ state' \in {state, "disconnected"}
        /\ UNCHANGED <<serverAddress, challenge, connectPacketCount, connectAge,
                       remoteAddress, packetAge, silence, svAddress, svProtocol,
                       svClient, svFull, answers>>
    BY DEF EndTurn, Quit, server
  <1>2. remoteAddress # "none" =>
            [kind |-> "packet", to |-> remoteAddress] \in Requests
    BY DEF IInv, TypeOK, Requests
  <1>3. requests' \subseteq Requests
    BY <1>2, SentType DEF EndTurn, Quit, IInv, TypeOK
  <1>. QED
    BY <1>1, <1>3 DEF IInv, TypeOK, HandshakeIsOwn, AnswersAreOwn

(***************************************************************************)
(* The server and the network.                                             *)
(***************************************************************************)

\* An answer of the server's own joins those in flight.
LEMMA AnswerKeeps ==
    ASSUME IInv, NEW r, NEW m \in Answers, Answer(r, m), m.from = svAddress,
           svClient' \in {svClient, "connected"},
           m.kind = "challengeResponse" => m.challenge = "server",
           m.kind = "connectResponse" => svClient' # "unknown"
    PROVE  IInv'
  <1>1. /\ requests' \subseteq requests /\ answers' = answers \cup {m}
        /\ UNCHANGED <<pc, state, serverAddress, challenge, connectPacketCount,
                       remoteAddress, connectAge, packetAge, silence, svAddress,
                       svProtocol, svFull>>
    BY DEF Answer, handshake
  <1>2. TypeOK'
    BY <1>1 DEF IInv, TypeOK
  <1>3. HandshakeIsOwn'
    BY <1>1 DEF IInv, HandshakeIsOwn
  <1>4. AnswersAreOwn'
    BY <1>1 DEF IInv, AnswersAreOwn
  <1>. QED  BY <1>2, <1>3, <1>4 DEF IInv

LEMMA ServerKeeps ==
    ASSUME IInv, ServerNext
    PROVE  IInv'
  <1>0. svAddress \in Addresses
    BY DEF IInv, TypeOK, Addresses
  <1>1. CASE SvChallenge
    <2>1. PICK r \in requests :
              /\ r.kind = "getchallenge"
              /\ Answer(r, [kind |-> "challengeResponse", from |-> svAddress,
                            challenge |-> "server", own |-> r.own])
      BY <1>1 DEF SvChallenge
    <2>2. r.own \in Challenges
      BY <2>1 DEF IInv, TypeOK, Requests
    <2>3. [kind |-> "challengeResponse", from |-> svAddress,
           challenge |-> "server", own |-> r.own] \in Answers
      BY <1>0, <2>2 DEF Answers, Challenges
    <2>. QED  BY <1>1, <2>1, <2>3, AnswerKeeps DEF SvChallenge
  <1>2. CASE SvAccept
    <2>1. [kind |-> "connectResponse", from |-> svAddress] \in Answers
      BY <1>0 DEF Answers
    <2>. QED  BY <1>2, <2>1, AnswerKeeps DEF SvAccept
  <1>3. CASE SvRefuse
    <2>1. [kind |-> "print", from |-> svAddress] \in Answers
      BY <1>0 DEF Answers
    <2>. QED  BY <1>3, <2>1, AnswerKeeps DEF SvRefuse
  <1>4. CASE SvPacket
    <2>1. /\ [kind |-> "message", from |-> svAddress] \in Answers
          /\ [kind |-> "disconnect", from |-> svAddress] \in Answers
      BY <1>0 DEF Answers
    <2>. QED  BY <1>4, <2>1, AnswerKeeps DEF SvPacket
  <1>5. CASE SvDrop
    <2>. DEFINE m == [kind |-> "dropMessage", from |-> svAddress]
    <2>1. m \in Answers /\ m.kind = "dropMessage"
      BY <1>0 DEF Answers
    <2>2. /\ svClient' = "dropped" /\ answers' = answers \cup {m}
          /\ UNCHANGED <<pc, state, serverAddress, challenge, connectPacketCount,
                         remoteAddress, connectAge, packetAge, silence, svAddress,
                         svProtocol, svFull, requests>>
      BY <1>5 DEF SvDrop, handshake
    <2>. HIDE DEF m
    <2>. QED
      BY <2>1, <2>2 DEF IInv, TypeOK, HandshakeIsOwn, AnswersAreOwn
  <1>6. CASE SvDies
    BY <1>6 DEF SvDies, handshake, IInv, TypeOK, HandshakeIsOwn, AnswersAreOwn
  <1>7. CASE LoseRequest
    BY <1>7
    DEF LoseRequest, handshake, server, IInv, TypeOK, HandshakeIsOwn, AnswersAreOwn
  <1>8. CASE LoseAnswer
    BY <1>8
    DEF LoseAnswer, handshake, server, IInv, TypeOK, HandshakeIsOwn, AnswersAreOwn
  <1>9. CASE SvFills
    BY <1>9 DEF SvFills, handshake, IInv, TypeOK, HandshakeIsOwn, AnswersAreOwn
  <1>. QED
    BY <1>1, <1>2, <1>3, <1>4, <1>5, <1>6, <1>7, <1>8, <1>9 DEF ServerNext

LEMMA InvNext == IInv /\ [Next]_vars => IInv'
  <1>. SUFFICES ASSUME IInv, [Next]_vars PROVE IInv'
    OBVIOUS
  <1>1. CASE UNCHANGED vars
    BY <1>1
    DEF vars, handshake, server, IInv, TypeOK, HandshakeIsOwn, AnswersAreOwn
  <1>. QED
    BY <1>1, StartTurnKeeps, ReadChallengeResponseKeeps, ReadConnectResponseKeeps,
       ReadOtherKeeps, ReadNothingKeeps, EndTurnKeeps, ServerKeeps
    DEF Next, ClientNext, Terminated

LEMMA Inductive == Spec => []IInv
  BY InvInit, InvNext, PTL DEF Spec

(***************************************************************************)
(* The theorems.                                                           *)
(***************************************************************************)

\* Type correctness: the clocks stop where the code compares them, and a
\* connected bot has an address to send its packets to.
THEOREM TypeCorrect == Spec => []TypeOK
  <1>1. IInv => TypeOK
    BY DEF IInv
  <1>. QED  BY <1>1, Inductive, PTL

\* Whatever answers are repeated, late or stray, the bot is connected only to
\* the server that accepted it, at the address that answered its challenge
\* (CL_ConnectionlessPacket).
THEOREM ConnectedAreAccepted == Spec => []ConnectedIsAccepted
  <1>1. IInv => ConnectedIsAccepted
    BY AddressesAssumption DEF IInv, TypeOK, HandshakeIsOwn, ConnectedIsAccepted
  <1>. QED  BY <1>1, Inductive, PTL
=============================================================================
