----------------------- MODULE ReliableCommandsProofs -----------------------
(***************************************************************************)
(* The invariants of ReliableCommands hold for every size of the ring,     *)
(* every number of maps and every bound.                                   *)
(***************************************************************************)
EXTENDS ReliableCommands, SequenceTheorems, TLAPS

USE DEF NoCommand

\* What a queue of packets keeps when one is added or the head is taken.
LEMMA TailFacts ==
    ASSUME NEW S, NEW s \in Seq(S), s # << >>
    PROVE  /\ Head(s) \in S
           /\ Head(s) = s[1]
           /\ Len(s) >= 1
           /\ Tail(s) \in Seq(S)
           /\ Len(Tail(s)) = Len(s) - 1
           /\ \A i \in 1 .. Len(Tail(s)) : Tail(s)[i] = s[i + 1]
  BY HeadTailProperties, LenProperties, EmptySeq

\* What ParseGamestate keeps of the log.
LEMMA CutFacts ==
    ASSUME NEW S, NEW s \in Seq(S), NEW n \in 0 .. Len(s), NEW e \in S
    PROVE  LET t == Append(SubSeq(s, 1, n), e)
           IN  /\ t \in Seq(S)
               /\ Len(t) = n + 1
               /\ t[n + 1] = e
               /\ \A i \in 1 .. n : t[i] = s[i]
  <1>. DEFINE u == SubSeq(s, 1, n)
  <1>1. u \in Seq(S) /\ Len(u) = n /\ \A i \in 1 .. n : u[i] = s[i]
    <2>1. \A i \in 1 .. n : s[i] \in S
      BY ElementOfSeq, LenProperties
    <2>. QED  BY <2>1, SubSeqProperties, LenProperties
  <1>. QED  BY <1>1, AppendProperties

\* The ring's index is in range.
LEMMA RingIndex ==
    ASSUME NEW n \in Nat
    PROVE  n % K \in 0 .. K - 1
  BY KAssumption

\* Numbers less than K apart use different slots of the ring.
LEMMA RingSlots ==
    ASSUME NEW a \in Nat, NEW b \in Nat, a < b, b < a + K
    PROVE  a % K # b % K
  <1>. DEFINE qa == a \div K  qb == b \div K
  <1>1. K \in Nat /\ K > 0
    BY KAssumption
  <1>2. qa \in Int /\ qb \in Int /\ a % K \in Int /\ b % K \in Int
    BY <1>1
  <1>3. a = (K * qa) + (a % K) /\ b = (K * qb) + (b % K)
    BY <1>1
  <1>. SUFFICES ASSUME a % K = b % K PROVE FALSE
    OBVIOUS
  <1>4. b - a = K * (qb - qa)
    BY <1>1, <1>2, <1>3
  <1>5. CASE qb - qa <= 0
    BY <1>1, <1>2, <1>4, <1>5
  <1>6. CASE qb - qa >= 1
    BY <1>1, <1>2, <1>4, <1>6
  <1>. QED  BY <1>2, <1>5, <1>6

-----------------------------------------------------------------------------

\* Every message, packet and counter keeps its type; the log is as long as
\* the last number given out.
LEMMA TypeStep == TypeOK /\ [Next]_vars => TypeOK'
  <1>. SUFFICES ASSUME TypeOK, [Next]_vars PROVE TypeOK'
    OBVIOUS
  <1>. USE KAssumption
  <1>0. /\ lastClientCommand \in Nat
        /\ AckCmd \in Texts /\ Disconnect \in Texts /\ Cmds \subseteq Texts
    BY LenProperties DEF TypeOK, lastClientCommand, Texts
  <1>1. CASE ReadGamestate
    <2>. DEFINE m == Head(toClient)  num == NextAckCmd(Acknowledge(m))
    <2>1. m \in Messages /\ Tail(toClient) \in Seq(Messages)
      BY <1>1, TailFacts DEF TypeOK, ReadGamestate
    <2>2. Acknowledge(m) \in Nat
      BY <2>1 DEF TypeOK, Messages, Acknowledge
    <2>3. num \in Nat \ {0} /\ num - 1 \in 0 .. reliableSequence
      BY <2>2 DEF TypeOK, NextAckCmd, LastKept, Min2
    <2>4. /\ Append(SubSeq(log, 1, num - 1), AckCmd) \in Seq(Texts)
          /\ Len(Append(SubSeq(log, 1, num - 1), AckCmd)) = num
      <3>. DEFINE n == num - 1
      <3>1. n \in 0 .. Len(log) /\ log \in Seq(Texts) /\ n + 1 = num
        BY <2>3 DEF TypeOK
      <3>. HIDE DEF n, num
      <3>2. /\ Append(SubSeq(log, 1, n), AckCmd) \in Seq(Texts)
            /\ Len(Append(SubSeq(log, 1, n), AckCmd)) = n + 1
        BY <3>1, <1>0, CutFacts
      <3>. QED  BY <3>1, <3>2 DEF n
    <2>5. [reliableCommands EXCEPT ![num % K] = AckCmd]
              \in [0 .. K - 1 -> Texts]
      BY <2>3, <1>0 DEF TypeOK
    <2>. HIDE DEF num
    <2>. QED
      BY <1>1, <2>1, <2>2, <2>3, <2>4, <2>5
      DEF TypeOK, ReadGamestate, ParseGamestate, Messages, server, num
  <1>2. CASE ReadSnapshot
    <2>. DEFINE m == Head(toClient)
    <2>1. m \in Messages /\ Tail(toClient) \in Seq(Messages)
      BY <1>2, TailFacts DEF TypeOK, ReadSnapshot
    <2>2. Acknowledge(m) \in Nat
      BY <2>1 DEF TypeOK, Messages, Acknowledge
    <2>. QED
      BY <1>2, <2>1, <2>2
      DEF TypeOK, ReadSnapshot, ParseSnapshot, Messages, server
  <1>3. CASE ReadNothing
    BY <1>3 DEF TypeOK, ReadNothing, server
  <1>4. ASSUME NEW c \in Texts, NewClientCommand(c), phase' \in {"read", "act", "bye"}
        PROVE  TypeOK'
    <2>1. Append(log, c) \in Seq(Texts) /\ Len(Append(log, c)) = Len(log) + 1
      BY AppendProperties DEF TypeOK
    <2>2. [reliableCommands EXCEPT ![(reliableSequence + 1) % K] = c]
              \in [0 .. K - 1 -> Texts]
      BY DEF TypeOK
    <2>3. overrun' \in BOOLEAN
      BY <1>4, Zenon DEF NewClientCommand
    <2>. QED
      BY <1>4, <2>1, <2>2, <2>3 DEF TypeOK, NewClientCommand, server
  <1>5. CASE QueueCommand
    BY <1>5, <1>4, <1>0 DEF QueueCommand, TypeOK
  <1>6. CASE Quit
    BY <1>6, <1>4, <1>0 DEF Quit
  <1>7. CASE CL_WritePacket
    <2>. DEFINE num == CommandDue
                p == [id |-> serverId, num |-> num,
                      text |-> IF num = NoCommand THEN AckCmd
                               ELSE reliableCommands[num % K]]
    <2>1. num \in Nat
      BY DEF TypeOK, CommandDue
    <2>2. p \in Packets
      BY <2>1, <1>0, RingIndex DEF TypeOK, Packets
    <2>3. Append(toServer, p) \in Seq(Packets)
      BY <2>2, AppendProperties DEF TypeOK
    <2>4. commandTimer' \in BOOLEAN
      BY <1>7, Zenon DEF CL_WritePacket
    <2>. QED
      BY <1>7, <2>3, <2>4 DEF TypeOK, CL_WritePacket, server
  <1>8. CASE CommandTimer
    BY <1>8 DEF TypeOK, CommandTimer, server
  <1>9. CASE Timeout
    BY <1>9 DEF TypeOK, Timeout, server
  <1>10. CASE SvIgnorePacket
    BY <1>10, TailFacts DEF TypeOK, SvIgnorePacket, client, server
  <1>11. ASSUME NEW kind \in {"gamestate", "snapshot"}
         PROVE  Append(toClient, SvMessage(kind)) \in Seq(Messages)
    <2>1. SvMessage(kind) \in Messages
      BY <1>0 DEF TypeOK, SvMessage, Messages
    <2>. QED  BY <2>1, AppendProperties DEF TypeOK
  <1>12. CASE SvResendGamestate
    BY <1>12, <1>11, TailFacts DEF TypeOK, SvResendGamestate, client, server
  <1>13. CASE SvExecutePacket
    <2>1. Head(toServer) \in Packets /\ Tail(toServer) \in Seq(Packets)
      BY <1>13, TailFacts DEF TypeOK, SvExecutePacket
    <2>2. Append(svExecuted, Head(toServer).text) \in Seq(Texts)
      BY <2>1, AppendProperties DEF TypeOK, Packets
    <2>3. svDropped' \in BOOLEAN
      BY <1>13 DEF SvExecutePacket
    <2>. QED
      BY <1>13, <2>1, <2>2, <2>3 DEF TypeOK, SvExecutePacket, client
  <1>14. CASE SvSendSnapshot
    BY <1>14, <1>11 DEF TypeOK, SvSendSnapshot, client, server
  <1>15. CASE SvMapChange
    BY <1>15 DEF TypeOK, SvMapChange, client
  <1>16. CASE LoseToServer
    BY <1>16, TailFacts DEF TypeOK, LoseToServer, client, server
  <1>17. CASE LoseToClient
    BY <1>17, TailFacts DEF TypeOK, LoseToClient, client, server
  <1>18. CASE UNCHANGED vars
    BY <1>18 DEF TypeOK, vars, client, server
  <1>. QED
    BY <1>1, <1>2, <1>3, <1>5, <1>6, <1>7, <1>8, <1>9, <1>10, <1>12, <1>13,
       <1>14, <1>15, <1>16, <1>17, <1>18
    DEF Next, ClientNext, ServerNext, Terminated

LEMMA TypeInit == Init => TypeOK
  BY KAssumption, EmptySeq DEF Init, TypeOK, Texts

\* The state has its type in every reachable state.
THEOREM TypeCorrect == Spec => []TypeOK
  BY TypeInit, TypeStep, PTL DEF Spec

-----------------------------------------------------------------------------

\* The types of the numbers and of the packets in flight.
LEMMA Types ==
    ASSUME TypeOK
    PROVE  /\ reliableSequence \in Nat /\ reliableAcknowledge \in Nat
           /\ gamestateAckCmd \in Int
           /\ serverId \in Nat /\ svServerId \in Nat
           /\ lastClientCommand \in Nat /\ svExecuted \in Seq(Texts)
           /\ log \in Seq(Texts) /\ Len(log) = reliableSequence
           /\ Len(toServer) \in Nat /\ Len(toClient) \in Nat
           /\ \A i \in 1 .. Len(toServer) :
                  toServer[i] \in Packets /\ toServer[i].num \in Nat
           /\ \A i \in 1 .. Len(toClient) :
                  toClient[i] \in Messages /\ toClient[i].ack \in Nat
  <1>1. /\ reliableSequence \in Nat /\ reliableAcknowledge \in Nat
        /\ gamestateAckCmd \in Int
        /\ serverId \in Nat /\ svServerId \in Nat
        /\ log \in Seq(Texts) /\ Len(log) = reliableSequence
        /\ svExecuted \in Seq(Texts)
        /\ toServer \in Seq(Packets) /\ toClient \in Seq(Messages)
    BY DEF TypeOK
  <1>2. /\ lastClientCommand \in Nat
        /\ Len(toServer) \in Nat /\ Len(toClient) \in Nat
    BY <1>1, LenProperties DEF lastClientCommand
  <1>3. \A i \in 1 .. Len(toServer) : toServer[i] \in Packets
    BY <1>1, ElementOfSeq
  <1>4. \A i \in 1 .. Len(toClient) : toClient[i] \in Messages
    BY <1>1, ElementOfSeq
  <1>5. \A p \in Packets : p.num \in Nat
    BY DEF Packets
  <1>6. \A m \in Messages : m.ack \in Nat
    BY DEF Messages
  <1>. QED  BY <1>1, <1>2, <1>3, <1>4, <1>5, <1>6

\* The bounds of LastKept.
LEMMA LastKeptFacts ==
    ASSUME TypeOK, NEW ack \in Nat
    PROVE  /\ LastKept(ack) \in 0 .. reliableSequence
           /\ LastKept(ack) <= ack + 1
           /\ LastKept(ack) = ack + 1 \/ LastKept(ack) = reliableSequence
  <1>1. reliableSequence \in Nat
    BY Types
  <1>. QED  BY <1>1 DEF LastKept, Min2

\* Taking a packet off the channel leaves the others as they were.
LEMMA PacketsTail ==
    ASSUME TypeOK, PacketsInFlight, toServer # << >>,
           toServer' = Tail(toServer),
           reliableAcknowledge' = reliableAcknowledge,
           reliableSequence' = reliableSequence,
           gamestateAckCmd' = gamestateAckCmd,
           log' = log, serverId' = serverId
    PROVE  PacketsInFlight'
  <1>. DEFINE Fits(q) == q.num # NoCommand =>
                  /\ q.num <= reliableAcknowledge + 1
                  /\ q.num <= reliableSequence
                  /\ q.text = log[q.num]
                  /\ q.num >= gamestateAckCmd => q.id = serverId
  <1>1. \A i \in 1 .. Len(toServer) : Fits(toServer[i])
    BY DEF PacketsInFlight
  <1>2. \A i \in 1 .. Len(toServer') : /\ i + 1 \in 1 .. Len(toServer)
                                       /\ toServer'[i] = toServer[i + 1]
    BY TailFacts DEF TypeOK
  <1>3. \A i \in 1 .. Len(toServer') : Fits(toServer'[i])
    <2>. HIDE DEF Fits
    <2>. QED  BY <1>1, <1>2
  <1>. QED  BY <1>3, Zenon DEF PacketsInFlight

\* Everything in flight is numbered within the queue.
LEMMA PacketFacts ==
    ASSUME TypeOK, Window, PacketsInFlight
    PROVE  \A i \in 1 .. Len(toServer) :
               /\ toServer[i].num \in Nat
               /\ toServer[i].num <= reliableAcknowledge + 1
               /\ toServer[i].num <= reliableSequence
               /\ toServer[i].num # NoCommand
                      => /\ toServer[i].num \in 1 .. reliableSequence
                         /\ toServer[i].text = log[toServer[i].num]
  <1>. TAKE i \in 1 .. Len(toServer)
  <1>1. /\ toServer[i].num \in Nat
        /\ reliableAcknowledge \in Nat /\ reliableSequence \in Nat
    BY Types
  <1>2. toServer[i].num # NoCommand
            => /\ toServer[i].num <= reliableAcknowledge + 1
               /\ toServer[i].num <= reliableSequence
               /\ toServer[i].text = log[toServer[i].num]
    BY DEF PacketsInFlight
  <1>. QED  BY <1>1, <1>2 DEF NoCommand

\* Until the ring overruns, the acknowledge of a message is used as it is.
LEMMA AcknowledgeFacts ==
    ASSUME TypeOK, Consistent, toClient # << >>
    PROVE  LET m == Head(toClient)
           IN  /\ m \in Messages
               /\ m = toClient[1]
               /\ Acknowledge(m) = m.ack
               /\ m.ack \in reliableAcknowledge .. lastClientCommand
               /\ m.id <= svServerId
  <1>. DEFINE m == Head(toClient)
  <1>1. m \in Messages /\ m = toClient[1] /\ 1 \in 1 .. Len(toClient)
    BY TailFacts, LenProperties DEF TypeOK
  <1>2. lastClientCommand \in Nat /\ m.ack \in Nat
    BY <1>1, LenProperties DEF TypeOK, lastClientCommand, Messages
  <1>3. m.ack \in reliableAcknowledge .. lastClientCommand
    BY <1>1, <1>2 DEF TypeOK, Consistent, AcksInFlight
  <1>4. Acknowledge(m) = m.ack
    BY <1>2, <1>3, KAssumption DEF TypeOK, Consistent, Window, Acknowledge
  <1>5. m.id <= svServerId
    BY <1>1 DEF Consistent, MapsInFlight
  <1>. QED  BY <1>1, <1>3, <1>4, <1>5

\* Taking the head leaves the acknowledges in order and above the head's.
LEMMA AcksTail ==
    ASSUME TypeOK, AcksInFlight, MapsInFlight, toClient # << >>
    PROVE  LET t == Tail(toClient)
           IN  /\ \A i \in 1 .. Len(t) :
                      /\ Head(toClient).ack <= t[i].ack
                      /\ reliableAcknowledge <= t[i].ack
                      /\ t[i].ack <= lastClientCommand
                      /\ t[i].id <= svServerId
                      /\ t[i].ack >= gamestateAckCmd /\ t[i].id = serverId
                             => ~t[i].offset
               /\ \A i, j \in 1 .. Len(t) : i < j => t[i].ack <= t[j].ack
  <1>. DEFINE t == Tail(toClient)
  <1>1. /\ Len(toClient) \in Nat /\ Len(toClient) >= 1
        /\ Len(t) = Len(toClient) - 1
        /\ Head(toClient) = toClient[1]
        /\ \A i \in 1 .. Len(t) : t[i] = toClient[i + 1]
    BY TailFacts, LenProperties DEF TypeOK
  <1>2. \A i \in 1 .. Len(t) : i + 1 \in 1 .. Len(toClient) /\ 1 < i + 1
    BY <1>1
  <1>3. 1 \in 1 .. Len(toClient)
    BY <1>1
  <1>. HIDE DEF t
  <1>4. \A i \in 1 .. Len(t) :
           /\ Head(toClient).ack <= t[i].ack
           /\ reliableAcknowledge <= t[i].ack
           /\ t[i].ack <= lastClientCommand
    BY <1>1, <1>2, <1>3 DEF AcksInFlight
  <1>5. \A i \in 1 .. Len(t) :
           /\ t[i].id <= svServerId
           /\ t[i].ack >= gamestateAckCmd /\ t[i].id = serverId => ~t[i].offset
    BY <1>1, <1>2 DEF MapsInFlight
  <1>6. \A i, j \in 1 .. Len(t) : i < j => t[i].ack <= t[j].ack
    <2>. SUFFICES ASSUME NEW i \in 1 .. Len(t), NEW j \in 1 .. Len(t), i < j
                  PROVE  t[i].ack <= t[j].ack
      OBVIOUS
    <2>1. i + 1 < j + 1
      BY <1>1
    <2>. QED  BY <1>1, <1>2, <2>1 DEF AcksInFlight
  <1>. QED  BY <1>4, <1>5, <1>6 DEF t

\* A gamestate: the number of its empty command is above everything sent or
\* executed, so nothing yet counts as having seen it.
LEMMA GamestateStep ==
    ASSUME TypeOK, TypeOK', Consistent, ReadGamestate
    PROVE  /\ Consistent'
           /\ gamestateAckCmd' > lastClientCommand
           /\ \A i \in 1 .. Len(toServer) :
                  toServer[i].num < gamestateAckCmd'
  <1>. DEFINE m == Head(toClient)  num == NextAckCmd(Acknowledge(m))
  <1>. USE KAssumption
  <1>1. /\ toClient # << >>
        /\ reliableAcknowledge' = Acknowledge(m)
        /\ reliableSequence' = num
        /\ gamestateAckCmd' = num
        /\ reliableCommands' = [reliableCommands EXCEPT ![num % K] = AckCmd]
        /\ log' = Append(SubSeq(log, 1, num - 1), AckCmd)
        /\ serverId' = m.id
        /\ serverTime' = NoTime
        /\ toClient' = Tail(toClient)
        /\ UNCHANGED <<svServerId, svOffset, svExecuted, svDropped, toServer>>
    BY DEF ReadGamestate, ParseGamestate, server
  <1>2. /\ m \in Messages /\ Acknowledge(m) = m.ack /\ m.ack \in Nat
        /\ m.ack \in reliableAcknowledge .. lastClientCommand
        /\ m.id <= svServerId /\ m.id \in Nat
    BY <1>1, AcknowledgeFacts DEF Messages
  <1>3. num = LastKept(m.ack) + 1
    BY <1>2 DEF NextAckCmd
  <1>. HIDE DEF num, m
  <1>a. Window /\ PacketsInFlight
    BY DEF Consistent
  <1>b. /\ lastClientCommand \in Nat /\ lastClientCommand' = lastClientCommand
        /\ reliableAcknowledge \in Nat /\ reliableSequence \in Nat
    BY <1>1, Types DEF lastClientCommand
  <1>4. /\ num \in Nat /\ num - 1 \in 0 .. reliableSequence
        /\ num <= m.ack + 2
        /\ num = m.ack + 2 \/ num = reliableSequence + 1
    <2>1. /\ LastKept(m.ack) \in 0 .. reliableSequence
          /\ LastKept(m.ack) <= m.ack + 1
          /\ LastKept(m.ack) = m.ack + 1 \/ LastKept(m.ack) = reliableSequence
      <3>. m.ack \in Nat
        BY <1>2
      <3>. QED  BY LastKeptFacts
    <2>. QED  BY <2>1, <1>2, <1>3, <1>b
  <1>5. lastClientCommand < num /\ m.ack < num
    <2>1. /\ lastClientCommand <= reliableAcknowledge + 1
          /\ lastClientCommand <= reliableSequence
      BY <1>a DEF Window
    <2>2. m.ack <= lastClientCommand /\ reliableAcknowledge <= m.ack
      BY <1>2, <1>b
    <2>. QED  BY <2>1, <2>2, <1>2, <1>4, <1>b
  <1>6. \A i \in 1 .. Len(toServer) : toServer[i].num < num
    <2>. TAKE i \in 1 .. Len(toServer)
    <2>1. /\ toServer[i].num \in Nat
          /\ toServer[i].num <= reliableAcknowledge + 1
          /\ toServer[i].num <= reliableSequence
      BY <1>a, PacketFacts
    <2>2. reliableAcknowledge <= m.ack
      BY <1>2, <1>b
    <2>. QED  BY <2>1, <2>2, <1>2, <1>4, <1>b
  <1>7. /\ log'[num] = AckCmd
        /\ \A n \in 1 .. num - 1 : log'[n] = log[n]
    <2>. DEFINE k == num - 1
    <2>1. k \in 0 .. Len(log) /\ log \in Seq(Texts) /\ AckCmd \in Texts
      BY <1>4 DEF TypeOK, Texts
    <2>2. k + 1 = num /\ log' = Append(SubSeq(log, 1, k), AckCmd)
      BY <1>1, <1>4
    <2>. HIDE DEF k
    <2>3. log'[k + 1] = AckCmd /\ \A n \in 1 .. k : log'[n] = log[n]
      BY <2>1, <2>2, CutFacts
    <2>. QED  BY <2>2, <2>3 DEF k
  <1>8. Window'
    <2>1. ~svDropped'
      BY <1>1, <1>a DEF Window
    <2>. QED
      BY <1>1, <1>2, <1>4, <1>5, <1>a, <1>b, <2>1 DEF Window
  <1>c. /\ reliableAcknowledge' = m.ack /\ reliableSequence' = num
        /\ gamestateAckCmd' = num /\ toServer' = toServer
        /\ toClient' = Tail(toClient)
    BY <1>1, <1>2
  <1>9. PacketsInFlight'
    <2>. SUFFICES ASSUME NEW i \in 1 .. Len(toServer),
                         toServer[i].num # NoCommand
                  PROVE  /\ toServer[i].num <= m.ack + 1
                         /\ toServer[i].num <= num
                         /\ toServer[i].text = log'[toServer[i].num]
                         /\ ~(toServer[i].num >= num)
      BY <1>c, Zenon DEF PacketsInFlight
    <2>1. /\ toServer[i].num <= reliableAcknowledge + 1
          /\ toServer[i].num \in 1 .. reliableSequence
          /\ toServer[i].text = log[toServer[i].num]
      BY <1>a, PacketFacts
    <2>2. toServer[i].num < num
      BY <1>6
    <2>. HIDE DEF NoCommand
    <2>3. toServer[i].num <= m.ack + 1
      BY <2>1, <1>2, <1>b
    <2>4. toServer[i].num \in 1 .. num - 1
      BY <2>1, <2>2, <1>4, <1>b
    <2>5. toServer[i].text = log'[toServer[i].num]
      BY <2>1, <2>4, <1>7
    <2>. QED  BY <2>3, <2>4, <2>5, <1>4
  <1>10. AcksInFlight'
    BY <1>c, <1>b, AcksTail DEF AcksInFlight, Consistent, m
  <1>11. MapsInFlight'
    <2>. DEFINE t == Tail(toClient)
    <2>1. \A i \in 1 .. Len(t) :
             t[i].id <= svServerId /\ t[i].ack <= lastClientCommand
      BY <1>1, AcksTail DEF Consistent
    <2>3. \A i \in 1 .. Len(t) : t[i].ack \in Nat
      BY <1>1, TailFacts, Types DEF TypeOK
    <2>. HIDE DEF t
    <2>4. \A i \in 1 .. Len(t) : ~(t[i].ack >= num)
      BY <2>1, <2>3, <1>4, <1>5, <1>b
    <2>. QED
      BY <2>1, <2>4, <1>1, <1>2, <1>4, <1>5, <1>b DEF MapsInFlight, t
  <1>12. Executed'
    <2>1. \A n \in 1 .. lastClientCommand : n \in 1 .. num - 1
      BY <1>4, <1>5, <1>b
    <2>. QED  BY <2>1, <1>1, <1>b, <1>7 DEF Executed, Consistent
  <1>13. UnacknowledgedKept'
    <2>. SUFFICES ASSUME NEW n \in m.ack + 1 .. num
                  PROVE  reliableCommands'[n % K] = log'[n]
      BY <1>1, <1>2 DEF UnacknowledgedKept
    <2>1. n \in Nat /\ n % K \in 0 .. K - 1 /\ num % K \in 0 .. K - 1
      BY <1>2, <1>4, RingIndex
    <2>2. CASE n = num
      BY <2>1, <2>2, <1>1, <1>7 DEF TypeOK
    <2>3. CASE n # num
      <3>1. n < num /\ num < n + K /\ n \in 1 .. num - 1
        BY <2>1, <2>3, <1>2, <1>4
      <3>2. n % K # num % K
        BY <3>1, <2>1, <1>4, RingSlots
      <3>3. n \in reliableAcknowledge + 1 .. reliableSequence
        BY <3>1, <1>2, <1>4, <1>b
      <3>4. reliableCommands[n % K] = log[n]
        BY <3>3 DEF Consistent, UnacknowledgedKept
      <3>. QED  BY <3>1, <3>2, <3>4, <2>1, <1>1, <1>7 DEF TypeOK
    <2>. QED  BY <2>2, <2>3
  <1>. QED
    BY <1>1, <1>5, <1>6, <1>8, <1>9, <1>10, <1>11, <1>12, <1>13
    DEF Consistent


\* A snapshot moves the acknowledge on; its time is taken only from a server
\* that has executed the empty command of this map.
LEMMA SnapshotStep ==
    ASSUME TypeOK, TypeOK', Consistent, ReadSnapshot
    PROVE  Consistent'
  <1>. DEFINE m == Head(toClient)
  <1>1. /\ toClient # << >>
        /\ reliableAcknowledge' = Acknowledge(m)
        /\ serverTime' = IF TimeBelieved(Acknowledge(m))
                         THEN [id |-> m.id, offset |-> m.offset]
                         ELSE serverTime
        /\ toClient' = Tail(toClient)
        /\ UNCHANGED <<reliableSequence, gamestateAckCmd, reliableCommands,
                       log, serverId, svServerId, svOffset, svExecuted,
                       svDropped, toServer>>
    BY DEF ReadSnapshot, ParseSnapshot, server
  <1>2. /\ m \in Messages /\ Acknowledge(m) = m.ack /\ m.ack \in Nat
        /\ m.ack \in reliableAcknowledge .. lastClientCommand
        /\ m = toClient[1] /\ 1 \in 1 .. Len(toClient)
    <2>1. Len(toClient) \in Nat /\ Len(toClient) >= 1
      BY <1>1, Types, TailFacts DEF TypeOK
    <2>. QED  BY <1>1, <2>1, AcknowledgeFacts DEF Messages
  <1>3. /\ Window /\ PacketsInFlight /\ AcksInFlight /\ MapsInFlight
        /\ Executed /\ UnacknowledgedKept
    BY DEF Consistent
  <1>4. /\ lastClientCommand \in Nat /\ lastClientCommand' = lastClientCommand
        /\ reliableAcknowledge \in Nat /\ reliableSequence \in Nat
    BY <1>1, Types DEF lastClientCommand
  <1>5. /\ reliableAcknowledge' = m.ack /\ reliableSequence' = reliableSequence
        /\ gamestateAckCmd' = gamestateAckCmd /\ serverId' = serverId
        /\ toServer' = toServer /\ toClient' = Tail(toClient)
        /\ log' = log /\ reliableCommands' = reliableCommands
    BY <1>1, <1>2
  <1>6. MapsInFlight'
    BY <1>1, <1>3, <1>4, <1>5, AcksTail DEF MapsInFlight
  <1>7. AcksInFlight'
    BY <1>1, <1>3, <1>4, <1>5, AcksTail DEF AcksInFlight
  <1>8. serverTime' # NoTime /\ serverTime'.id = serverId'
            => ~serverTime'.offset
    <2>1. CASE TimeBelieved(m.ack)
      <3>1. serverTime' = [id |-> m.id, offset |-> m.offset]
        BY <1>1, <1>2, <2>1
      <3>2. m.id = serverId => ~m.offset
        BY <1>2, <1>3, <2>1 DEF MapsInFlight, TimeBelieved
      <3>. QED  BY <1>5, <3>1, <3>2
    <2>2. CASE ~TimeBelieved(m.ack)
      BY <1>1, <1>2, <1>5, <2>2 DEF Consistent
    <2>. QED  BY <2>1, <2>2
  <1>. HIDE DEF m
  <1>9. Window'
    <2>1. ~svDropped'
      BY <1>1, <1>3 DEF Window
    <2>. QED  BY <1>2, <1>3, <1>4, <1>5, <2>1, KAssumption DEF Window
  <1>10. PacketsInFlight'
    <2>. SUFFICES ASSUME NEW i \in 1 .. Len(toServer),
                         toServer[i].num # NoCommand
                  PROVE  /\ toServer[i].num <= m.ack + 1
                         /\ toServer[i].num <= reliableSequence
                         /\ toServer[i].text = log[toServer[i].num]
                         /\ toServer[i].num >= gamestateAckCmd
                                => toServer[i].id = serverId
      BY <1>5, Zenon DEF PacketsInFlight
    <2>1. /\ toServer[i].num <= reliableAcknowledge + 1
          /\ toServer[i].num \in Nat
      BY <1>3, PacketFacts
    <2>2. toServer[i].num <= m.ack + 1
      BY <2>1, <1>2, <1>4
    <2>. QED  BY <2>2, <1>3 DEF PacketsInFlight
  <1>11. Executed'
    BY <1>1, <1>3, <1>4 DEF Executed
  <1>12. UnacknowledgedKept'
    BY <1>2, <1>3, <1>4, <1>5 DEF UnacknowledgedKept
  <1>. QED
    BY <1>6, <1>7, <1>8, <1>9, <1>10, <1>11, <1>12 DEF Consistent

\* Queuing a command overwrites a slot no outstanding command uses, unless
\* the ring overruns.
LEMMA NewCommandStep ==
    ASSUME TypeOK, TypeOK', Consistent, NEW c \in Texts, NewClientCommand(c),
           ~overrun'
    PROVE  Consistent'
  <1>. DEFINE num == reliableSequence + 1
  <1>1. /\ reliableSequence' = num
        /\ reliableCommands' = [reliableCommands EXCEPT ![num % K] = c]
        /\ log' = Append(log, c)
        /\ num - reliableAcknowledge <= K
        /\ UNCHANGED <<reliableAcknowledge, gamestateAckCmd, serverId,
                       serverTime, svServerId, svOffset, svExecuted,
                       svDropped, toServer, toClient>>
    <2>1. ~(num - reliableAcknowledge > K)
      BY Zenon DEF NewClientCommand
    <2>2. num - reliableAcknowledge \in Int /\ K \in Int
      BY Types, KAssumption
    <2>3. num - reliableAcknowledge <= K
      BY <2>1, <2>2
    <2>. QED  BY <2>3 DEF NewClientCommand, server
  <1>2. /\ Window /\ PacketsInFlight /\ AcksInFlight /\ MapsInFlight
        /\ Executed /\ UnacknowledgedKept
    BY DEF Consistent
  <1>3. /\ lastClientCommand \in Nat /\ lastClientCommand' = lastClientCommand
        /\ reliableAcknowledge \in Nat /\ reliableSequence \in Nat
        /\ gamestateAckCmd \in Int
    BY <1>1, Types DEF lastClientCommand
  <1>4. /\ log'[num] = c
        /\ \A n \in 1 .. reliableSequence : log'[n] = log[n]
    BY <1>1, Types, AppendProperties
  <1>5. Window'
    BY <1>1, <1>2, <1>3, KAssumption DEF Window
  <1>6. PacketsInFlight'
    <2>. SUFFICES ASSUME NEW i \in 1 .. Len(toServer),
                         toServer[i].num # NoCommand
                  PROVE  /\ toServer[i].num <= reliableAcknowledge + 1
                         /\ toServer[i].num <= num
                         /\ toServer[i].text = log'[toServer[i].num]
                         /\ toServer[i].num >= gamestateAckCmd
                                => toServer[i].id = serverId
      BY <1>1, Zenon DEF PacketsInFlight
    <2>1. /\ toServer[i].num \in 1 .. reliableSequence
          /\ toServer[i].num <= reliableAcknowledge + 1
          /\ toServer[i].text = log[toServer[i].num]
          /\ toServer[i].num >= gamestateAckCmd => toServer[i].id = serverId
      BY <1>2, PacketFacts DEF PacketsInFlight
    <2>2. toServer[i].num <= num
      BY <2>1, <1>3
    <2>. QED  BY <2>1, <2>2, <1>4
  <1>7. AcksInFlight' /\ MapsInFlight'
    BY <1>1, <1>2, <1>3 DEF AcksInFlight, MapsInFlight
  <1>8. Executed'
    <2>1. \A n \in 1 .. lastClientCommand : n \in 1 .. reliableSequence
      BY <1>2, <1>3 DEF Window
    <2>. QED  BY <2>1, <1>1, <1>2, <1>3, <1>4 DEF Executed
  <1>9. UnacknowledgedKept'
    <2>. SUFFICES ASSUME NEW n \in reliableAcknowledge + 1 .. num
                  PROVE  reliableCommands'[n % K] = log'[n]
      BY <1>1 DEF UnacknowledgedKept
    <2>1. n \in Nat /\ n % K \in 0 .. K - 1 /\ num % K \in 0 .. K - 1
      BY <1>3, RingIndex
    <2>2. CASE n = num
      BY <2>1, <2>2, <1>1, <1>4 DEF TypeOK
    <2>3. CASE n # num
      <3>1. n < num /\ num < n + K /\ n \in 1 .. reliableSequence
            /\ n \in reliableAcknowledge + 1 .. reliableSequence
        BY <2>1, <2>3, <1>1, <1>3, KAssumption
      <3>2. n % K # num % K
        BY <3>1, <2>1, <1>3, RingSlots
      <3>3. reliableCommands[n % K] = log[n]
        BY <3>1, <1>2 DEF UnacknowledgedKept
      <3>. QED  BY <3>1, <3>2, <3>3, <2>1, <1>1, <1>4 DEF TypeOK
    <2>. QED  BY <2>2, <2>3
  <1>. QED
    BY <1>1, <1>5, <1>6, <1>7, <1>8, <1>9 DEF Consistent

\* A packet carries at most the command after the last one acknowledged, as
\* the log has it.
LEMMA WriteStep ==
    ASSUME TypeOK, TypeOK', Consistent, CL_WritePacket
    PROVE  Consistent'
  <1>. DEFINE num == CommandDue
              p == [id |-> serverId, num |-> num,
                    text |-> IF num = NoCommand THEN AckCmd
                             ELSE reliableCommands[num % K]]
  <1>1. /\ toServer' = Append(toServer, p)
        /\ UNCHANGED <<reliableSequence, reliableAcknowledge, gamestateAckCmd,
                       reliableCommands, log, serverId, serverTime,
                       svServerId, svOffset, svExecuted, svDropped, toClient>>
    BY DEF CL_WritePacket, server
  <1>2. /\ Window /\ PacketsInFlight /\ AcksInFlight /\ MapsInFlight
        /\ Executed /\ UnacknowledgedKept
    BY DEF Consistent
  <1>3. /\ reliableAcknowledge \in Nat /\ reliableSequence \in Nat
    BY Types
  <1>4. num # NoCommand => /\ num = reliableAcknowledge + 1
                           /\ num <= reliableSequence
    BY <1>3 DEF CommandDue
  <1>5. num # NoCommand => p.text = log[num]
    <2>. SUFFICES ASSUME num # NoCommand PROVE reliableCommands[num % K] = log[num]
      OBVIOUS
    <2>1. num \in reliableAcknowledge + 1 .. reliableSequence
      BY <1>3, <1>4
    <2>. QED  BY <2>1, <1>2 DEF UnacknowledgedKept
  <1>6. p.num = num /\ p.id = serverId
    OBVIOUS
  <1>7. /\ Len(toServer') = Len(toServer) + 1 /\ Len(toServer) \in Nat
        /\ toServer'[Len(toServer) + 1] = p
        /\ \A i \in 1 .. Len(toServer) : toServer'[i] = toServer[i]
    BY <1>1, AppendProperties, LenProperties DEF TypeOK
  <1>. HIDE DEF num, p
  <1>8. PacketsInFlight'
    <2>. SUFFICES ASSUME NEW i \in 1 .. Len(toServer) + 1,
                         toServer'[i].num # NoCommand
                  PROVE  /\ toServer'[i].num <= reliableAcknowledge + 1
                         /\ toServer'[i].num <= reliableSequence
                         /\ toServer'[i].text = log[toServer'[i].num]
                         /\ toServer'[i].num >= gamestateAckCmd
                                => toServer'[i].id = serverId
      BY <1>1, <1>7, Zenon DEF PacketsInFlight
    <2>1. CASE i = Len(toServer) + 1
      BY <2>1, <1>3, <1>4, <1>5, <1>6, <1>7
    <2>2. CASE i # Len(toServer) + 1
      <3>1. i \in 1 .. Len(toServer) /\ toServer'[i] = toServer[i]
        BY <2>2, <1>7
      <3>. QED  BY <3>1, <1>2 DEF PacketsInFlight
    <2>. QED  BY <2>1, <2>2
  <1>9. /\ Window' /\ AcksInFlight' /\ MapsInFlight' /\ Executed'
        /\ UnacknowledgedKept'
    BY <1>1, <1>2
    DEF Window, AcksInFlight, MapsInFlight, Executed, UnacknowledgedKept,
        lastClientCommand
  <1>. QED  BY <1>1, <1>8, <1>9 DEF Consistent


\* The server executes the command after the last one, which the log holds;
\* from gamestateAckCmd on it comes from the map the server runs.
LEMMA ExecuteStep ==
    ASSUME TypeOK, TypeOK', Consistent, SvExecutePacket
    PROVE  Consistent'
  <1>. DEFINE p == Head(toServer)  L == lastClientCommand
  <1>1. /\ toServer # << >>
        /\ p.id = svServerId
        /\ toServer' = Tail(toServer)
        /\ svOffset' = FALSE
        /\ svExecuted' = IF p.num = L + 1 THEN Append(svExecuted, p.text)
                         ELSE svExecuted
        /\ svDropped' = (p.num > L + 1)
        /\ UNCHANGED <<reliableSequence, reliableAcknowledge, gamestateAckCmd,
                       reliableCommands, log, serverId, serverTime,
                       svServerId, toClient>>
    BY DEF SvExecutePacket, client
  <1>2. /\ Window /\ PacketsInFlight /\ AcksInFlight /\ MapsInFlight
        /\ Executed /\ UnacknowledgedKept
    BY DEF Consistent
  <1>3. /\ reliableAcknowledge \in Nat /\ reliableSequence \in Nat
        /\ L \in Nat /\ L = Len(svExecuted) /\ svExecuted \in Seq(Texts)
        /\ Len(toClient) \in Nat
    BY Types DEF lastClientCommand
  <1>4. /\ p = toServer[1] /\ p \in Packets /\ 1 \in 1 .. Len(toServer)
        /\ Len(Tail(toServer)) = Len(toServer) - 1 /\ Len(toServer) \in Nat
        /\ \A i \in 1 .. Len(Tail(toServer)) :
               Tail(toServer)[i] = toServer[i + 1]
    BY <1>1, Types, TailFacts DEF TypeOK
  <1>5. /\ p.num \in Nat /\ p.num <= reliableAcknowledge + 1
        /\ p.num <= reliableSequence /\ p.text \in Texts
        /\ p.num # NoCommand => p.text = log[p.num]
    BY <1>2, <1>4, PacketFacts DEF Packets
  <1>. HIDE DEF p
  <1>6. ~svDropped'
    <2>1. ~(p.num > L + 1)
      BY <1>2, <1>3, <1>5 DEF Window
    <2>. QED  BY <1>1, <2>1
  <1>7. /\ lastClientCommand' \in Nat
        /\ L <= lastClientCommand'
        /\ lastClientCommand' <= reliableAcknowledge + 1
        /\ lastClientCommand' <= reliableSequence
        /\ \A n \in 1 .. lastClientCommand' : svExecuted'[n] = log[n]
    <2>1. CASE p.num = L + 1
      <3>1. svExecuted' = Append(svExecuted, p.text)
        BY <1>1, <2>1
      <3>2. /\ Len(svExecuted') = L + 1
            /\ svExecuted'[L + 1] = p.text
            /\ \A n \in 1 .. L : svExecuted'[n] = svExecuted[n]
        BY <3>1, <1>3, <1>5, AppendProperties
      <3>3. lastClientCommand' = L + 1
        BY <3>2 DEF lastClientCommand
      <3>4. p.text = log[L + 1]
        BY <1>3, <1>5, <2>1
      <3>5. ASSUME NEW n \in 1 .. L + 1 PROVE svExecuted'[n] = log[n]
        <4>1. CASE n = L + 1
          BY <4>1, <3>2, <3>4
        <4>2. CASE n # L + 1
          <5>1. n \in 1 .. L
            BY <4>2, <1>3
          <5>. QED  BY <5>1, <3>2, <1>2 DEF Executed
        <4>. QED  BY <4>1, <4>2
      <3>. QED  BY <3>3, <3>5, <2>1, <1>3, <1>5
    <2>2. CASE p.num # L + 1
      BY <2>2, <1>1, <1>2, <1>3 DEF Window, Executed, lastClientCommand
    <2>. QED  BY <2>1, <2>2
  <1>. HIDE DEF L
  <1>8. Window'
    BY <1>1, <1>2, <1>3, <1>6, <1>7 DEF Window, L
  <1>9. PacketsInFlight'
    BY <1>1, <1>2, PacketsTail
  <1>10. AcksInFlight'
    <2>. SUFFICES ASSUME NEW i \in 1 .. Len(toClient)
                  PROVE  toClient[i].ack <= lastClientCommand'
      BY <1>1, <1>2 DEF AcksInFlight
    <2>1. toClient[i].ack <= L /\ toClient[i].ack \in Nat
      BY <1>2, Types DEF AcksInFlight, L
    <2>. QED  BY <2>1, <1>3, <1>7
  <1>11. MapsInFlight'
    BY <1>1, <1>2 DEF MapsInFlight
  <1>12. Executed' /\ UnacknowledgedKept'
    BY <1>1, <1>2, <1>7 DEF Executed, UnacknowledgedKept
  <1>. QED
    BY <1>1, <1>8, <1>9, <1>10, <1>11, <1>12 DEF Consistent

\* A message the server sends acknowledges its last command and is offset
\* only while nothing numbered from gamestateAckCmd on has been executed.
LEMMA SendStep ==
    ASSUME TypeOK, TypeOK', Consistent, NEW kind \in {"gamestate", "snapshot"},
           toClient' = Append(toClient, SvMessage(kind)),
           toServer' = toServer \/ (toServer # << >> /\ toServer' = Tail(toServer)),
           UNCHANGED <<client, server>>
    PROVE  Consistent'
  <1>. DEFINE m == SvMessage(kind)
  <1>1. UNCHANGED <<reliableSequence, reliableAcknowledge, gamestateAckCmd,
                    reliableCommands, log, serverId, serverTime, svServerId,
                    svOffset, svExecuted, svDropped>>
    BY DEF client, server
  <1>2. /\ Window /\ PacketsInFlight /\ AcksInFlight /\ MapsInFlight
        /\ Executed /\ UnacknowledgedKept
    BY DEF Consistent
  <1>3. /\ m.id = svServerId /\ m.offset = svOffset
        /\ m.ack = lastClientCommand /\ m \in Messages
    BY Types DEF SvMessage, Messages, TypeOK
  <1>. HIDE DEF m
  <1>4. /\ Len(toClient') = Len(toClient) + 1 /\ Len(toClient) \in Nat
        /\ toClient'[Len(toClient) + 1] = m
        /\ \A i \in 1 .. Len(toClient) : toClient'[i] = toClient[i]
    BY <1>3, AppendProperties, LenProperties DEF TypeOK, m
  <1>5. \A i \in 1 .. Len(toClient') :
            \/ i \in 1 .. Len(toClient) /\ toClient'[i] = toClient[i]
            \/ i = Len(toClient) + 1 /\ toClient'[i] = m
    BY <1>4
  <1>6. lastClientCommand \in Nat /\ lastClientCommand' = lastClientCommand
        /\ reliableAcknowledge \in Nat
    BY <1>1, Types DEF lastClientCommand
  <1>7. Window' /\ Executed' /\ UnacknowledgedKept'
    BY <1>1, <1>2 DEF Window, Executed, UnacknowledgedKept, lastClientCommand
  <1>8. AcksInFlight'
    <2>1. \A i \in 1 .. Len(toClient') :
              /\ reliableAcknowledge <= toClient'[i].ack
              /\ toClient'[i].ack <= lastClientCommand
      BY <1>2, <1>3, <1>5, <1>6 DEF AcksInFlight, Window
    <2>2. ASSUME NEW i \in 1 .. Len(toClient'), NEW j \in 1 .. Len(toClient'),
                 i < j
          PROVE  toClient'[i].ack <= toClient'[j].ack
      <3>1. CASE j \in 1 .. Len(toClient)
        <4>1. i \in 1 .. Len(toClient)
          BY <3>1, <2>2, <1>4
        <4>. QED  BY <3>1, <4>1, <2>2, <1>2, <1>4 DEF AcksInFlight
      <3>2. CASE j = Len(toClient) + 1
        BY <3>2, <2>1, <1>3, <1>4
      <3>. QED  BY <3>1, <3>2, <1>4
    <2>. QED  BY <2>1, <2>2, <1>1, <1>6 DEF AcksInFlight
  <1>9. MapsInFlight'
    <2>1. \A i \in 1 .. Len(toClient') :
              /\ toClient'[i].id <= svServerId
              /\ toClient'[i].ack >= gamestateAckCmd
                 /\ toClient'[i].id = serverId => ~toClient'[i].offset
      BY <1>2, <1>3, <1>5, Types DEF MapsInFlight
    <2>. QED  BY <2>1, <1>1, <1>2, <1>6 DEF MapsInFlight
  <1>10. PacketsInFlight'
    <2>1. CASE toServer' = toServer
      BY <2>1, <1>1, <1>2 DEF PacketsInFlight
    <2>2. CASE toServer # << >> /\ toServer' = Tail(toServer)
      BY <2>2, <1>1, <1>2, PacketsTail
    <2>. QED  BY <2>1, <2>2
  <1>. QED  BY <1>1, <1>7, <1>8, <1>9, <1>10 DEF Consistent

\* A new map is one no gamestate has announced.
LEMMA MapChangeStep ==
    ASSUME TypeOK, TypeOK', Consistent, SvMapChange
    PROVE  Consistent'
  <1>1. /\ svServerId' = svServerId + 1
        /\ UNCHANGED <<reliableSequence, reliableAcknowledge, gamestateAckCmd,
                       reliableCommands, log, serverId, serverTime,
                       svExecuted, svDropped, toServer, toClient>>
    BY DEF SvMapChange, client
  <1>2. /\ Window /\ PacketsInFlight /\ AcksInFlight /\ MapsInFlight
        /\ Executed /\ UnacknowledgedKept
    BY DEF Consistent
  <1>3. \A i \in 1 .. Len(toClient) : toClient[i].id \in Nat
    BY Types DEF Messages
  <1>4. MapsInFlight'
    <2>1. serverId <= svServerId' /\ svServerId' # serverId
      BY <1>1, <1>2, Types DEF MapsInFlight
    <2>2. \A i \in 1 .. Len(toClient) : toClient[i].id <= svServerId'
      BY <1>1, <1>2, <1>3, Types DEF MapsInFlight
    <2>. QED  BY <2>1, <2>2, <1>1, <1>2 DEF MapsInFlight, lastClientCommand
  <1>5. /\ Window' /\ PacketsInFlight' /\ AcksInFlight' /\ Executed'
        /\ UnacknowledgedKept'
    BY <1>1, <1>2
    DEF Window, PacketsInFlight, AcksInFlight, Executed, UnacknowledgedKept,
        lastClientCommand
  <1>. QED  BY <1>1, <1>4, <1>5 DEF Consistent

\* Losing or ignoring packets disturbs nothing.
LEMMA DrainStep ==
    ASSUME TypeOK, TypeOK', Consistent,
           \/ toServer # << >> /\ toServer' = Tail(toServer)
              /\ toClient' = toClient
           \/ toClient # << >> /\ toClient' = Tail(toClient)
              /\ toServer' = toServer
           \/ toServer' = toServer /\ toClient' = toClient,
           UNCHANGED <<reliableSequence, reliableAcknowledge, gamestateAckCmd,
                       reliableCommands, log, serverId, serverTime,
                       svServerId, svOffset, svExecuted, svDropped>>
    PROVE  Consistent'
  <1>1. /\ Window /\ PacketsInFlight /\ AcksInFlight /\ MapsInFlight
        /\ Executed /\ UnacknowledgedKept
    BY DEF Consistent
  <1>2. Window' /\ Executed' /\ UnacknowledgedKept'
    BY <1>1 DEF Window, Executed, UnacknowledgedKept, lastClientCommand
  <1>3. PacketsInFlight'
    <2>1. CASE toServer' = toServer
      BY <2>1, <1>1 DEF PacketsInFlight
    <2>2. CASE toServer # << >> /\ toServer' = Tail(toServer)
      BY <2>2, <1>1, PacketsTail
    <2>. QED  BY <2>1, <2>2
  <1>4. AcksInFlight' /\ MapsInFlight'
    <2>1. CASE toClient' = toClient
      BY <2>1, <1>1 DEF AcksInFlight, MapsInFlight, lastClientCommand
    <2>2. CASE toClient # << >> /\ toClient' = Tail(toClient)
      BY <2>2, <1>1, AcksTail DEF AcksInFlight, MapsInFlight, lastClientCommand
    <2>. QED  BY <2>1, <2>2
  <1>. QED  BY <1>1, <1>2, <1>3, <1>4 DEF Consistent


-----------------------------------------------------------------------------

LEMMA InvInit == Init => IInv
  <1>. SUFFICES ASSUME Init PROVE Consistent
    BY DEF IInv
  <1>1. /\ Len(toServer) = 0 /\ Len(toClient) = 0 /\ lastClientCommand = 0
        /\ reliableSequence = 0 /\ reliableAcknowledge = 0
        /\ gamestateAckCmd = -1 /\ serverId = 0 /\ svServerId = 1
        /\ serverTime = NoTime /\ ~svDropped
    BY EmptySeq DEF Init, lastClientCommand
  <1>. QED
    BY <1>1, KAssumption
    DEF Consistent, Window, PacketsInFlight, AcksInFlight, MapsInFlight,
        Executed, UnacknowledgedKept

\* An overrun is never forgotten.
LEMMA OverrunStable == [Next]_vars /\ overrun => overrun'
  <1>. SUFFICES ASSUME [Next]_vars, overrun PROVE overrun'
    OBVIOUS
  <1>1. CASE ReadGamestate \/ ReadSnapshot
    BY <1>1
    DEF ReadGamestate, ReadSnapshot, ParseGamestate, ParseSnapshot
  <1>2. CASE QueueCommand \/ Quit
    BY <1>2, Zenon DEF QueueCommand, Quit, NewClientCommand
  <1>3. CASE \/ ReadNothing \/ CL_WritePacket \/ CommandTimer \/ Timeout
             \/ ServerNext \/ UNCHANGED vars
    BY <1>3
    DEF ReadNothing, CL_WritePacket, CommandTimer, Timeout, ServerNext,
        SvIgnorePacket, SvResendGamestate, SvExecutePacket, SvSendSnapshot,
        SvMapChange, LoseToServer, LoseToClient, vars, client
  <1>. QED  BY <1>1, <1>2, <1>3 DEF Next, ClientNext, Terminated

LEMMA InvStep == TypeOK /\ TypeOK' /\ IInv /\ [Next]_vars => IInv'
  <1>. SUFFICES ASSUME TypeOK, TypeOK', IInv, [Next]_vars, ~overrun'
                PROVE  Consistent'
    BY DEF IInv
  <1>1. Consistent
    BY OverrunStable DEF IInv
  <1>2. CASE ReadGamestate
    BY <1>1, <1>2, GamestateStep
  <1>3. CASE ReadSnapshot
    BY <1>1, <1>3, SnapshotStep
  <1>4. CASE QueueCommand
    BY <1>1, <1>4, NewCommandStep DEF QueueCommand, Texts
  <1>5. CASE Quit
    BY <1>1, <1>5, NewCommandStep DEF Quit, Texts
  <1>6. CASE CL_WritePacket
    BY <1>1, <1>6, WriteStep
  <1>7. CASE SvExecutePacket
    BY <1>1, <1>7, ExecuteStep
  <1>8. CASE SvResendGamestate
    BY <1>1, <1>8, SendStep DEF SvResendGamestate
  <1>9. CASE SvSendSnapshot
    BY <1>1, <1>9, SendStep DEF SvSendSnapshot
  <1>10. CASE SvMapChange
    BY <1>1, <1>10, MapChangeStep
  <1>11. CASE SvIgnorePacket \/ LoseToServer \/ LoseToClient
    BY <1>1, <1>11, DrainStep
    DEF SvIgnorePacket, LoseToServer, LoseToClient, client, server
  <1>12. CASE \/ ReadNothing \/ CommandTimer \/ Timeout \/ UNCHANGED vars
    BY <1>1, <1>12, DrainStep
    DEF ReadNothing, CommandTimer, Timeout, vars, client, server
  <1>. QED
    BY <1>2, <1>3, <1>4, <1>5, <1>6, <1>7, <1>8, <1>9, <1>10, <1>11, <1>12
    DEF Next, ClientNext, ServerNext, Terminated

\* The inductive invariant holds in every reachable state.
THEOREM InvariantHolds == Spec => []IInv
  <1>1. Init => TypeOK /\ IInv
    BY TypeInit, InvInit
  <1>2. TypeOK /\ IInv /\ [Next]_vars => TypeOK' /\ IInv'
    BY TypeStep, InvStep
  <1>. QED  BY <1>1, <1>2, PTL DEF Spec

\* After a map's gamestate no offset time of that map is believed, for every
\* ring size, as long as the ring has not overrun (CL_ParseServerMessage,
\* the svc_snapshot case).
THEOREM OffsetTimeRejected == Spec => []NoOffsetTime
  <1>1. IInv => NoOffsetTime
    BY DEF IInv, Consistent, NoOffsetTime
  <1>. QED  BY <1>1, InvariantHolds, PTL

\* The server executes the commands in order, each once, and no gamestate
\* renumbers one it has executed.
THEOREM OrderKept == Spec => []ExecutedInOrder
  <1>1. IInv => ExecutedInOrder
    BY DEF IInv, Consistent, Window, Executed, ExecutedInOrder
  <1>. QED  BY <1>1, InvariantHolds, PTL

\* The bot is dropped for lost commands only after its ring overran.
THEOREM DropNeedsOverrun == Spec => []DroppedOnlyByOverrun
  <1>1. IInv => DroppedOnlyByOverrun
    BY DEF IInv, Consistent, Window, DroppedOnlyByOverrun
  <1>. QED  BY <1>1, InvariantHolds, PTL

\* The number a gamestate takes for its empty command was never sent and
\* never executed.
THEOREM AckCmdFresh == Spec => AckCmdIsFresh
  <1>1. TypeOK /\ TypeOK' /\ IInv /\ [Next]_vars =>
            [ReadGamestate /\ ~overrun =>
                /\ gamestateAckCmd' > lastClientCommand
                /\ \A i \in 1 .. Len(toServer) :
                       toServer[i].num < gamestateAckCmd']_vars
    BY GamestateStep DEF IInv
  <1>. QED
    BY <1>1, TypeCorrect, InvariantHolds, PTL DEF AckCmdIsFresh, Spec

-----------------------------------------------------------------------------

\* A step of the channel is a step of the log: commands are queued, cut or
\* executed as CommandLog allows, or the ring has overrun.
LEMMA LogStep ==
    TypeOK /\ TypeOK' /\ IInv /\ [Next]_vars
        => [Channel!Next]_(Channel!logVars)
  <1>. SUFFICES ASSUME TypeOK, TypeOK', IInv, [Next]_vars
                PROVE  [Channel!Next]_(Channel!logVars)
    OBVIOUS
  <1>1. CASE overrun'
    BY <1>1 DEF Channel!Next
  <1>2. CASE ~overrun'
    <2>1. ~overrun /\ Consistent
      BY <1>2, OverrunStable DEF IInv
    <2>2. overrun' = overrun
      BY <1>2, <2>1, Zenon DEF TypeOK
    <2>3. CASE ReadGamestate
      <3>. DEFINE num == gamestateAckCmd'
                  ack == Acknowledge(Head(toClient))
                  L == Len(svExecuted)
      <3>1. /\ log' = Append(SubSeq(log, 1, num - 1), AckCmd)
            /\ num = LastKept(ack) + 1
            /\ toClient # << >> /\ svExecuted' = svExecuted
        BY <2>3 DEF ReadGamestate, ParseGamestate, NextAckCmd, server
      <3>2. num > L
        BY <2>1, <2>3, GamestateStep DEF lastClientCommand
      <3>3. ack \in Nat
        BY <2>1, <3>1, AcknowledgeFacts DEF Messages
      <3>4. num - 1 \in 0 .. reliableSequence
        <4>. HIDE DEF ack, num
        <4>1. LastKept(ack) \in 0 .. reliableSequence
          BY <3>3, LastKeptFacts
        <4>2. reliableSequence \in Nat
          BY Types
        <4>. QED  BY <4>1, <4>2, <3>1
      <3>5. num - 1 \in L .. Len(log)
        <4>1. reliableSequence \in Nat /\ Len(log) = reliableSequence /\ L \in Nat
          BY Types DEF lastClientCommand
        <4>2. num \in Int
          BY <3>4, <4>1, Types DEF TypeOK
        <4>. HIDE DEF L, num
        <4>. QED  BY <3>2, <3>4, <4>1, <4>2
      <3>6. Channel!Cut
        BY <3>1, <3>5, <2>2, Zenon DEF Channel!Cut
      <3>. QED  BY <3>6 DEF Channel!Next
    <2>4. CASE QueueCommand \/ Quit
      <3>1. /\ \E c \in Texts : log' = Append(log, c)
            /\ svExecuted' = svExecuted
        BY <2>4 DEF QueueCommand, Quit, NewClientCommand, server, Texts
      <3>. QED  BY <3>1, <2>2, Zenon DEF Channel!Next, Channel!Queue
    <2>5. CASE SvExecutePacket
      <3>. DEFINE p == Head(toServer)  L == lastClientCommand
      <3>1. /\ svExecuted' = IF p.num = L + 1 THEN Append(svExecuted, p.text)
                             ELSE svExecuted
            /\ toServer # << >> /\ log' = log /\ L = Len(svExecuted)
        BY <2>5 DEF SvExecutePacket, client, lastClientCommand
      <3>2. CASE p.num = L + 1
        <4>1. /\ p = toServer[1] /\ 1 \in 1 .. Len(toServer)
          BY <3>1, Types, TailFacts DEF TypeOK
        <4>2. L \in Nat /\ p.num # NoCommand
          BY <3>2, Types
        <4>3. /\ p.text = log[L + 1] /\ L + 1 <= Len(log)
          BY <4>1, <4>2, <3>2, <2>1, PacketFacts, Types DEF Consistent
        <4>4. L < Len(log)
          BY <4>2, <4>3, Types
        <4>5. Channel!Execute
          BY <4>3, <4>4, <3>1, <3>2, <2>2 DEF Channel!Execute
        <4>. QED  BY <4>5 DEF Channel!Next
      <3>3. CASE p.num # L + 1
        BY <3>1, <3>3, <2>2 DEF Channel!logVars
      <3>. QED  BY <3>2, <3>3
    <2>6. CASE \/ ReadSnapshot \/ ReadNothing \/ CL_WritePacket
               \/ CommandTimer \/ Timeout \/ SvIgnorePacket
               \/ SvResendGamestate \/ SvSendSnapshot \/ SvMapChange
               \/ LoseToServer \/ LoseToClient \/ UNCHANGED vars
      <3>1. log' = log /\ svExecuted' = svExecuted
        BY <2>6
        DEF ReadSnapshot, ParseSnapshot, ReadNothing, CL_WritePacket,
            CommandTimer, Timeout, SvIgnorePacket, SvResendGamestate,
            SvSendSnapshot, SvMapChange, LoseToServer, LoseToClient, vars,
            client, server
      <3>. QED  BY <3>1, <2>2 DEF Channel!logVars
    <2>. QED
      BY <2>3, <2>4, <2>5, <2>6 DEF Next, ClientNext, ServerNext, Terminated
  <1>. QED  BY <1>1, <1>2

\* Until the ring overruns, the command channel implements the log of
\* CommandLog: queue, cut behind what was executed, execute in order.
THEOREM ChannelImplementsLog == Spec => ImplementsLog
  <1>1. Init => Channel!Init
    BY DEF Init, Channel!Init
  <1>. QED
    BY <1>1, LogStep, TypeCorrect, InvariantHolds, PTL
    DEF Spec, ImplementsLog, Channel!Spec

=============================================================================
