------------------------- MODULE ServerCommandsProofs -------------------------
(***************************************************************************)
(* The channel of the server's commands is CommandLog, and the game state  *)
(* follows it, for a ring of any size and any bounds.                      *)
(***************************************************************************)
EXTENDS ServerCommands, SequenceTheorems, WellFoundedInduction, TLAPS

(***************************************************************************)
(* The inductive invariant.                                                *)
(***************************************************************************)

\* CS_INTERMISSION of the map or restart id, as the first n commands of a log
\* leave it: it is 0 until a command of that id changes it.
Value(log, id, n) ==
    IF n >= 1 /\ log[n].id = id THEN log[n].intermission ELSE 0

\* The server ids only grow, and only a configstring changes the value.
Ordered(log, s) ==
    /\ \A i, j \in 1 .. Len(log) : i <= j => log[i].id <= log[j].id
    /\ \A n \in 1 .. Len(log) :
           /\ log[n].id <= s.id
           /\ log[n].kind # "cs" =>
                  log[n].intermission = Value(log, log[n].id, n - 1)
    /\ s.intermission = Value(log, s.id, Len(log))

\* A message has the commands behind an acknowledge, up to the last one of
\* when it was sent, and fits the ring.
OfLog(m, log, ack, seq) ==
    /\ 1 <= m.first /\ m.first <= ack + 1
    /\ seq <= Last(m) /\ Last(m) <= Len(log)
    /\ Len(m.commands) <= K
    /\ \A i \in 1 .. Len(m.commands) : m.commands[i] = log[m.first + i - 1]
    /\ m.kind = "gamestate" =>
           m.intermission = Value(log, m.id, Last(m))

\* A channel is a queue of messages of one log.
InOrder(msgs) ==
    \A i, j \in 1 .. Len(msgs) : i <= j => Last(msgs[i]) <= Last(msgs[j])

MessagesAreOfLog ==
    /\ \A i \in 1 .. Len(toClient) :
           OfLog(toClient[i], svLog, svAck, serverCommandSequence)
    /\ InOrder(toClient)

\* The ring holds the last K numbers, number 0 the empty command.
Recent(ring, log, seq) ==
    \A n \in 0 .. seq :
        seq < n + K => ring[n % K] = IF n = 0 THEN NoCommand ELSE log[n]

\* What was not executed is in the ring, and not acknowledged.
WindowIsOpen ==
    /\ serverCommandSequence <= Len(svLog)
    /\ Len(svLog) <= svAck + K
    /\ svAck = 0 \/ svAck < lastExecutedServerCommand
    /\ serverCommandSequence < lastExecutedServerCommand + K
    /\ phase = "read" =>
           \/ lastExecutedServerCommand > serverCommandSequence
           \/ lastExecutedServerCommand = 0 /\ gamestateId = 0

\* The executed commands are the first ones of the log.
ExecutedIsPrefix ==
    /\ Len(executed) = Max2(0, lastExecutedServerCommand - 1)
    /\ Len(executed) <= Len(svLog)
    /\ \A i \in 1 .. Len(executed) : executed[i] = svLog[i]

TimeIsLate == intermissionTime = -1 \/ intermissionTime >= Delay

DemoIsOfGamestate == demo = NoDemo \/ demo = gamestateId

\* The configstring follows the commands, except that a gamestate is ahead of
\* the commands in its own message; no time is known then.
ConfigstringFollows ==
    LET n == Len(executed)
    IN  (/\ gamestateId # 0
         /\ ~stale
         /\ n >= 1 => svLog[n].id <= gamestateId)
            => \/ cl.intermission = Value(svLog, gamestateId, n)
               \/ /\ cl.intermission =
                         Value(svLog, gamestateId, serverCommandSequence)
                  /\ cl.serverTime = 0

IInv ==
    /\ TypeOK
    /\ Ordered(svLog, sv)
    /\ MessagesAreOfLog
    /\ Recent(serverCommands, svLog, serverCommandSequence)
    /\ WindowIsOpen
    /\ ExecutedIsPrefix
    /\ IntermissionIsKnown
    /\ TimeIsLate
    /\ DemoIsOfGamestate
    /\ ConfigstringFollows

(***************************************************************************)
(* Sequences, the ring and messages.                                       *)
(***************************************************************************)

LEMMA Numbers ==
    /\ K \in Nat /\ K >= 2 /\ Delay \in Nat /\ Delay >= 1
    /\ MaxTime \in Nat /\ MaxTime >= 1 /\ MaxId \in Nat /\ MaxId >= 1
    /\ NoDemo \notin Ids /\ Ids \subseteq Nat \ {0} /\ Times \subseteq Nat
  <1>1. /\ K \in Nat /\ K >= 2 /\ Delay \in Nat /\ Delay >= 1
        /\ MaxTime \in Nat /\ MaxTime >= 1 /\ MaxId \in Nat /\ MaxId >= 1
    BY KAssumption, TimeAssumption, BoundsAssumption
  <1>2. Ids \subseteq Nat \ {0} /\ Times \subseteq Nat
    BY <1>1 DEF Ids, Times
  <1>. QED
    BY <1>1, <1>2, NoDemoAssumption

LEMMA IdsAreNumbers == \A i \in Ids : i \in Nat /\ i <= i
  <1>1. \A i \in Ids : i \in Nat
    BY Numbers
  <1>2. \A i \in Nat : i <= i
    OBVIOUS
  <1>. QED
    BY <1>1, <1>2

LEMMA NoCommandFacts ==
    /\ NoCommand.kind = "empty" /\ NoCommand \notin Commands
    /\ \A c \in Commands :
           /\ c.kind \in {"cs", "patch", "serverid", "scores", "map_restart"}
           /\ c.id \in Ids /\ c.intermission \in {0, 1} /\ c.final \in BOOLEAN
           /\ c.kind # "empty"
  <1>1. NoCommand.kind = "empty"
    BY DEF NoCommand
  <1>2. \A c \in Commands :
           /\ c.kind \in {"cs", "patch", "serverid", "scores", "map_restart"}
           /\ c.id \in Ids /\ c.intermission \in {0, 1} /\ c.final \in BOOLEAN
    BY DEF Commands
  <1>. QED
    BY <1>1, <1>2

\* A queue loses its head.
LEMMA TailFacts ==
    ASSUME NEW S, NEW s \in Seq(S), s # << >>
    PROVE  /\ Head(s) \in S /\ Head(s) = s[1]
           /\ Len(s) \in Nat /\ Len(s) >= 1
           /\ Tail(s) \in Seq(S) /\ Len(Tail(s)) = Len(s) - 1
           /\ \A i \in 1 .. Len(s) - 1 : Tail(s)[i] = s[i + 1]
  <1>1. Len(s) \in Nat /\ Len(s) >= 1
    BY EmptySeq, LenProperties
  <1>2. Tail(s) \in Seq(S) /\ Len(Tail(s)) = Len(s) - 1 /\ Head(s) \in S
    BY HeadTailProperties
  <1>3. \A i \in 1 .. Len(s) - 1 : Tail(s)[i] = s[i + 1]
    BY <1>2, HeadTailProperties
  <1>4. Head(s) = s[1]
    BY <1>1
  <1>. QED
    BY <1>1, <1>2, <1>3, <1>4

LEMMA AppendFacts ==
    ASSUME NEW S, NEW s \in Seq(S), NEW e \in S
    PROVE  /\ Append(s, e) \in Seq(S) /\ Len(s) \in Nat
           /\ Len(Append(s, e)) = Len(s) + 1
           /\ \A i \in 1 .. Len(s) : Append(s, e)[i] = s[i]
           /\ Append(s, e)[Len(s) + 1] = e
  BY AppendProperties, LenProperties

\* The ring's index is in range.
LEMMA RingIndex ==
    ASSUME NEW n \in Nat
    PROVE  n % K \in 0 .. K - 1
  BY KAssumption

\* Numbers less than K apart use different slots of the ring.
LEMMA RingSlots ==
    ASSUME NEW a \in Nat, NEW b \in Nat, a < b, b < a + K
    PROVE  a % K # b % K
  <1>. DEFINE qa == a \div K  qb == b \div K
  <1>1. K \in Nat /\ K > 0
    BY KAssumption
  <1>2. qa \in Int /\ qb \in Int /\ a % K \in Int /\ b % K \in Int
    BY <1>1
  <1>3. a = (K * qa) + (a % K) /\ b = (K * qb) + (b % K)
    BY <1>1
  <1>. SUFFICES ASSUME a % K = b % K PROVE FALSE
    OBVIOUS
  <1>4. b - a = K * (qb - qa)
    BY <1>1, <1>2, <1>3
  <1>5. CASE qb - qa <= 0
    BY <1>1, <1>2, <1>4, <1>5
  <1>6. CASE qb - qa >= 1
    BY <1>1, <1>2, <1>4, <1>6
  <1>. QED
    BY <1>2, <1>5, <1>6

LEMMA MessageFacts ==
    ASSUME NEW m \in Messages
    PROVE  /\ m.kind \in {"gamestate", "snapshot"}
           /\ m.first \in Nat /\ m.commands \in Seq(Commands)
           /\ m.id \in Ids /\ m.intermission \in {0, 1} /\ m.time \in Times
           /\ Len(m.commands) \in Nat
           /\ Last(m) = m.first + Len(m.commands) - 1 /\ Last(m) \in Int
           /\ \A i \in 1 .. Len(m.commands) : m.commands[i] \in Commands
  <1>1. /\ m.kind \in {"gamestate", "snapshot"}
        /\ m.first \in Nat /\ m.commands \in Seq(Commands)
        /\ m.id \in Ids /\ m.intermission \in {0, 1} /\ m.time \in Times
    BY DEF Messages
  <1>2. Len(m.commands) \in Nat
    BY <1>1, LenProperties
  <1>3. \A i \in 1 .. Len(m.commands) : m.commands[i] \in Commands
    BY <1>1, ElementOfSeq
  <1>. QED
    BY <1>1, <1>2, <1>3 DEF Last

\* A value is of the commands up to a number, whatever is queued behind them.
LEMMA ValueSame ==
    ASSUME NEW log, NEW t, NEW id, NEW n \in Int,
           \A i \in 1 .. n : t[i] = log[i]
    PROVE  Value(t, id, n) = Value(log, id, n)
  BY DEF Value

\* The place of a command in a log that has the message it is in.
LEMMA PlaceInLog ==
    ASSUME NEW first \in Nat, NEW n \in Nat, NEW len \in Nat,
           1 <= first, first + n - 1 <= len, NEW i \in 1 .. n
    PROVE  first + i - 1 \in 1 .. len
  OBVIOUS

\* Numbers in a stretch as long as the ring are less than its length apart.
LEMMA InStretch ==
    ASSUME NEW lo \in Nat, NEW last \in Int, NEW k \in Nat, last < lo + k,
           NEW n \in lo .. last, NEW o \in lo .. last
    PROVE  n < o + k
  OBVIOUS

\* A message stays one of the log as commands are queued and acknowledged.
LEMMA OfLogMore ==
    ASSUME NEW m \in Messages, NEW log \in Seq(Commands), NEW t \in Seq(Commands),
           NEW ack \in Nat, NEW more \in Nat, ack <= more,
           NEW seq \in Nat, NEW next \in Nat, next <= Last(m),
           Len(log) <= Len(t), \A i \in 1 .. Len(log) : t[i] = log[i],
           OfLog(m, log, ack, seq)
    PROVE  OfLog(m, t, more, next)
  <1>1. /\ m.first \in Nat /\ Len(m.commands) \in Nat
        /\ Last(m) = m.first + Len(m.commands) - 1 /\ Last(m) \in Int
    BY MessageFacts
  <1>2. Len(log) \in Nat /\ Len(t) \in Nat
    BY LenProperties
  <1>3. /\ 1 <= m.first /\ m.first <= ack + 1 /\ seq <= Last(m)
        /\ Last(m) <= Len(log) /\ Len(m.commands) <= K
        /\ \A i \in 1 .. Len(m.commands) : m.commands[i] = log[m.first + i - 1]
        /\ m.kind = "gamestate" => m.intermission = Value(log, m.id, Last(m))
    BY DEF OfLog
  <1>4. ASSUME NEW i \in 1 .. Len(m.commands)
        PROVE  m.first + i - 1 \in 1 .. Len(log)
    <2>1. m.first + Len(m.commands) - 1 <= Len(log) /\ 1 <= m.first
      BY <1>1, <1>3
    <2>. QED
      BY <1>1, <1>2, <2>1, PlaceInLog
  <1>5. \A i \in 1 .. Last(m) : i \in 1 .. Len(log)
    BY <1>1, <1>2, <1>3
  <1>6. Value(t, m.id, Last(m)) = Value(log, m.id, Last(m))
    BY <1>1, <1>5, ValueSame
  <1>7. \A i \in 1 .. Len(m.commands) : m.commands[i] = t[m.first + i - 1]
    BY <1>3, <1>4
  <1>8. 1 <= m.first /\ m.first <= more + 1 /\ Last(m) <= Len(t)
    BY <1>1, <1>2, <1>3
  <1>. QED
    BY <1>3, <1>6, <1>7, <1>8 DEF OfLog

\* What the typed state gives.
LEMMA Types ==
    ASSUME TypeOK
    PROVE  /\ serverCommandSequence \in Nat
           /\ lastExecutedServerCommand \in Nat
           /\ lastExecutedServerCommand <= serverCommandSequence + 1
           /\ svAck \in Nat /\ svAck <= serverCommandSequence
           /\ svLog \in Seq(Commands) /\ Len(svLog) \in Nat
           /\ executed \in Seq(Commands) /\ Len(executed) \in Nat
           /\ \A i \in 1 .. Len(svLog) : svLog[i] \in Commands
           /\ toClient \in Seq(Messages) /\ Len(toClient) \in Nat
           /\ \A i \in 1 .. Len(toClient) : toClient[i] \in Messages
           /\ sv.id \in Ids /\ sv.intermission \in {0, 1} /\ sv.time \in Times
           /\ cl.intermission \in {0, 1} /\ cl.serverTime \in Times
           /\ cl.serverId \in {0} \cup Ids
           /\ cl.systemInfo \in Seq(Ids \cup {Other})
           /\ gamestateId \in {0} \cup Ids
  <1>1. /\ serverCommandSequence \in Nat
        /\ lastExecutedServerCommand \in 0 .. serverCommandSequence + 1
        /\ svAck \in 0 .. serverCommandSequence
        /\ svLog \in Seq(Commands) /\ executed \in Seq(Commands)
        /\ toClient \in Seq(Messages) /\ gamestateId \in {0} \cup Ids
        /\ sv \in SvStates /\ cl \in GameStates
    BY DEF TypeOK
  <1>2. /\ sv.id \in Ids /\ sv.intermission \in {0, 1} /\ sv.time \in Times
    BY <1>1 DEF SvStates
  <1>3. /\ cl.intermission \in {0, 1} /\ cl.serverTime \in Times
        /\ cl.serverId \in {0} \cup Ids
        /\ cl.systemInfo \in Seq(Ids \cup {Other})
    BY <1>1 DEF GameStates
  <1>4. /\ Len(svLog) \in Nat /\ Len(executed) \in Nat /\ Len(toClient) \in Nat
    BY <1>1, LenProperties
  <1>5. /\ \A i \in 1 .. Len(svLog) : svLog[i] \in Commands
        /\ \A i \in 1 .. Len(toClient) : toClient[i] \in Messages
    BY <1>1, ElementOfSeq
  <1>. QED
    BY <1>1, <1>2, <1>3, <1>4, <1>5

\* The first server id of a system info.
LEMMA ServerIdFacts ==
    ASSUME NEW info \in Seq(Ids \cup {Other})
    PROVE  ServerIdOf(info) \in {0} \cup Ids
  <1>. DEFINE ids == {i \in 1 .. Len(info) : info[i] # Other}
              Less == {p \in Nat \X Nat : p[1] < p[2]}
  <1>1. CASE ids = {}
    BY <1>1 DEF ServerIdOf
  <1>2. CASE ids # {}
    <2>1. Len(info) \in Nat /\ ids \subseteq Nat
      BY LenProperties
    <2>2. \A x, y \in Nat : <<y, x>> \in Less <=> y < x
      OBVIOUS
    <2>3. IsWellFoundedOn(Less, Nat)
      BY NatLessThanWellFounded DEF OpToRel
    <2>. HIDE DEF Less
    <2>4. PICK x \in ids : \A y \in ids : <<y, x>> \notin Less
      BY <1>2, <2>1, <2>3, WFMin
    <2>5. ASSUME NEW y \in ids
          PROVE  x <= y
      <3>1. x \in Nat /\ y \in Nat /\ ~(y < x)
        BY <2>1, <2>2, <2>4
      <3>. QED
        BY <3>1
    <2>6. (CHOOSE i \in ids : \A j \in ids : i <= j) \in ids
      BY <2>5
    <2>7. \A i \in ids : info[i] \in Ids
      BY ElementOfSeq
    <2>8. ServerIdOf(info) = info[CHOOSE i \in ids : \A j \in ids : i <= j]
      BY <1>2 DEF ServerIdOf
    <2>. HIDE DEF ids
    <2>. QED
      BY <2>6, <2>7, <2>8
  <1>. QED
    BY <1>1, <1>2

(***************************************************************************)
(* Reading a message.                                                      *)
(***************************************************************************)

\* The head of the channel, and what is left of it.
LEMMA HeadFacts ==
    ASSUME IInv, toClient # << >>
    PROVE  /\ Head(toClient) \in Messages
           /\ OfLog(Head(toClient), svLog, svAck, serverCommandSequence)
           /\ Last(Head(toClient)) \in Nat
           /\ Tail(toClient) \in Seq(Messages)
           /\ InOrder(Tail(toClient))
           /\ \A i \in 1 .. Len(Tail(toClient)) :
                  /\ Tail(toClient)[i] \in Messages
                  /\ OfLog(Tail(toClient)[i], svLog, svAck, serverCommandSequence)
                  /\ Last(Head(toClient)) <= Last(Tail(toClient)[i])
  <1>. DEFINE m == Head(toClient)  t == Tail(toClient)
  <1>1. TypeOK /\ MessagesAreOfLog
    BY DEF IInv
  <1>2. toClient \in Seq(Messages)
    BY <1>1, Types
  <1>3. /\ m \in Messages /\ m = toClient[1]
        /\ Len(toClient) \in Nat /\ Len(toClient) >= 1
        /\ t \in Seq(Messages) /\ Len(t) = Len(toClient) - 1
        /\ \A i \in 1 .. Len(toClient) - 1 : t[i] = toClient[i + 1]
    BY <1>2, TailFacts
  <1>. HIDE DEF m, t
  <1>4. 1 \in 1 .. Len(toClient)
    BY <1>3
  <1>5. OfLog(m, svLog, svAck, serverCommandSequence)
    BY <1>1, <1>3, <1>4 DEF MessagesAreOfLog
  <1>6. Last(m) \in Nat
    <2>1. Last(m) \in Int /\ serverCommandSequence <= Last(m)
      BY <1>3, <1>5, MessageFacts DEF OfLog
    <2>2. serverCommandSequence \in Nat
      BY <1>1, Types
    <2>. QED
      BY <2>1, <2>2
  <1>7. \A i \in 1 .. Len(t) : i + 1 \in 1 .. Len(toClient) /\ t[i] = toClient[i + 1]
    BY <1>3
  <1>8. InOrder(t)
    <2>1. \A i, j \in 1 .. Len(t) : i <= j => i + 1 <= j + 1
      OBVIOUS
    <2>. QED
      BY <1>1, <1>7, <2>1 DEF MessagesAreOfLog, InOrder
  <1>9. \A i \in 1 .. Len(t) :
            /\ t[i] \in Messages
            /\ OfLog(t[i], svLog, svAck, serverCommandSequence)
            /\ Last(m) <= Last(t[i])
    <2>1. \A i \in 1 .. Len(t) : t[i] \in Messages
      BY <1>3, ElementOfSeq
    <2>2. \A i \in 1 .. Len(t) : 1 <= i + 1
      OBVIOUS
    <2>. QED
      BY <1>1, <1>3, <1>4, <1>7, <2>1, <2>2 DEF MessagesAreOfLog, InOrder
  <1>. QED
    BY <1>3, <1>5, <1>6, <1>8, <1>9 DEF m, t

\* The new commands of a message go to different slots, and leave in theirs
\* the stored ones that are still among the last K.
LEMMA RingFacts ==
    ASSUME IInv, NEW m \in Messages,
           OfLog(m, svLog, svAck, serverCommandSequence)
    PROVE  /\ Ring(m) \in [0 .. K - 1 -> Commands \cup {NoCommand}]
           /\ Recent(Ring(m), svLog, Last(m))
  <1>. DEFINE seq == serverCommandSequence  last == Last(m)
              lo == Max2(m.first, seq + 1)
              new(i) == {n \in lo .. last : n % K = i}
              pick(i) == CHOOSE n \in new(i) : \A o \in new(i) : o <= n
  <1>1. /\ K \in Nat /\ K >= 2 /\ seq \in Nat /\ svAck \in Nat /\ svAck <= seq
        /\ serverCommands \in [0 .. K - 1 -> Commands \cup {NoCommand}]
        /\ Recent(serverCommands, svLog, seq)
    BY Numbers, Types DEF IInv, TypeOK
  <1>2. /\ m.first \in Nat /\ Len(m.commands) \in Nat
        /\ last = m.first + Len(m.commands) - 1 /\ last \in Int
        /\ \A i \in 1 .. Len(m.commands) : m.commands[i] \in Commands
    BY MessageFacts
  <1>3. /\ 1 <= m.first /\ m.first <= svAck + 1 /\ seq <= last
        /\ Len(m.commands) <= K
        /\ \A i \in 1 .. Len(m.commands) : m.commands[i] = svLog[m.first + i - 1]
    BY DEF OfLog
  <1>. HIDE DEF seq, last
  <1>4. lo = seq + 1 /\ last <= seq + K /\ lo >= 1 /\ lo >= m.first
    <2>1. m.first <= seq + 1
      BY <1>1, <1>2, <1>3
    <2>2. lo = seq + 1
      BY <1>1, <1>2, <2>1 DEF Max2
    <2>. HIDE DEF lo
    <2>3. last <= seq + K
      BY <1>1, <1>2, <1>3
    <2>. QED
      BY <1>1, <1>2, <2>1, <2>2, <2>3
  <1>. HIDE DEF lo
  <1>5. \A n \in lo .. last :
            /\ n \in Nat /\ n >= 1 /\ n - m.first + 1 \in 1 .. Len(m.commands)
            /\ m.first + (n - m.first + 1) - 1 = n
    <2>. SUFFICES ASSUME NEW n \in lo .. last
                  PROVE  /\ n \in Nat /\ n >= 1
                         /\ n - m.first + 1 \in 1 .. Len(m.commands)
                         /\ m.first + (n - m.first + 1) - 1 = n
      OBVIOUS
    <2>1. /\ seq \in Nat /\ m.first \in Nat /\ Len(m.commands) \in Nat
          /\ last = m.first + Len(m.commands) - 1 /\ lo = seq + 1
          /\ lo >= m.first
      BY <1>1, <1>2, <1>4
    <2>2. n \in Int /\ lo <= n /\ n <= last
      BY <2>1
    <2>3. n \in Nat /\ n >= 1 /\ m.first <= n
      BY <2>1, <2>2
    <2>4. n - m.first + 1 \in Nat /\ n - m.first + 1 >= 1
      BY <2>1, <2>3
    <2>5. n - m.first + 1 <= Len(m.commands)
      BY <2>1, <2>2
    <2>. QED
      BY <2>1, <2>3, <2>4, <2>5
  <1>6. ASSUME NEW i \in 0 .. K - 1, NEW n \in new(i), NEW k \in new(i)
        PROVE  n = k
    <2>0. /\ n \in lo .. last /\ k \in lo .. last
          /\ n \in Nat /\ k \in Nat /\ n % K = k % K
      BY <1>5
    <2>1. /\ lo \in Nat /\ last \in Int /\ K \in Nat /\ last < lo + K
      BY <1>1, <1>2, <1>4
    <2>2. n < k + K /\ k < n + K
      BY <2>0, <2>1, InStretch
    <2>. QED
      BY <2>0, <2>2, RingSlots
  <1>7. ASSUME NEW i \in 0 .. K - 1, NEW n \in new(i)
        PROVE  pick(i) = n
    <2>1. \A o \in new(i) : o <= n
      BY <1>5, <1>6
    <2>2. pick(i) \in new(i)
      BY <2>1
    <2>. HIDE DEF new, pick
    <2>. QED
      BY <1>6, <2>2
  <1>8. \A i \in 0 .. K - 1 :
            Ring(m)[i] = IF new(i) = {} THEN serverCommands[i]
                         ELSE m.commands[pick(i) - m.first + 1]
    BY DEF Ring, seq, last, lo
  <1>9. DOMAIN Ring(m) = 0 .. K - 1 /\ Ring(m) = [i \in 0 .. K - 1 |-> Ring(m)[i]]
    BY DEF Ring
  <1>10. \A i \in 0 .. K - 1 : \A n \in new(i) :
             /\ Ring(m)[i] = svLog[n]
             /\ Ring(m)[i] \in Commands
    <2>. SUFFICES ASSUME NEW i \in 0 .. K - 1, NEW n \in new(i)
                  PROVE  Ring(m)[i] = svLog[n] /\ Ring(m)[i] \in Commands
      OBVIOUS
    <2>1. pick(i) = n /\ new(i) # {} /\ n \in lo .. last
      BY <1>7
    <2>. HIDE DEF new, pick
    <2>2. Ring(m)[i] = m.commands[n - m.first + 1]
      BY <1>8, <2>1
    <2>3. /\ n - m.first + 1 \in 1 .. Len(m.commands)
          /\ m.first + (n - m.first + 1) - 1 = n
      BY <1>5, <2>1
    <2>4. \A k \in 1 .. Len(m.commands) :
              m.commands[k] = svLog[m.first + k - 1] /\ m.commands[k] \in Commands
      BY <1>2, <1>3
    <2>5. m.commands[n - m.first + 1] = svLog[m.first + (n - m.first + 1) - 1]
          /\ m.commands[n - m.first + 1] \in Commands
      BY <2>3, <2>4
    <2>. QED
      BY <2>2, <2>3, <2>5
  <1>11. ASSUME NEW i \in 0 .. K - 1
         PROVE  Ring(m)[i] \in Commands \cup {NoCommand}
    <2>1. CASE new(i) = {}
      BY <1>1, <1>8, <2>1
    <2>2. CASE new(i) # {}
      <3>1. PICK n : n \in new(i)
        BY <2>2
      <3>. QED
        BY <1>10, <3>1
    <2>. QED
      BY <2>1, <2>2
  <1>12. Ring(m) \in [0 .. K - 1 -> Commands \cup {NoCommand}]
    BY <1>9, <1>11
  <1>13. ASSUME NEW n \in 0 .. last, last < n + K
         PROVE  Ring(m)[n % K] = IF n = 0 THEN NoCommand ELSE svLog[n]
    <2>1. n \in Nat /\ n % K \in 0 .. K - 1
      BY <1>2, RingIndex
    <2>2. CASE n >= lo
      <3>1. n \in new(n % K) /\ n # 0
        BY <1>1, <1>2, <1>4, <2>1, <2>2
      <3>. HIDE DEF new
      <3>. QED
        BY <1>10, <2>1, <3>1
    <2>3. CASE n < lo
      <3>1. n \in 0 .. seq /\ seq < n + K
        <4>1. /\ n \in Nat /\ n < seq + 1 /\ seq <= last /\ last < n + K
              /\ K \in Nat /\ seq \in Nat /\ last \in Int
          BY <1>1, <1>2, <1>3, <1>4, <1>13, <2>1, <2>3
        <4>. QED
          BY <4>1
      <3>2. new(n % K) = {}
        <4>. SUFFICES ASSUME NEW k \in new(n % K) PROVE FALSE
          OBVIOUS
        <4>1. k \in lo .. last /\ k % K = n % K
          OBVIOUS
        <4>2. k \in Nat /\ lo <= k /\ k <= last /\ lo \in Nat /\ last \in Int
          BY <1>1, <1>2, <1>4, <1>5, <4>1
        <4>3. n < k /\ k < n + K
          <5>1. n \in Nat /\ n < lo /\ last < n + K /\ K \in Nat
            BY <1>1, <1>13, <2>1, <2>3
          <5>. QED
            BY <4>2, <5>1
        <4>. QED
          BY <2>1, <4>1, <4>2, <4>3, RingSlots
      <3>. HIDE DEF new, pick
      <3>3. Ring(m)[n % K] = serverCommands[n % K]
        BY <1>8, <2>1, <3>2
      <3>. QED
        BY <1>1, <3>1, <3>3 DEF Recent
    <2>. QED
      BY <1>1, <1>2, <1>4, <2>1, <2>2, <2>3
  <1>14. Recent(Ring(m), svLog, last)
    BY <1>13 DEF Recent
  <1>. QED
    BY <1>12, <1>14 DEF last

\* The part of the invariant that is about the channel alone.
ChannelSound ==
    /\ phase \in {"read", "execute"}
    /\ serverCommandSequence \in Nat
    /\ lastExecutedServerCommand \in 0 .. serverCommandSequence + 1
    /\ serverCommands \in [0 .. K - 1 -> Commands \cup {NoCommand}]
    /\ executed \in Seq(Commands)
    /\ svLog \in Seq(Commands)
    /\ svAck \in 0 .. serverCommandSequence
    /\ sv \in SvStates
    /\ toClient \in Seq(Messages)
    /\ Ordered(svLog, sv)
    /\ MessagesAreOfLog
    /\ Recent(serverCommands, svLog, serverCommandSequence)
    /\ WindowIsOpen
    /\ ExecutedIsPrefix

\* The part that is about the game state.
StateSound ==
    /\ cl \in GameStates
    /\ intermissionTime \in Nat \cup {-1}
    /\ demo \in Ids \cup {NoDemo}
    /\ donedl \in Nat
    /\ gamestateId \in {0} \cup Ids
    /\ stale \in BOOLEAN
    /\ IntermissionIsKnown
    /\ TimeIsLate
    /\ DemoIsOfGamestate
    /\ ConfigstringFollows

LEMMA IInvParts == IInv <=> ChannelSound /\ StateSound
  BY DEF IInv, TypeOK, ChannelSound, StateSound

LEMMA IInvNextParts == (ChannelSound /\ StateSound)' <=> IInv'
  BY IInvParts, PTL

\* CL_ParseServerMessage: nothing in the ring is overwritten before it was
\* executed, so the execution goes on where it was.
LEMMA ReadFacts ==
    ASSUME IInv, NEW kind, ReadMessage(kind, Last(Head(toClient)))
    PROVE  /\ ChannelSound'
           /\ serverCommandSequence' = Last(Head(toClient))
           /\ executed' = executed /\ donedl' = donedl /\ svLog' = svLog
           /\ Head(toClient) \in Messages /\ Head(toClient).kind = kind
           /\ OfLog(Head(toClient), svLog, svAck, serverCommandSequence)
           /\ gamestateId # 0 => Len(executed) = serverCommandSequence
  <1>. DEFINE m == Head(toClient)  last == Last(m)
              seq == serverCommandSequence  next == lastExecutedServerCommand
  <1>1. /\ phase = "read" /\ toClient # << >> /\ m.kind = kind
        /\ toClient' = Tail(toClient) /\ serverCommands' = Ring(m)
        /\ seq' = last /\ next' = Start(last) /\ phase' = "execute"
        /\ donedl' = donedl /\ executed' = executed /\ svLog' = svLog
        /\ svAck' = svAck /\ sv' = sv
    BY DEF ReadMessage, server
  <1>2. /\ m \in Messages /\ last \in Nat /\ Tail(toClient) \in Seq(Messages)
        /\ OfLog(m, svLog, svAck, seq) /\ InOrder(Tail(toClient))
        /\ \A i \in 1 .. Len(Tail(toClient)) :
               /\ Tail(toClient)[i] \in Messages
               /\ OfLog(Tail(toClient)[i], svLog, svAck, seq)
               /\ last <= Last(Tail(toClient)[i])
    BY <1>1, HeadFacts
  <1>3. /\ TypeOK /\ Ordered(svLog, sv) /\ WindowIsOpen /\ ExecutedIsPrefix
        /\ svAck \in Nat /\ svAck <= seq /\ seq \in Nat /\ next \in Nat
        /\ next <= seq + 1 /\ K \in Nat /\ K >= 2
        /\ svLog \in Seq(Commands) /\ Len(svLog) \in Nat
        /\ Len(executed) \in Nat
    BY Types, Numbers DEF IInv
  <1>4. /\ Ring(m) \in [0 .. K - 1 -> Commands \cup {NoCommand}]
        /\ Recent(Ring(m), svLog, last)
    BY <1>2, RingFacts
  <1>5. seq <= last /\ last <= Len(svLog) /\ last <= svAck + K
    <2>1. /\ m.first \in Nat /\ Len(m.commands) \in Nat
          /\ last = m.first + Len(m.commands) - 1
      BY <1>2, MessageFacts
    <2>2. /\ m.first <= svAck + 1 /\ Len(m.commands) <= K
          /\ seq <= last /\ last <= Len(svLog)
      BY <1>2 DEF OfLog
    <2>. HIDE DEF last, m, seq
    <2>3. last <= svAck + K
      BY <1>3, <2>1, <2>2
    <2>. QED
      BY <2>2, <2>3
  <1>. HIDE DEF m, last
  <1>6. /\ next >= 1 => Start(last) = next
        /\ next = 0 => Start(last) \in {0, 1}
        /\ last < Start(last) + K /\ Start(last) <= last + 1
    <2>1. svAck = 0 \/ svAck < next
      BY <1>3 DEF WindowIsOpen
    <2>2. last - K + 1 <= next \/ (next = 0 /\ last - K + 1 <= 1)
      BY <1>2, <1>3, <1>5, <2>1
    <2>3. /\ Start(last) = IF next >= last - K + 1 THEN next ELSE last - K + 1
      BY DEF Start, Max2
    <2>. QED
      BY <1>2, <1>3, <1>5, <2>2, <2>3
  <1>7. WindowIsOpen'
    <2>1. svAck = 0 \/ svAck < next
      BY <1>3 DEF WindowIsOpen
    <2>2. Len(svLog) <= svAck + K
      BY <1>3 DEF WindowIsOpen
    <2>3. svAck = 0 \/ svAck < Start(last)
      BY <1>3, <1>6, <2>1
    <2>. QED
      BY <1>1, <1>5, <1>6, <2>2, <2>3 DEF WindowIsOpen
  <1>8. ExecutedIsPrefix'
    <2>1. Start(last) \in Nat
      BY <1>3, <1>6
    <2>2. Max2(0, Start(last) - 1) = Max2(0, next - 1)
      BY <1>3, <1>6, <2>1 DEF Max2
    <2>. QED
      BY <1>1, <1>3, <2>2 DEF ExecutedIsPrefix
  <1>9. MessagesAreOfLog'
    <2>1. ASSUME NEW i \in 1 .. Len(Tail(toClient))
          PROVE  OfLog(Tail(toClient)[i], svLog, svAck, last)
      <3>1. Len(svLog) <= Len(svLog) /\ svAck <= svAck
        BY <1>3
      <3>. QED
        BY <1>2, <1>3, <3>1, OfLogMore
    <2>. QED
      BY <1>1, <1>2, <2>1 DEF MessagesAreOfLog
  <1>10. ChannelSound'
    <2>1. /\ Start(last) \in 0 .. last + 1 /\ svAck \in 0 .. last
      BY <1>2, <1>3, <1>5, <1>6
    <2>2. executed \in Seq(Commands) /\ sv \in SvStates
      BY <1>3 DEF TypeOK
    <2>. QED
      BY <1>1, <1>2, <1>3, <1>4, <1>7, <1>8, <1>9, <2>1, <2>2 DEF ChannelSound
  <1>11. gamestateId # 0 => Len(executed) = seq
    <2>1. gamestateId # 0 => next > seq
      BY <1>1, <1>3 DEF WindowIsOpen
    <2>2. next > seq => Max2(0, next - 1) = seq
      BY <1>3 DEF Max2
    <2>. QED
      BY <1>3, <2>1, <2>2 DEF ExecutedIsPrefix
  <1>. QED
    BY <1>1, <1>2, <1>10, <1>11 DEF m, last

\* The svc_gamestate case.
LEMMA ReadGamestateStep ==
    ASSUME IInv, ReadGamestate
    PROVE  IInv'
  <1>. DEFINE m == Head(toClient)
              state == [intermission |-> m.intermission,
                        systemInfo |-> <<Other, m.id>>,
                        serverId |-> ServerIdOf(<<Other, m.id>>),
                        serverTime |-> 0, timeBelieved |-> FALSE]
  <1>1. /\ ReadMessage("gamestate", Last(m)) /\ cl' = state
        /\ intermissionTime' = IntermissionTime(m.intermission, 0)
        /\ demo' = m.id /\ gamestateId' = m.id /\ stale' = FALSE
    BY DEF ReadGamestate
  <1>2. /\ ChannelSound' /\ serverCommandSequence' = Last(m)
        /\ executed' = executed /\ donedl' = donedl /\ svLog' = svLog
        /\ m \in Messages /\ m.kind = "gamestate"
        /\ OfLog(m, svLog, svAck, serverCommandSequence)
    BY <1>1, ReadFacts
  <1>3. m.id \in Ids /\ m.intermission \in {0, 1}
    BY <1>2, MessageFacts
  <1>4. m.intermission = Value(svLog, m.id, Last(m))
    BY <1>2 DEF OfLog
  <1>. HIDE DEF m
  <1>5. state \in GameStates
    <2>1. <<Other, m.id>> \in Seq(Ids \cup {Other})
      BY <1>3
    <2>2. ServerIdOf(<<Other, m.id>>) \in {0} \cup Ids
      BY <2>1, ServerIdFacts
    <2>3. 0 \in Times
      BY Numbers DEF Times
    <2>. QED
      BY <1>3, <2>1, <2>2, <2>3 DEF GameStates
  <1>6. cl'.intermission = m.intermission /\ cl'.serverTime = 0
    BY <1>1
  <1>7. /\ intermissionTime' \in Nat \cup {-1}
        /\ IntermissionIsKnown' /\ TimeIsLate'
    <2>1. intermissionTime' = IF m.intermission = 0 THEN -1 ELSE 0 + Delay
      BY <1>1 DEF IntermissionTime
    <2>. QED
      BY <1>3, <1>6, <2>1, Numbers DEF IntermissionIsKnown, TimeIsLate
  <1>8. ConfigstringFollows'
    <2>1. cl'.intermission = Value(svLog', gamestateId', serverCommandSequence')
      BY <1>1, <1>2, <1>4, <1>6
    <2>. QED
      BY <1>6, <2>1 DEF ConfigstringFollows
  <1>9. donedl' \in Nat
    BY <1>2 DEF IInv, TypeOK
  <1>10. StateSound'
    BY <1>1, <1>3, <1>5, <1>7, <1>8, <1>9 DEF StateSound, DemoIsOfGamestate
  <1>. QED
    BY <1>2, <1>10, IInvNextParts

\* A change of the variables ChannelSound is not about.
LEMMA ChannelKept ==
    ASSUME IInv, UNCHANGED <<stored, lastExecutedServerCommand, executed, server>>,
           toClient' \in Seq(Messages),
           \A i \in 1 .. Len(toClient') :
               OfLog(toClient'[i], svLog, svAck, serverCommandSequence),
           InOrder(toClient'), phase' \in {"read", "execute"},
           phase' = "read" =>
               \/ phase = "read" /\ gamestateId' = gamestateId
               \/ lastExecutedServerCommand > serverCommandSequence
    PROVE  ChannelSound'
  <1>1. ChannelSound
    BY IInvParts
  <1>2. /\ serverCommandSequence' = serverCommandSequence
        /\ serverCommands' = serverCommands
        /\ lastExecutedServerCommand' = lastExecutedServerCommand
        /\ executed' = executed /\ svLog' = svLog /\ svAck' = svAck /\ sv' = sv
    BY DEF stored, server
  <1>3. WindowIsOpen'
    BY <1>1, <1>2 DEF ChannelSound, WindowIsOpen
  <1>4. ExecutedIsPrefix'
    BY <1>1, <1>2 DEF ChannelSound, ExecutedIsPrefix
  <1>5. MessagesAreOfLog'
    BY <1>2 DEF MessagesAreOfLog
  <1>. QED
    BY <1>1, <1>2, <1>3, <1>4, <1>5 DEF ChannelSound

LEMMA StateKept ==
    ASSUME IInv, UNCHANGED <<cl, intermissionTime, demo, donedl, gamestateId,
                             stale, executed, serverCommandSequence>>,
           \A i \in 1 .. Len(svLog) : svLog'[i] = svLog[i]
    PROVE  StateSound'
  <1>1. StateSound
    BY IInvParts
  <1>2. /\ Len(executed) \in Nat /\ Len(executed) <= Len(svLog)
        /\ serverCommandSequence \in Nat /\ serverCommandSequence <= Len(svLog)
        /\ Len(svLog) \in Nat
    BY Types DEF IInv, ExecutedIsPrefix, WindowIsOpen
  <1>3. ConfigstringFollows'
    <2>1. \A n \in Nat : n <= Len(svLog) =>
              Value(svLog', gamestateId, n) = Value(svLog, gamestateId, n)
      <3>. SUFFICES ASSUME NEW n \in Nat, n <= Len(svLog)
                    PROVE  Value(svLog', gamestateId, n) = Value(svLog, gamestateId, n)
        OBVIOUS
      <3>1. \A i \in 1 .. n : i \in 1 .. Len(svLog)
        BY <1>2
      <3>. QED
        BY <3>1, ValueSame
    <2>2. Len(executed) >= 1 => Len(executed) \in 1 .. Len(svLog)
      BY <1>2
    <2>. QED
      BY <1>1, <1>2, <2>1, <2>2 DEF StateSound, ConfigstringFollows
  <1>. QED
    BY <1>1, <1>3
    DEF StateSound, IntermissionIsKnown, TimeIsLate, DemoIsOfGamestate

LEMMA MessagesKept ==
    ASSUME IInv
    PROVE  /\ toClient \in Seq(Messages) /\ InOrder(toClient)
           /\ \A i \in 1 .. Len(toClient) :
                  OfLog(toClient[i], svLog, svAck, serverCommandSequence)
  BY DEF IInv, TypeOK, MessagesAreOfLog

\* The svc_snapshot case.
LEMMA ReadSnapshotStep ==
    ASSUME IInv, ReadSnapshot
    PROVE  IInv'
  <1>. DEFINE m == Head(toClient)
  <1>1. /\ ReadMessage("snapshot", Max2(serverCommandSequence, Last(m)))
        /\ \/ cl' = [cl EXCEPT !.timeBelieved = TRUE, !.serverTime = m.time]
           \/ ~cl.timeBelieved /\ UNCHANGED cl
        /\ UNCHANGED <<intermissionTime, demo, gamestateId, stale>>
    BY DEF ReadSnapshot
  <1>2. Max2(serverCommandSequence, Last(m)) = Last(m)
    <2>1. toClient # << >>
      BY <1>1 DEF ReadMessage
    <2>2. Last(m) \in Nat /\ serverCommandSequence <= Last(m)
      BY <2>1, HeadFacts DEF OfLog
    <2>3. serverCommandSequence \in Nat
      BY Types DEF IInv
    <2>. QED
      BY <2>2, <2>3 DEF Max2
  <1>3. /\ ChannelSound' /\ serverCommandSequence' = Last(m)
        /\ executed' = executed /\ donedl' = donedl /\ svLog' = svLog
        /\ m \in Messages
        /\ gamestateId # 0 => Len(executed) = serverCommandSequence
    BY <1>1, <1>2, ReadFacts
  <1>4. cl \in GameStates /\ m.time \in Times
    BY <1>3, MessageFacts DEF IInv, TypeOK
  <1>5. cl' \in GameStates /\ cl'.intermission = cl.intermission
    <2>1. CASE cl' = [cl EXCEPT !.timeBelieved = TRUE, !.serverTime = m.time]
      BY <1>4, <2>1 DEF GameStates
    <2>2. CASE UNCHANGED cl
      BY <1>4, <2>2
    <2>. QED
      BY <1>1, <2>1, <2>2
  <1>6. StateSound
    BY IInvParts
  <1>7. ConfigstringFollows'
    BY <1>1, <1>3, <1>5, <1>6 DEF StateSound, ConfigstringFollows
  <1>8. StateSound'
    BY <1>1, <1>3, <1>5, <1>6, <1>7
    DEF StateSound, IntermissionIsKnown, TimeIsLate, DemoIsOfGamestate
  <1>. QED
    BY <1>3, <1>8, IInvNextParts

LEMMA ReadNothingStep ==
    ASSUME IInv, ReadNothing
    PROVE  IInv'
  <1>1. ChannelSound'
    BY ChannelKept, MessagesKept DEF ReadNothing, history
  <1>2. StateSound'
    BY StateKept DEF ReadNothing, history, stored, server
  <1>. QED
    BY <1>1, <1>2, IInvNextParts

(***************************************************************************)
(* Executing a command.                                                    *)
(***************************************************************************)

\* Cmd_ExecuteString: the next command is the next one of the log.
LEMMA ExecuteFacts ==
    ASSUME IInv, NEW kinds, Execute(kinds)
    PROVE  LET next == lastExecutedServerCommand
           IN  /\ ChannelSound' /\ Command.kind \in kinds
               /\ serverCommandSequence' = serverCommandSequence
               /\ gamestateId' = gamestateId /\ svLog' = svLog
               /\ stale' \in BOOLEAN
               /\ \/ /\ Command = NoCommand
                     /\ executed' = executed /\ stale' = stale
                  \/ /\ next >= 1 /\ next \in 1 .. Len(svLog)
                     /\ Command \in Commands /\ Command = svLog[next]
                     /\ Len(executed) = next - 1
                     /\ executed' = Append(executed, Command)
                     /\ Len(executed') = next
                     /\ stale' = (stale \/ Command.id < gamestateId)
  <1>. DEFINE next == lastExecutedServerCommand  seq == serverCommandSequence
  <1>1. /\ phase = "execute" /\ next <= seq /\ Command.kind \in kinds
        /\ next' = next + 1
        /\ executed' = IF Command = NoCommand THEN executed
                       ELSE Append(executed, Command)
        /\ stale' = (stale \/ (Command # NoCommand /\ Command.id < gamestateId))
        /\ phase' = phase /\ seq' = seq /\ serverCommands' = serverCommands
        /\ gamestateId' = gamestateId /\ svLog' = svLog /\ svAck' = svAck
        /\ sv' = sv /\ toClient' = toClient
    BY DEF Execute, stored, server
  <1>2. /\ ChannelSound /\ seq \in Nat /\ next \in Nat /\ svAck \in Nat
        /\ svLog \in Seq(Commands) /\ Len(svLog) \in Nat
        /\ executed \in Seq(Commands) /\ Len(executed) \in Nat
        /\ \A i \in 1 .. Len(svLog) : svLog[i] \in Commands
        /\ K \in Nat /\ K >= 2 /\ stale \in BOOLEAN
    BY IInvParts, Types, Numbers DEF IInv, TypeOK
  <1>3. seq < next + K /\ seq <= Len(svLog)
    BY <1>2 DEF ChannelSound, WindowIsOpen
  <1>4. Command = IF next = 0 THEN NoCommand ELSE svLog[next]
    <2>1. next \in 0 .. seq
      BY <1>1, <1>2
    <2>. QED
      BY <1>2, <1>3, <2>1 DEF ChannelSound, Recent, Command
  <1>5. /\ Len(executed) = Max2(0, next - 1)
        /\ \A i \in 1 .. Len(executed) : executed[i] = svLog[i]
        /\ Len(executed) <= Len(svLog)
    BY <1>2 DEF ChannelSound, ExecutedIsPrefix
  <1>6. WindowIsOpen'
    <2>1. /\ seq <= Len(svLog) /\ Len(svLog) <= svAck + K
          /\ svAck = 0 \/ svAck < next
      BY <1>2 DEF ChannelSound, WindowIsOpen
    <2>2. svAck = 0 \/ svAck < next + 1
      BY <1>2, <2>1
    <2>3. seq < next + 1 + K
      BY <1>2, <1>3
    <2>. QED
      BY <1>1, <2>1, <2>2, <2>3 DEF WindowIsOpen
  <1>7. MessagesAreOfLog'
    BY <1>1, <1>2 DEF ChannelSound, MessagesAreOfLog
  <1>8. CASE next = 0
    <2>1. Command = NoCommand /\ executed' = executed
      BY <1>1, <1>4, <1>8
    <2>2. stale' = stale
      BY <1>1, <1>2, <2>1
    <2>3. Max2(0, next - 1) = 0 /\ Max2(0, next' - 1) = 0
      BY <1>1, <1>8 DEF Max2
    <2>4. ExecutedIsPrefix'
      BY <1>1, <1>5, <2>1, <2>3 DEF ExecutedIsPrefix
    <2>5. next + 1 \in 0 .. seq + 1
      BY <1>1, <1>2
    <2>6. ChannelSound'
      BY <1>1, <1>2, <1>6, <1>7, <2>1, <2>4, <2>5 DEF ChannelSound
    <2>. QED
      BY <1>1, <1>2, <2>1, <2>2, <2>6
  <1>9. CASE next >= 1
    <2>1. next \in 1 .. Len(svLog) /\ next # 0
      BY <1>1, <1>2, <1>3, <1>9
    <2>2. Command = svLog[next] /\ Command \in Commands /\ Command # NoCommand
      BY <1>2, <1>4, <2>1, NoCommandFacts
    <2>3. Len(executed) = next - 1
      BY <1>2, <1>5, <1>9 DEF Max2
    <2>4. executed' = Append(executed, Command)
      BY <1>1, <2>2
    <2>5. /\ executed' \in Seq(Commands) /\ Len(executed') = next
          /\ \A i \in 1 .. next : executed'[i] = svLog[i]
      <3>1. /\ executed' \in Seq(Commands) /\ Len(executed') = Len(executed) + 1
            /\ \A i \in 1 .. Len(executed) : executed'[i] = executed[i]
            /\ executed'[Len(executed) + 1] = Command
        BY <1>2, <2>2, <2>4, AppendFacts
      <3>2. Len(executed') = next /\ executed'[next] = svLog[next]
        BY <1>2, <2>2, <2>3, <3>1
      <3>3. \A i \in 1 .. next : i = next \/ i \in 1 .. Len(executed)
        BY <1>2, <2>3
      <3>. QED
        BY <1>5, <3>1, <3>2, <3>3
    <2>6. Max2(0, next + 1 - 1) = next /\ next <= Len(svLog)
      BY <1>2, <1>9, <2>1 DEF Max2
    <2>7. ExecutedIsPrefix'
      BY <1>1, <2>5, <2>6 DEF ExecutedIsPrefix
    <2>8. next + 1 \in 0 .. seq + 1
      BY <1>1, <1>2
    <2>9. ChannelSound'
      BY <1>1, <1>2, <1>6, <1>7, <2>5, <2>7, <2>8 DEF ChannelSound
    <2>10. stale' = (stale \/ Command.id < gamestateId)
      BY <1>1, <2>2
    <2>11. stale' \in BOOLEAN
      BY <1>1, Zenon
    <2>. QED
      BY <1>1, <2>1, <2>2, <2>3, <2>4, <2>5, <2>9, <2>10, <2>11
  <1>. QED
    BY <1>2, <1>8, <1>9

\* The configstring still follows when a command is executed.
LEMMA ConfigstringStep ==
    ASSUME IInv, NEW kinds, Execute(kinds),
           cl'.serverTime = cl.serverTime,
           cl'.intermission = IF Command.kind = "cs" THEN Command.intermission
                              ELSE cl.intermission
    PROVE  ConfigstringFollows'
  <1>. DEFINE next == lastExecutedServerCommand  n == Len(executed)
              g == gamestateId
  <1>1. /\ serverCommandSequence' = serverCommandSequence
        /\ g' = g /\ svLog' = svLog
    BY ExecuteFacts
  <1>2. /\ ConfigstringFollows /\ Ordered(svLog, sv)
        /\ svLog \in Seq(Commands) /\ Len(svLog) \in Nat /\ next \in Nat
        /\ \A i \in 1 .. Len(svLog) : svLog[i] \in Commands
        /\ g \in {0} \cup Ids /\ Ids \subseteq Nat \ {0}
    BY Types, Numbers DEF IInv
  <1>3. CASE Command = NoCommand /\ executed' = executed /\ stale' = stale
    <2>1. cl'.intermission = cl.intermission
      BY <1>3, NoCommandFacts
    <2>. QED
      BY <1>1, <1>2, <1>3, <2>1 DEF ConfigstringFollows
  <1>4. CASE /\ next >= 1 /\ next \in 1 .. Len(svLog)
             /\ Command \in Commands /\ Command = svLog[next]
             /\ n = next - 1 /\ Len(executed') = next
             /\ stale' = (stale \/ Command.id < g)
    <2>. SUFFICES ASSUME g # 0, ~stale', svLog[next].id <= g
                  PROVE  \/ cl'.intermission = Value(svLog, g, next)
                         \/ /\ cl'.intermission =
                                   Value(svLog, g, serverCommandSequence)
                            /\ cl'.serverTime = 0
      BY <1>1, <1>4 DEF ConfigstringFollows
    <2>1. ~stale /\ Command.id = g
      <3>1. Command.id \in Nat /\ g \in Nat
        BY <1>2, <1>4, NoCommandFacts
      <3>2. ~stale /\ ~(Command.id < g)
        BY <1>4, Zenon
      <3>3. Command.id <= g
        BY <1>4
      <3>. QED
        BY <3>1, <3>2, <3>3
    <2>2. Value(svLog, g, next) = Command.intermission
      BY <1>4, <2>1 DEF Value
    <2>3. CASE Command.kind = "cs"
      BY <2>2, <2>3
    <2>4. CASE Command.kind # "cs"
      <3>1. Command.intermission = Value(svLog, g, n)
        BY <1>2, <1>4, <2>1, <2>4 DEF Ordered
      <3>2. n >= 1 => svLog[n].id <= g
        <4>1. n >= 1 => n \in 1 .. Len(svLog) /\ n <= next
          BY <1>2, <1>4
        <4>. QED
          BY <1>2, <1>4, <2>1, <4>1 DEF Ordered
      <3>3. \/ cl.intermission = Value(svLog, g, n)
            \/ /\ cl.intermission = Value(svLog, g, serverCommandSequence)
               /\ cl.serverTime = 0
        BY <1>2, <2>1, <3>2 DEF ConfigstringFollows
      <3>. QED
        BY <2>2, <2>4, <3>1, <3>3
    <2>. QED
      BY <2>3, <2>4
  <1>. QED
    BY <1>3, <1>4, ExecuteFacts

\* The rest of the game state, handler by handler.
LEMMA ExecuteStep ==
    ASSUME IInv,
           \/ ExecuteEmpty \/ ExecuteConfigstring \/ ExecuteSystemInfo
           \/ ExecuteScores \/ ExecuteMapRestart
    PROVE  IInv'
  <1>1. /\ cl \in GameStates /\ intermissionTime \in Nat \cup {-1}
        /\ demo \in Ids \cup {NoDemo} /\ donedl \in Nat
        /\ gamestateId \in {0} \cup Ids /\ stale \in BOOLEAN
        /\ IntermissionIsKnown /\ TimeIsLate /\ DemoIsOfGamestate
        /\ cl.intermission \in {0, 1} /\ cl.serverTime \in Nat
        /\ cl.systemInfo \in Seq(Ids \cup {Other})
        /\ Delay \in Nat /\ Delay >= 1
    BY Types, Numbers DEF IInv, TypeOK
  <1>2. ASSUME NEW ks, Execute(ks), cl' \in GameStates,
               cl'.serverTime = cl.serverTime,
               cl'.intermission = IF Command.kind = "cs" THEN Command.intermission
                                  ELSE cl.intermission,
               intermissionTime' \in Nat \cup {-1}, IntermissionIsKnown',
               TimeIsLate', demo' = demo \/ demo' = NoDemo, donedl' \in Nat
        PROVE  IInv'
    <2>1. ChannelSound' /\ gamestateId' = gamestateId /\ stale' \in BOOLEAN
      BY <1>2, ExecuteFacts
    <2>2. ConfigstringFollows'
      BY <1>2, ConfigstringStep
    <2>3. demo' \in Ids \cup {NoDemo} /\ DemoIsOfGamestate'
      BY <1>1, <1>2, <2>1 DEF DemoIsOfGamestate
    <2>4. StateSound'
      BY <1>1, <1>2, <2>1, <2>2, <2>3 DEF StateSound
    <2>. QED
      BY <2>1, <2>4, IInvNextParts
  <1>3. CASE ExecuteEmpty
    <2>1. /\ Execute({"empty"}) /\ cl' = cl /\ demo' = demo
          /\ intermissionTime' = intermissionTime /\ donedl' = donedl
      BY <1>3 DEF ExecuteEmpty
    <2>2. Command.kind # "cs"
      BY <2>1 DEF Execute
    <2>3. IntermissionIsKnown' /\ TimeIsLate'
      BY <1>1, <2>1 DEF IntermissionIsKnown, TimeIsLate
    <2>. QED
      BY <1>1, <1>2, <2>1, <2>2, <2>3
  <1>4. CASE ExecuteConfigstring
    <2>. DEFINE cs == Command.intermission
    <2>1. /\ Execute({"cs"}) /\ cl' = [cl EXCEPT !.intermission = cs]
          /\ intermissionTime' = IF cs = cl.intermission THEN intermissionTime
                                 ELSE IntermissionTime(cs, cl.serverTime)
          /\ demo' = demo /\ donedl' = donedl
      BY <1>4 DEF ExecuteConfigstring
    <2>2. Command.kind = "cs"
      BY <2>1 DEF Execute
    <2>3. cs \in {0, 1}
      BY <2>1, <2>2, ExecuteFacts, NoCommandFacts
    <2>. HIDE DEF cs
    <2>4. /\ cl' \in GameStates /\ cl'.intermission = cs
          /\ cl'.serverTime = cl.serverTime
      BY <1>1, <2>1, <2>3 DEF GameStates
    <2>5. intermissionTime' =
              IF cs = cl.intermission THEN intermissionTime
              ELSE IF cs = 0 THEN -1 ELSE cl.serverTime + Delay
      BY <2>1 DEF IntermissionTime
    <2>6. /\ intermissionTime' \in Nat \cup {-1}
          /\ IntermissionIsKnown' /\ TimeIsLate'
      BY <1>1, <2>3, <2>4, <2>5 DEF IntermissionIsKnown, TimeIsLate
    <2>. QED
      BY <1>1, <1>2, <2>1, <2>2, <2>4, <2>6 DEF cs
  <1>5. CASE ExecuteSystemInfo
    <2>. DEFINE info == IF Command.kind = "serverid" THEN <<Other, Command.id>>
                        ELSE PatchAppended(<<Other>>)
    <2>1. /\ Execute({"patch", "serverid"})
          /\ cl' = [cl EXCEPT !.systemInfo = info, !.serverId = ServerIdOf(info)]
          /\ demo' = demo /\ intermissionTime' = intermissionTime
          /\ donedl' = donedl
      BY <1>5 DEF ExecuteSystemInfo
    <2>2. Command.kind \in {"patch", "serverid"}
      BY <2>1 DEF Execute
    <2>3. Command.id \in Ids
      BY <2>1, <2>2, ExecuteFacts, NoCommandFacts
    <2>4. <<Other, Command.id>> \in Seq(Ids \cup {Other})
      BY <2>3
    <2>5. PatchAppended(<<Other>>) \in Seq(Ids \cup {Other})
      <3>. DEFINE all == cl.systemInfo \o <<Other>>
                  len == Min2(Len(all), InfoRoom)
      <3>1. <<Other>> \in Seq(Ids \cup {Other})
        OBVIOUS
      <3>2. all \in Seq(Ids \cup {Other})
        BY <1>1, <3>1, ConcatProperties
      <3>3. Len(all) \in Nat /\ \A i \in 1 .. Len(all) : all[i] \in Ids \cup {Other}
        BY <3>2, LenProperties, ElementOfSeq
      <3>. HIDE DEF all
      <3>4. len \in Int /\ len <= Len(all)
        BY <3>3, InfoRoomAssumption DEF Min2
      <3>. HIDE DEF len
      <3>5. \A i \in 1 .. len : all[i] \in Ids \cup {Other}
        BY <3>3, <3>4
      <3>6. SubSeq(all, 1, len) \in Seq(Ids \cup {Other})
        BY <3>4, <3>5, SubSeqProperties
      <3>. QED
        BY <3>6 DEF PatchAppended, all, len
    <2>6. info \in Seq(Ids \cup {Other})
      BY <2>4, <2>5
    <2>7. ServerIdOf(info) \in {0} \cup Ids
      BY <2>6, ServerIdFacts
    <2>. HIDE DEF info
    <2>8. /\ cl' \in GameStates /\ cl'.intermission = cl.intermission
          /\ cl'.serverTime = cl.serverTime
      BY <1>1, <2>1, <2>6, <2>7 DEF GameStates
    <2>9. IntermissionIsKnown' /\ TimeIsLate'
      BY <1>1, <2>1, <2>8 DEF IntermissionIsKnown, TimeIsLate
    <2>10. Command.kind # "cs"
      BY <2>2
    <2>. QED
      BY <1>1, <1>2, <2>1, <2>8, <2>9, <2>10
  <1>6. CASE ExecuteScores
    <2>1. /\ Execute({"scores"}) /\ cl' = cl /\ donedl' = donedl
          /\ demo' = demo \/ demo' = NoDemo
          /\ intermissionTime' =
                 IF InIntermission /\ cl.intermission = 0 THEN -1
                 ELSE intermissionTime
      BY <1>6 DEF ExecuteScores
    <2>2. Command.kind # "cs"
      BY <2>1 DEF Execute
    <2>3. intermissionTime' = intermissionTime
      BY <1>1, <2>1 DEF InIntermission, IntermissionIsKnown
    <2>4. IntermissionIsKnown' /\ TimeIsLate'
      BY <1>1, <2>1, <2>3 DEF IntermissionIsKnown, TimeIsLate
    <2>. QED
      BY <1>1, <1>2, <2>1, <2>2, <2>3, <2>4
  <1>7. CASE ExecuteMapRestart
    <2>1. /\ Execute({"map_restart"}) /\ cl' = cl /\ demo' = demo
          /\ intermissionTime' = intermissionTime /\ donedl' = donedl + 1
      BY <1>7 DEF ExecuteMapRestart, DonedlQueued
    <2>2. Command.kind # "cs"
      BY <2>1 DEF Execute
    <2>3. IntermissionIsKnown' /\ TimeIsLate'
      BY <1>1, <2>1 DEF IntermissionIsKnown, TimeIsLate
    <2>4. donedl' \in Nat
      BY <1>1, <2>1
    <2>. QED
      BY <1>1, <1>2, <2>1, <2>2, <2>3, <2>4
  <1>. QED
    BY <1>3, <1>4, <1>5, <1>6, <1>7

(***************************************************************************)
(* The packets and the server.                                             *)
(***************************************************************************)

\* The server sends what is not acknowledged.
LEMMA SentFacts ==
    ASSUME IInv, NEW kind \in {"gamestate", "snapshot"},
           NEW ack \in svAck .. serverCommandSequence
    PROVE  /\ Append(toClient, SvMessage(kind, ack)) \in Seq(Messages)
           /\ InOrder(Append(toClient, SvMessage(kind, ack)))
           /\ \A i \in 1 .. Len(Append(toClient, SvMessage(kind, ack))) :
                  OfLog(Append(toClient, SvMessage(kind, ack))[i], svLog, ack,
                        serverCommandSequence)
  <1>. DEFINE m == SvMessage(kind, ack)  t == Append(toClient, m)
              c == SubSeq(svLog, ack + 1, Len(svLog))
  <1>1. /\ svLog \in Seq(Commands) /\ Len(svLog) \in Nat /\ svAck \in Nat
        /\ serverCommandSequence \in Nat /\ serverCommandSequence <= Len(svLog)
        /\ Len(svLog) <= svAck + K /\ K \in Nat
        /\ toClient \in Seq(Messages) /\ Len(toClient) \in Nat
        /\ \A i \in 1 .. Len(svLog) : svLog[i] \in Commands
        /\ \A i \in 1 .. Len(toClient) : toClient[i] \in Messages
        /\ sv.id \in Ids /\ sv.intermission \in {0, 1} /\ sv.time \in Times
        /\ Ordered(svLog, sv)
    BY Types, Numbers DEF IInv, WindowIsOpen
  <1>2. /\ ack \in Nat /\ ack <= Len(svLog) /\ svAck <= ack
        /\ ack <= serverCommandSequence
    BY <1>1
  <1>3. /\ c \in Seq(Commands) /\ Len(c) = Len(svLog) - ack
        /\ \A i \in 1 .. Len(svLog) - ack : c[i] = svLog[ack + i]
    <2>1. \A i \in ack + 1 .. Len(svLog) : svLog[i] \in Commands
      BY <1>1, <1>2
    <2>2. /\ c \in Seq(Commands)
          /\ Len(c) = IF ack + 1 <= Len(svLog) THEN Len(svLog) - (ack + 1) + 1 ELSE 0
          /\ \A i \in 1 .. Len(svLog) - (ack + 1) + 1 : c[i] = svLog[ack + 1 + i - 1]
      BY <1>1, <1>2, <2>1, SubSeqProperties
    <2>. HIDE DEF c
    <2>3. Len(c) = Len(svLog) - ack
      BY <1>1, <1>2, <2>2
    <2>4. \A i \in 1 .. Len(svLog) - ack :
              i \in 1 .. Len(svLog) - (ack + 1) + 1 /\ ack + 1 + i - 1 = ack + i
      BY <1>1, <1>2
    <2>. QED
      BY <2>2, <2>3, <2>4
  <1>. HIDE DEF c
  <1>4. m = [kind |-> kind, first |-> ack + 1, commands |-> c,
             id |-> sv.id, intermission |-> sv.intermission, time |-> sv.time]
    BY DEF SvMessage, c
  <1>5. m \in Messages
    <2>1. ack + 1 \in Nat
      BY <1>2
    <2>. QED
      BY <1>1, <1>3, <1>4, <2>1 DEF Messages
  <1>6. /\ m.first = ack + 1 /\ m.commands = c /\ m.id = sv.id
        /\ m.intermission = sv.intermission
    BY <1>4
  <1>. HIDE DEF m
  <1>7. Last(m) = Len(svLog)
    <2>1. Last(m) = (ack + 1) + Len(c) - 1
      BY <1>6 DEF Last
    <2>. QED
      BY <1>1, <1>2, <1>3, <2>1
  <1>8. OfLog(m, svLog, ack, serverCommandSequence)
    <2>1. /\ 1 <= m.first /\ m.first <= ack + 1 /\ Len(m.commands) <= K
      BY <1>1, <1>2, <1>3, <1>6
    <2>2. \A i \in 1 .. Len(m.commands) : m.commands[i] = svLog[m.first + i - 1]
      <3>1. \A i \in 1 .. Len(c) : m.first + i - 1 = ack + i
        BY <1>1, <1>2, <1>3, <1>6
      <3>. QED
        BY <1>3, <1>6, <3>1
    <2>3. m.intermission = Value(svLog, m.id, Last(m))
      BY <1>1, <1>6, <1>7 DEF Ordered
    <2>4. serverCommandSequence <= Last(m) /\ Last(m) <= Len(svLog)
      BY <1>1, <1>7
    <2>. QED
      BY <2>1, <2>2, <2>3, <2>4 DEF OfLog
  <1>9. /\ t \in Seq(Messages) /\ Len(t) = Len(toClient) + 1
        /\ \A i \in 1 .. Len(toClient) : t[i] = toClient[i]
        /\ t[Len(toClient) + 1] = m
    BY <1>1, <1>5, AppendFacts
  <1>10. /\ InOrder(toClient)
         /\ \A i \in 1 .. Len(toClient) :
                OfLog(toClient[i], svLog, ack, serverCommandSequence)
    <2>1. ASSUME NEW i \in 1 .. Len(toClient)
          PROVE  OfLog(toClient[i], svLog, ack, serverCommandSequence)
      <3>1. OfLog(toClient[i], svLog, svAck, serverCommandSequence)
        BY DEF IInv, MessagesAreOfLog
      <3>2. Len(svLog) <= Len(svLog) /\ serverCommandSequence <= Last(toClient[i])
        BY <1>1, <3>1 DEF OfLog
      <3>. QED
        BY <1>1, <1>2, <3>1, <3>2, OfLogMore
    <2>. QED
      BY <2>1 DEF IInv, MessagesAreOfLog
  <1>. HIDE DEF t
  <1>11. \A i \in 1 .. Len(t) : i = Len(toClient) + 1 \/ i \in 1 .. Len(toClient)
    BY <1>1, <1>9
  <1>12. InOrder(t)
    <2>. SUFFICES ASSUME NEW i \in 1 .. Len(t), NEW j \in 1 .. Len(t), i <= j
                  PROVE  Last(t[i]) <= Last(t[j])
      BY DEF InOrder
    <2>1. CASE j \in 1 .. Len(toClient)
      <3>1. i \in 1 .. Len(toClient)
        BY <1>1, <2>1
      <3>. QED
        BY <1>9, <1>10, <2>1, <3>1 DEF InOrder
    <2>2. CASE i \in 1 .. Len(toClient) /\ j = Len(toClient) + 1
      BY <1>7, <1>9, <1>10, <2>2 DEF OfLog
    <2>3. CASE i = Len(toClient) + 1 /\ j = Len(toClient) + 1
      BY <1>1, <1>7, <1>9, <2>3
    <2>4. ~(i = Len(toClient) + 1 /\ j \in 1 .. Len(toClient))
      BY <1>1
    <2>. QED
      BY <1>11, <2>1, <2>2, <2>3, <2>4
  <1>13. \A i \in 1 .. Len(t) : OfLog(t[i], svLog, ack, serverCommandSequence)
    BY <1>8, <1>9, <1>10, <1>11
  <1>. QED
    BY <1>9, <1>12, <1>13 DEF m, t

\* CL_WritePacket, with an acknowledge that arrives or does not.
LEMMA WriteFacts ==
    ASSUME IInv, CL_WritePacket, UNCHANGED svLog, sv' \in SvStates,
           sv'.id = sv.id, sv'.intermission = sv.intermission,
           svAck' \in {svAck, serverCommandSequence},
           toClient' \in Seq(Messages), InOrder(toClient'),
           \A i \in 1 .. Len(toClient') :
               OfLog(toClient'[i], svLog, svAck', serverCommandSequence)
    PROVE  IInv'
  <1>. DEFINE seq == serverCommandSequence  next == lastExecutedServerCommand
  <1>1. /\ next > seq /\ phase' = "read" /\ seq' = seq /\ next' = next
        /\ serverCommands' = serverCommands /\ executed' = executed
        /\ svLog' = svLog
        /\ UNCHANGED <<cl, intermissionTime, demo, donedl, gamestateId, stale>>
    BY DEF CL_WritePacket, stored, history
  <1>2. /\ ChannelSound /\ seq \in Nat /\ next \in Nat /\ svAck \in Nat
        /\ svAck <= seq /\ seq <= Len(svLog) /\ Len(svLog) \in Nat
        /\ Len(svLog) <= svAck + K /\ K \in Nat
    BY IInvParts, Types, Numbers DEF IInv, WindowIsOpen
  <1>3. WindowIsOpen'
    <2>1. /\ svAck' \in Nat /\ svAck <= svAck' /\ svAck' <= seq
          /\ Len(svLog) <= svAck' + K
      BY <1>2
    <2>2. svAck' = 0 \/ svAck' < next
      BY <1>1, <1>2, <2>1
    <2>3. seq < next + K
      BY <1>2 DEF ChannelSound, WindowIsOpen
    <2>. QED
      BY <1>1, <1>2, <2>1, <2>2, <2>3 DEF WindowIsOpen
  <1>4. ExecutedIsPrefix'
    BY <1>1, <1>2 DEF ChannelSound, ExecutedIsPrefix
  <1>5. MessagesAreOfLog'
    BY <1>1 DEF MessagesAreOfLog
  <1>6. Ordered(svLog, sv')
    BY <1>2 DEF ChannelSound, Ordered
  <1>7. svAck' \in 0 .. seq
    BY <1>2
  <1>8. ChannelSound'
    BY <1>1, <1>2, <1>3, <1>4, <1>5, <1>6, <1>7 DEF ChannelSound
  <1>9. StateSound'
    BY <1>1, StateKept
  <1>. QED
    BY <1>8, <1>9, IInvNextParts

LEMMA WriteStep ==
    ASSUME IInv, LosePacket \/ SvReceivePacket \/ SvSendGamestate
    PROVE  IInv'
  <1>1. /\ svAck \in Nat /\ svAck <= serverCommandSequence /\ sv \in SvStates
        /\ serverCommandSequence \in Nat /\ toClient \in Seq(Messages)
        /\ svLog \in Seq(Commands) /\ Len(svLog) \in Nat
        /\ \A i \in 1 .. Len(toClient) : toClient[i] \in Messages
        /\ donedl \in Nat
    BY Types DEF IInv, TypeOK
  <1>2. /\ InOrder(toClient)
        /\ \A i \in 1 .. Len(toClient) :
               OfLog(toClient[i], svLog, svAck, serverCommandSequence)
    BY MessagesKept
  <1>3. CASE LosePacket
    BY <1>1, <1>2, <1>3, WriteFacts DEF LosePacket, server
  <1>4. CASE SvReceivePacket
    <2>1. /\ CL_WritePacket /\ svAck' = serverCommandSequence /\ UNCHANGED svLog
          /\ sv' = sv /\ toClient' = toClient
      BY <1>4 DEF SvReceivePacket, SvReceive
    <2>2. ASSUME NEW i \in 1 .. Len(toClient)
          PROVE  OfLog(toClient[i], svLog, serverCommandSequence,
                       serverCommandSequence)
      <3>1. Len(svLog) <= Len(svLog) /\ serverCommandSequence <= Last(toClient[i])
        BY <1>1, <1>2 DEF OfLog
      <3>. QED
        BY <1>1, <1>2, <3>1, OfLogMore
    <2>. QED
      BY <1>1, <1>2, <2>1, <2>2, WriteFacts
  <1>5. CASE SvSendGamestate
    <2>1. /\ CL_WritePacket /\ svAck' = serverCommandSequence /\ UNCHANGED svLog
          /\ sv' = [sv EXCEPT !.primed = TRUE,
                              !.donedl = IF cl.serverId = sv.id THEN donedl
                                         ELSE sv.donedl]
          /\ toClient' = Append(toClient,
                                SvMessage("gamestate", serverCommandSequence))
      BY <1>5 DEF SvSendGamestate, SvReceive
    <2>2. /\ sv' \in SvStates /\ sv'.id = sv.id
          /\ sv'.intermission = sv.intermission
      BY <1>1, <2>1 DEF SvStates
    <2>3. serverCommandSequence \in svAck .. serverCommandSequence
      BY <1>1
    <2>4. /\ toClient' \in Seq(Messages) /\ InOrder(toClient')
          /\ \A i \in 1 .. Len(toClient') :
                 OfLog(toClient'[i], svLog, serverCommandSequence,
                       serverCommandSequence)
      BY <2>1, <2>3, SentFacts
    <2>. QED
      BY <2>1, <2>2, <2>4, WriteFacts
  <1>. QED
    BY <1>3, <1>4, <1>5

\* The server queues a command, of the map it runs or the restart it begins.
LEMMA QueueFacts ==
    ASSUME IInv, NEW s \in SvStates, sv.id <= s.id,
           NEW kind \in {"cs", "patch", "serverid", "scores", "map_restart"},
           kind = "cs" \/ s.intermission = Value(svLog, s.id, Len(svLog)),
           SvQueue(kind, s)
    PROVE  /\ IInv'
           /\ \E c \in Commands : svLog' = Append(svLog, c)
           /\ executed' = executed
  <1>. DEFINE c == [kind |-> kind, id |-> s.id, intermission |-> s.intermission,
                    final |-> SvInIntermission]
              log == Append(svLog, c)
  <1>1. /\ Len(svLog) - svAck < K /\ svLog' = log /\ sv' = s
        /\ UNCHANGED <<client, svAck, toClient>>
    BY DEF SvQueue
  <1>2. /\ ChannelSound /\ svLog \in Seq(Commands) /\ Len(svLog) \in Nat
        /\ svAck \in Nat /\ K \in Nat /\ Ids \subseteq Nat \ {0}
        /\ serverCommandSequence \in Nat /\ Len(executed) \in Nat
        /\ \A i \in 1 .. Len(svLog) : svLog[i] \in Commands
        /\ sv.id \in Ids /\ s.id \in Ids /\ s.intermission \in {0, 1}
        /\ toClient \in Seq(Messages) /\ Len(toClient) \in Nat
        /\ \A i \in 1 .. Len(toClient) : toClient[i] \in Messages
    BY IInvParts, Types, Numbers DEF IInv, SvStates
  <1>0. sv.id \in Nat /\ s.id \in Nat /\ s.id <= s.id
    BY <1>2, IdsAreNumbers
  <1>3. c \in Commands
    BY <1>2 DEF Commands, SvInIntermission
  <1>4. c.kind = kind /\ c.id = s.id /\ c.intermission = s.intermission
    OBVIOUS
  <1>. HIDE DEF c
  <1>5. /\ log \in Seq(Commands) /\ Len(log) = Len(svLog) + 1
        /\ \A i \in 1 .. Len(svLog) : log[i] = svLog[i]
        /\ log[Len(svLog) + 1] = c
    BY <1>2, <1>3, AppendFacts
  <1>. HIDE DEF log
  <1>6. \A id, n : n \in Nat /\ n <= Len(svLog) =>
            Value(log, id, n) = Value(svLog, id, n)
    <2>. SUFFICES ASSUME NEW id, NEW n \in Nat, n <= Len(svLog)
                  PROVE  Value(log, id, n) = Value(svLog, id, n)
      OBVIOUS
    <2>1. \A i \in 1 .. n : i \in 1 .. Len(svLog)
      BY <1>2
    <2>. QED
      BY <1>5, <2>1, ValueSame
  <1>7. \A i \in 1 .. Len(log) : i = Len(svLog) + 1 \/ i \in 1 .. Len(svLog)
    BY <1>2, <1>5
  <1>8. \A i \in 1 .. Len(svLog) : svLog[i].id \in Nat /\ svLog[i].id <= s.id
    <2>1. \A i \in 1 .. Len(svLog) : svLog[i].id \in Nat /\ svLog[i].id <= sv.id
      BY <1>2, NoCommandFacts DEF ChannelSound, Ordered
    <2>2. \A k \in Nat : k <= sv.id => k <= s.id
      BY <1>0
    <2>. QED
      BY <2>1, <2>2
  <1>9. Ordered(log, s)
    <2>1. ASSUME NEW i \in 1 .. Len(log), NEW j \in 1 .. Len(log), i <= j
          PROVE  log[i].id <= log[j].id
      <3>1. CASE j \in 1 .. Len(svLog)
        <4>1. i \in 1 .. Len(svLog)
          BY <1>2, <2>1, <3>1
        <4>. QED
          BY <1>2, <1>5, <2>1, <3>1, <4>1 DEF ChannelSound, Ordered
      <3>2. CASE i \in 1 .. Len(svLog) /\ j = Len(svLog) + 1
        BY <1>4, <1>5, <1>8, <3>2
      <3>3. CASE i = Len(svLog) + 1 /\ j = Len(svLog) + 1
        BY <1>0, <1>4, <1>5, <3>3
      <3>4. ~(i = Len(svLog) + 1 /\ j \in 1 .. Len(svLog))
        BY <1>2, <2>1
      <3>. QED
        BY <1>7, <3>1, <3>2, <3>3, <3>4
    <2>2. ASSUME NEW n \in 1 .. Len(log)
          PROVE  /\ log[n].id <= s.id
                 /\ log[n].kind # "cs" =>
                        log[n].intermission = Value(log, log[n].id, n - 1)
      <3>1. CASE n \in 1 .. Len(svLog)
        <4>1. n - 1 \in Nat /\ n - 1 <= Len(svLog)
          BY <1>2, <3>1
        <4>2. log[n] = svLog[n] /\ log[n].id <= s.id
          BY <1>5, <1>8, <3>1
        <4>3. svLog[n].kind # "cs" =>
                  svLog[n].intermission = Value(svLog, svLog[n].id, n - 1)
          BY <1>2, <3>1 DEF ChannelSound, Ordered
        <4>. QED
          BY <1>6, <4>1, <4>2, <4>3
      <3>2. CASE n = Len(svLog) + 1
        <4>1. n - 1 = Len(svLog) /\ log[n] = c
          BY <1>2, <1>5, <3>2
        <4>2. log[n].id <= s.id
          BY <1>0, <1>4, <4>1
        <4>3. kind # "cs" => s.intermission = Value(log, s.id, Len(svLog))
          BY <1>2, <1>6
        <4>. QED
          BY <1>4, <4>1, <4>2, <4>3
      <3>. QED
        BY <1>7, <3>1, <3>2
    <2>3. s.intermission = Value(log, s.id, Len(log))
      BY <1>2, <1>4, <1>5 DEF Value
    <2>. QED
      BY <2>1, <2>2, <2>3 DEF Ordered
  <1>10. MessagesAreOfLog'
    <2>1. ASSUME NEW i \in 1 .. Len(toClient)
          PROVE  OfLog(toClient[i], log, svAck, serverCommandSequence)
      <3>1. OfLog(toClient[i], svLog, svAck, serverCommandSequence)
        BY <1>2 DEF ChannelSound, MessagesAreOfLog
      <3>2. /\ Len(svLog) <= Len(log) /\ svAck <= svAck
            /\ serverCommandSequence <= Last(toClient[i])
        BY <1>2, <1>5, <3>1 DEF OfLog
      <3>. QED
        BY <1>2, <1>5, <3>1, <3>2, OfLogMore
    <2>2. toClient' = toClient /\ svLog' = log /\ svAck' = svAck
          /\ serverCommandSequence' = serverCommandSequence
      BY <1>1 DEF client, stored
    <2>. QED
      BY <1>2, <2>1, <2>2 DEF ChannelSound, MessagesAreOfLog
  <1>11. Recent(serverCommands, log, serverCommandSequence)
    <2>1. serverCommandSequence <= Len(svLog)
      BY <1>2 DEF ChannelSound, WindowIsOpen
    <2>2. \A n \in 0 .. serverCommandSequence : n # 0 => n \in 1 .. Len(svLog)
      BY <1>2, <2>1
    <2>. QED
      BY <1>2, <1>5, <2>2 DEF ChannelSound, Recent
  <1>12. WindowIsOpen'
    <2>1. Len(log) <= svAck + K
      BY <1>1, <1>2, <1>5
    <2>2. serverCommandSequence <= Len(log)
      BY <1>2, <1>5 DEF ChannelSound, WindowIsOpen
    <2>. QED
      BY <1>1, <1>2, <2>1, <2>2
      DEF ChannelSound, WindowIsOpen, client, stored, history
  <1>13. ExecutedIsPrefix'
    <2>1. /\ Len(executed) = Max2(0, lastExecutedServerCommand - 1)
          /\ Len(executed) <= Len(svLog)
          /\ \A i \in 1 .. Len(executed) : executed[i] = svLog[i]
      BY <1>2 DEF ChannelSound, ExecutedIsPrefix
    <2>2. \A i \in 1 .. Len(executed) : i \in 1 .. Len(svLog)
      BY <1>2, <2>1
    <2>3. Len(executed) <= Len(log)
      BY <1>2, <1>5, <2>1
    <2>4. \A i \in 1 .. Len(executed) : executed[i] = log[i]
      BY <1>5, <2>1, <2>2
    <2>. QED
      BY <1>1, <2>1, <2>3, <2>4 DEF ExecutedIsPrefix, client, history
  <1>14. ChannelSound'
    BY <1>1, <1>2, <1>5, <1>9, <1>10, <1>11, <1>12, <1>13
    DEF ChannelSound, client, stored, history
  <1>15. StateSound'
    BY <1>1, <1>5, StateKept DEF client, stored, history
  <1>16. svLog' = Append(svLog, c) /\ executed' = executed
    BY <1>1 DEF log, client, history
  <1>. QED
    BY <1>3, <1>14, <1>15, <1>16, IInvNextParts

SvQueues ==
    \/ SvPatch \/ SvScores \/ SvExit \/ SvNewMatch \/ SvMapRestart
    \/ SvSystemInfo

LEMMA QueueStep ==
    ASSUME IInv, SvQueues
    PROVE  /\ IInv'
           /\ \E c \in Commands : svLog' = Append(svLog, c)
           /\ executed' = executed
  <1>1. /\ sv \in SvStates /\ sv.id \in Nat /\ sv.id <= sv.id
        /\ sv.intermission = Value(svLog, sv.id, Len(svLog))
        /\ MaxId \in Nat /\ Len(svLog) \in Nat
        /\ \A n \in 1 .. Len(svLog) : svLog[n].id \in Nat /\ svLog[n].id <= sv.id
    <2>1. /\ sv \in SvStates /\ sv.id \in Ids /\ Len(svLog) \in Nat
          /\ \A n \in 1 .. Len(svLog) : svLog[n] \in Commands
          /\ Ordered(svLog, sv) /\ MaxId \in Nat /\ Ids \subseteq Nat
      BY Types, Numbers DEF IInv, TypeOK
    <2>2. sv.id \in Nat /\ sv.id <= sv.id
      BY <2>1, IdsAreNumbers
    <2>3. \A n \in 1 .. Len(svLog) : svLog[n].id \in Nat /\ svLog[n].id <= sv.id
      BY <2>1, NoCommandFacts DEF Ordered
    <2>. QED
      BY <2>1, <2>2, <2>3 DEF Ordered
  <1>2. CASE SvPatch
    BY <1>1, <1>2, QueueFacts DEF SvPatch
  <1>3. CASE SvScores
    BY <1>1, <1>3, QueueFacts DEF SvScores
  <1>4. CASE SvExit
    <2>. DEFINE s == [sv EXCEPT !.intermission = 1, !.exitTime = sv.time]
    <2>1. s \in SvStates /\ s.id = sv.id /\ SvQueue("cs", s)
      BY <1>1, <1>4 DEF SvExit, SvStates
    <2>. HIDE DEF s
    <2>. QED
      BY <1>1, <2>1, QueueFacts
  <1>5. CASE SvNewMatch
    <2>. DEFINE s == [sv EXCEPT !.intermission = 0, !.exitTime = -1]
    <2>1. s \in SvStates /\ s.id = sv.id /\ SvQueue("cs", s)
      BY <1>1, <1>5 DEF SvNewMatch, SvStates
    <2>. HIDE DEF s
    <2>. QED
      BY <1>1, <2>1, QueueFacts
  <1>6. CASE SvMapRestart
    <2>. DEFINE s == [sv EXCEPT !.id = sv.id + 1, !.infoSent = FALSE]
    <2>1. sv.id + 1 \in Ids
      BY <1>1, <1>6 DEF SvMapRestart, Ids
    <2>2. /\ s \in SvStates /\ s.id = sv.id + 1 /\ s.intermission = 0
          /\ SvQueue("map_restart", s)
      BY <1>1, <1>6, <2>1 DEF SvMapRestart, SvStates
    <2>. HIDE DEF s
    <2>3. Value(svLog, s.id, Len(svLog)) = 0
      <3>1. Len(svLog) >= 1 => Len(svLog) \in 1 .. Len(svLog)
        BY <1>1
      <3>2. Len(svLog) >= 1 => svLog[Len(svLog)].id # s.id
        BY <1>1, <2>2, <3>1
      <3>. QED
        BY <3>2 DEF Value
    <2>4. sv.id <= s.id
      BY <1>1, <2>2
    <2>. QED
      BY <2>2, <2>3, <2>4, QueueFacts
  <1>7. CASE SvSystemInfo
    <2>. DEFINE s == [sv EXCEPT !.infoSent = TRUE]
    <2>1. /\ s \in SvStates /\ s.id = sv.id /\ s.intermission = sv.intermission
          /\ SvQueue("serverid", s)
      BY <1>1, <1>7 DEF SvSystemInfo, SvStates
    <2>. HIDE DEF s
    <2>. QED
      BY <1>1, <2>1, QueueFacts
  <1>. QED
    BY <1>2, <1>3, <1>4, <1>5, <1>6, <1>7 DEF SvQueues

\* What the server does without a command.
LEMMA ServerStep ==
    ASSUME IInv, SvMapChange \/ SvTick
    PROVE  IInv'
  <1>1. /\ sv \in SvStates /\ sv.id \in Nat /\ sv.time \in Nat
        /\ sv.intermission = Value(svLog, sv.id, Len(svLog))
        /\ MaxId \in Nat /\ MaxTime \in Nat /\ Len(svLog) \in Nat
        /\ \A n \in 1 .. Len(svLog) : svLog[n].id \in Nat /\ svLog[n].id <= sv.id
        /\ Ordered(svLog, sv)
    BY Types, Numbers, NoCommandFacts DEF IInv, TypeOK, Ordered
  <1>2. ASSUME sv' \in SvStates, Ordered(svLog, sv'),
               UNCHANGED <<client, svLog, svAck, toClient>>
        PROVE  IInv'
    <2>1. ChannelSound
      BY IInvParts
    <2>2. WindowIsOpen' /\ ExecutedIsPrefix' /\ MessagesAreOfLog'
      BY <1>2, <2>1
      DEF ChannelSound, WindowIsOpen, ExecutedIsPrefix, MessagesAreOfLog,
          client, stored, history
    <2>3. ChannelSound'
      BY <1>2, <2>1, <2>2 DEF ChannelSound, client, stored, history
    <2>4. StateSound'
      BY <1>2, StateKept DEF client, stored, history
    <2>. QED
      BY <2>3, <2>4, IInvNextParts
  <1>3. CASE SvMapChange
    <2>1. sv.id + 1 \in Ids
      BY <1>1, <1>3 DEF SvMapChange, Ids
    <2>2. /\ sv' = [sv EXCEPT !.id = sv.id + 1, !.restartedId = sv.id + 1,
                              !.primed = FALSE, !.infoSent = TRUE,
                              !.intermission = 0, !.exitTime = -1]
          /\ UNCHANGED <<client, svLog, svAck, toClient>>
      BY <1>3 DEF SvMapChange
    <2>3. sv' \in SvStates /\ sv'.id = sv.id + 1 /\ sv'.intermission = 0
      BY <1>1, <2>1, <2>2 DEF SvStates
    <2>4. Value(svLog, sv'.id, Len(svLog)) = 0
      <3>1. Len(svLog) >= 1 => Len(svLog) \in 1 .. Len(svLog)
        BY <1>1
      <3>2. Len(svLog) >= 1 => svLog[Len(svLog)].id # sv'.id
        BY <1>1, <2>3, <3>1
      <3>. QED
        BY <3>2 DEF Value
    <2>5. \A n \in 1 .. Len(svLog) : svLog[n].id <= sv'.id
      BY <1>1, <2>3
    <2>6. Ordered(svLog, sv')
      BY <1>1, <2>3, <2>4, <2>5 DEF Ordered
    <2>. QED
      BY <1>2, <2>2, <2>3, <2>6
  <1>4. CASE SvTick
    <2>1. sv.time + 1 \in Times
      BY <1>1, <1>4 DEF SvTick, Times
    <2>2. /\ sv' = [sv EXCEPT !.time = sv.time + 1]
          /\ UNCHANGED <<client, svLog, svAck, toClient>>
      BY <1>4 DEF SvTick
    <2>3. sv' \in SvStates /\ sv'.id = sv.id /\ sv'.intermission = sv.intermission
      BY <1>1, <2>1, <2>2 DEF SvStates
    <2>4. Ordered(svLog, sv')
      BY <1>1, <2>3 DEF Ordered
    <2>. QED
      BY <1>2, <2>2, <2>3, <2>4
  <1>. QED
    BY <1>3, <1>4

LEMMA ChannelStep ==
    ASSUME IInv, SvSendSnapshot \/ LoseToClient
    PROVE  IInv'
  <1>1. phase \in {"read", "execute"} /\ svAck \in Nat
        /\ svAck <= serverCommandSequence /\ serverCommandSequence \in Nat
    BY Types DEF IInv, TypeOK
  <1>2. ASSUME UNCHANGED <<client, server>>,
               toClient' \in Seq(Messages), InOrder(toClient'),
               \A i \in 1 .. Len(toClient') :
                   OfLog(toClient'[i], svLog, svAck, serverCommandSequence)
        PROVE  IInv'
    <2>1. ChannelSound'
      BY <1>1, <1>2, ChannelKept DEF client, stored, history, server
    <2>2. StateSound'
      BY <1>2, StateKept DEF client, stored, history, server
    <2>. QED
      BY <2>1, <2>2, IInvNextParts
  <1>3. CASE SvSendSnapshot
    <2>1. svAck \in svAck .. serverCommandSequence
      BY <1>1
    <2>. QED
      BY <1>2, <1>3, <2>1, SentFacts DEF SvSendSnapshot
  <1>4. CASE LoseToClient
    BY <1>2, <1>4, HeadFacts DEF LoseToClient
  <1>. QED
    BY <1>3, <1>4

(***************************************************************************)
(* The invariant.                                                          *)
(***************************************************************************)
LEMMA InitIInv == Init => IInv
  <1>. SUFFICES ASSUME Init PROVE IInv
    OBVIOUS
  <1>1. /\ K \in Nat /\ K >= 2 /\ 1 \in Ids /\ 0 \in Times /\ 1 \in Times
        /\ Delay \in Nat
    BY Numbers DEF Ids, Times
  <1>2. \A S : << >> \in Seq(S) /\ Len(<< >>) = 0
    BY EmptySeq
  <1>3. cl \in GameStates /\ cl.intermission = 0
    BY <1>1, <1>2 DEF Init, GameStates
  <1>4. sv \in SvStates /\ sv.intermission = 0 /\ sv.id = 1
    BY <1>1 DEF Init, SvStates
  <1>5. Ordered(svLog, sv) /\ MessagesAreOfLog
    BY <1>2, <1>4 DEF Init, Ordered, Value, MessagesAreOfLog, InOrder
  <1>6. Recent(serverCommands, svLog, serverCommandSequence)
    <2>1. 0 % K \in 0 .. K - 1
      BY RingIndex
    <2>. QED
      BY <2>1 DEF Init, Recent
  <1>7. WindowIsOpen
    BY <1>1, <1>2 DEF Init, WindowIsOpen
  <1>8. ExecutedIsPrefix
    BY <1>2 DEF Init, ExecutedIsPrefix, Max2
  <1>9. ChannelSound
    BY <1>1, <1>2, <1>4, <1>5, <1>6, <1>7, <1>8 DEF Init, ChannelSound
  <1>10. StateSound
    <2>1. /\ intermissionTime = -1 /\ demo = NoDemo /\ donedl = 0
          /\ gamestateId = 0 /\ stale = FALSE
      BY DEF Init
    <2>2. ConfigstringFollows
      BY <2>1 DEF ConfigstringFollows
    <2>3. IntermissionIsKnown /\ TimeIsLate /\ DemoIsOfGamestate
      BY <1>3, <2>1 DEF IntermissionIsKnown, TimeIsLate, DemoIsOfGamestate
    <2>. QED
      BY <1>3, <2>1, <2>2, <2>3 DEF StateSound
  <1>. QED
    BY <1>9, <1>10, IInvParts

\* A step, by what it is to the log.
Executes ==
    \/ ExecuteEmpty \/ ExecuteConfigstring \/ ExecuteSystemInfo
    \/ ExecuteScores \/ ExecuteMapRestart

Others ==
    \/ ReadNothing \/ ReadGamestate \/ ReadSnapshot
    \/ LosePacket \/ SvReceivePacket \/ SvSendGamestate
    \/ SvMapChange \/ SvTick \/ SvSendSnapshot \/ LoseToClient

LEMMA NextParts == Next <=> SvQueues \/ Executes \/ Others
  BY DEF Next, Turn, ServerNext, SvQueues, Executes, Others

LEMMA NextIInv == IInv /\ [Next]_vars => IInv'
  <1>. SUFFICES ASSUME IInv, [Next]_vars PROVE IInv'
    OBVIOUS
  <1>1. CASE SvQueues
    BY <1>1, QueueStep
  <1>2. CASE Executes
    BY <1>2, ExecuteStep DEF Executes
  <1>3. CASE Others
    BY <1>3, ReadNothingStep, ReadGamestateStep, ReadSnapshotStep, WriteStep,
       ServerStep, ChannelStep
    DEF Others
  <1>4. CASE UNCHANGED vars
    <2>1. UNCHANGED <<stored, lastExecutedServerCommand, executed, server>>
      BY <1>4 DEF vars, client, history
    <2>2. toClient' = toClient /\ phase' = phase /\ gamestateId' = gamestateId
      BY <1>4 DEF vars, client, history
    <2>3. phase \in {"read", "execute"}
      BY DEF IInv, TypeOK
    <2>4. ChannelSound'
      BY <2>1, <2>2, <2>3, ChannelKept, MessagesKept
    <2>5. StateSound'
      BY <1>4, StateKept DEF vars, client, stored, history, server
    <2>. QED
      BY <2>4, <2>5, IInvNextParts
  <1>. QED
    BY <1>1, <1>2, <1>3, <1>4, NextParts

LEMMA Invariance == Spec => []IInv
  <1>. QED
    BY InitIInv, NextIInv, PTL DEF Spec

(***************************************************************************)
(* The theorems.                                                           *)
(***************************************************************************)

\* The variables have their types.
THEOREM TypeCorrect == Spec => []TypeOK
  <1>1. IInv => TypeOK
    BY DEF IInv
  <1>. QED
    BY <1>1, Invariance, PTL

\* intermissionTime is set exactly while CS_INTERMISSION is
\* (DemoBot_IntermissionCSChanged_f): "but not in intermission!" of
\* CG_ParseScores_f is never reported.
THEOREM IntermissionIsAlwaysKnown == Spec => []IntermissionIsKnown
  <1>1. IInv => IntermissionIsKnown
    BY DEF IInv
  <1>. QED
    BY <1>1, Invariance, PTL

\* At the end of every turn the configstring is the one the server had after
\* the last command executed (CL_ParseServerMessage, CL_ConfigstringModified).
THEOREM ConfigstringsAlwaysAgree == Spec => []ConfigstringsAgree
  <1>1. IInv => ConfigstringsAgree
    <2>. SUFFICES ASSUME IInv, lastExecutedServerCommand > serverCommandSequence,
                         executed # << >>, ~stale,
                         executed[Len(executed)].id = gamestateId
                  PROVE  cl.intermission = executed[Len(executed)].intermission
      BY DEF ConfigstringsAgree
    <2>. DEFINE n == Len(executed)
    <2>1. /\ executed \in Seq(Commands) /\ n \in Nat
          /\ serverCommandSequence \in Nat /\ lastExecutedServerCommand \in Nat
          /\ lastExecutedServerCommand <= serverCommandSequence + 1
          /\ \A i \in 1 .. Len(svLog) : svLog[i] \in Commands
          /\ Len(svLog) \in Nat /\ Ids \subseteq Nat \ {0}
      BY Types, Numbers DEF IInv
    <2>2. n >= 1
      BY <2>1, EmptySeq
    <2>3. /\ n = Max2(0, lastExecutedServerCommand - 1) /\ n <= Len(svLog)
          /\ \A i \in 1 .. n : executed[i] = svLog[i]
      BY DEF IInv, ExecutedIsPrefix
    <2>4. n = serverCommandSequence
      BY <2>1, <2>3 DEF Max2
    <2>. HIDE DEF n
    <2>5. executed[n] = svLog[n] /\ svLog[n] \in Commands
      BY <2>1, <2>2, <2>3
    <2>6. svLog[n].id = gamestateId /\ gamestateId \in Nat \ {0}
      BY <2>1, <2>5, NoCommandFacts DEF n
    <2>7. cl.intermission = Value(svLog, gamestateId, n)
      BY <2>4, <2>6 DEF IInv, ConfigstringFollows, n
    <2>. QED
      BY <2>2, <2>5, <2>6, <2>7 DEF Value, n
  <1>. QED
    BY <1>1, Invariance, PTL

\* Scores end a demo only when its match is over (CG_ParseScores_f).
THEOREM DemosStopAfterMatch == Spec => StopsAfterMatch
  <1>. DEFINE A == demo # NoDemo /\ demo' = NoDemo /\ ~stale'
                   => Command.intermission = 1 \/ Command.id # demo
  <1>1. IInv /\ [Next]_vars => [A]_vars
    <2>. SUFFICES ASSUME IInv, Next, demo # NoDemo, demo' = NoDemo, ~stale',
                         Command.id = demo
                  PROVE  Command.intermission = 1
      OBVIOUS
    <2>1. /\ Ids \subseteq Nat \ {0} /\ NoDemo \notin Ids
          /\ demo = gamestateId /\ gamestateId \in Ids
          /\ \A i \in 1 .. Len(svLog) : svLog[i] \in Commands
          /\ Len(svLog) \in Nat /\ lastExecutedServerCommand \in Nat
          /\ cl.intermission \in {0, 1} /\ cl.serverTime \in Nat
          /\ Delay \in Nat /\ Delay >= 1
      BY Types, Numbers DEF IInv, TypeOK, DemoIsOfGamestate
    <2>2. ExecuteScores
      <3>1. ~SvQueues
        BY DEF SvQueues, SvPatch, SvScores, SvExit, SvNewMatch, SvMapRestart,
               SvSystemInfo, SvQueue, client
      <3>2. ~ReadGamestate
        <4>. SUFFICES ASSUME ReadGamestate PROVE FALSE
          OBVIOUS
        <4>1. demo' = Head(toClient).id /\ toClient # << >>
          BY DEF ReadGamestate, ReadMessage
        <4>2. Head(toClient).id \in Ids
          BY <4>1, HeadFacts, MessageFacts
        <4>. QED
          BY <2>1, <4>1, <4>2
      <3>3. ~(Others /\ ~ReadGamestate)
        BY DEF Others, ReadNothing, ReadSnapshot, LosePacket, SvReceivePacket,
               SvSendGamestate, SvReceive, CL_WritePacket, SvMapChange, SvTick,
               SvSendSnapshot, LoseToClient, client
      <3>4. ~(Executes /\ ~ExecuteScores)
        BY DEF Executes, ExecuteEmpty, ExecuteConfigstring, ExecuteSystemInfo,
               ExecuteMapRestart
      <3>. QED
        BY <3>1, <3>2, <3>3, <3>4, NextParts DEF Executes
    <2>3. /\ Execute({"scores"}) /\ Command.kind = "scores"
          /\ intermissionTime # -1 /\ cl.serverTime >= intermissionTime
          /\ cl.intermission = 1
      BY <2>1, <2>2 DEF ExecuteScores, Execute, InIntermission
    <2>. DEFINE next == lastExecutedServerCommand
    <2>4. /\ next \in 1 .. Len(svLog) /\ Command = svLog[next]
          /\ Len(executed) = next - 1 /\ (stale' = (stale \/ Command.id < gamestateId))
      BY <2>3, ExecuteFacts, NoCommandFacts
    <2>5. ~stale
      BY <2>4, Zenon
    <2>6. cl.serverTime # 0
      <3>1. intermissionTime \in Nat /\ intermissionTime >= Delay
        BY <2>3 DEF IInv, TypeOK, TimeIsLate
      <3>. QED
        BY <2>1, <2>3, <3>1
    <2>7. /\ Ordered(svLog, sv) /\ ConfigstringFollows
      BY DEF IInv
    <2>8. next - 1 >= 1 => svLog[next - 1].id <= gamestateId
      <3>1. next - 1 >= 1 => next - 1 \in 1 .. Len(svLog) /\ next - 1 <= next
        BY <2>1, <2>4
      <3>. QED
        BY <2>1, <2>4, <2>7, <3>1 DEF Ordered
    <2>9. cl.intermission = Value(svLog, gamestateId, next - 1)
      BY <2>1, <2>4, <2>5, <2>6, <2>7, <2>8 DEF ConfigstringFollows
    <2>10. Command.intermission = Value(svLog, gamestateId, next - 1)
      BY <2>1, <2>3, <2>4, <2>7 DEF Ordered
    <2>. QED
      BY <2>3, <2>9, <2>10
  <1>. QED
    BY <1>1, Invariance, PTL DEF Spec, StopsAfterMatch

LEMMA LogStep == IInv /\ [Next]_vars => [Channel!Next]_Channel!logVars
  <1>. SUFFICES ASSUME IInv, [Next]_vars
                PROVE  [Channel!Next]_Channel!logVars
    OBVIOUS
  <1>1. CASE SvQueues
    BY <1>1, QueueStep DEF Channel!Next, Channel!Queue
  <1>2. CASE Executes
    <2>1. PICK kinds : Execute(kinds)
      BY <1>2
      DEF Executes, ExecuteEmpty, ExecuteConfigstring, ExecuteSystemInfo,
          ExecuteScores, ExecuteMapRestart
    <2>2. svLog' = svLog
      BY <2>1, ExecuteFacts
    <2>3. CASE executed' = executed
      BY <2>2, <2>3 DEF Channel!logVars
    <2>4. CASE /\ lastExecutedServerCommand \in 1 .. Len(svLog)
               /\ Command = svLog[lastExecutedServerCommand]
               /\ Len(executed) = lastExecutedServerCommand - 1
               /\ executed' = Append(executed, Command)
      <3>1. /\ lastExecutedServerCommand = Len(executed) + 1
            /\ Len(executed) < Len(svLog)
        BY <2>4, Types DEF IInv
      <3>. QED
        BY <2>2, <2>4, <3>1 DEF Channel!Next, Channel!Execute
    <2>. QED
      BY <2>1, <2>3, <2>4, ExecuteFacts
  <1>3. CASE Others
    BY <1>3
    DEF Others, ReadNothing, ReadGamestate, ReadSnapshot, ReadMessage,
        LosePacket, SvReceivePacket, SvSendGamestate, SvReceive, CL_WritePacket,
        SvMapChange, SvTick, SvSendSnapshot, LoseToClient, client, server,
        history, Channel!logVars
  <1>4. CASE UNCHANGED vars
    BY <1>4 DEF vars, client, server, history, Channel!logVars
  <1>. QED
    BY <1>1, <1>2, <1>3, <1>4, NextParts

\* Whatever messages are lost and however late the acknowledges, the channel
\* is the log of CommandLog: commands are executed in order, each once.
THEOREM ChannelImplementsLog == Spec => ImplementsLog
  <1>1. Init => Channel!Init
    BY DEF Init, Channel!Init
  <1>. QED
    BY <1>1, LogStep, Invariance, PTL DEF Spec, ImplementsLog, Channel!Spec
=============================================================================
