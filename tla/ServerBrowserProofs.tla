-------------------------- MODULE ServerBrowserProofs --------------------------
(***************************************************************************)
(* The invariants of ServerBrowser hold for any numbers of servers and of  *)
(* ping slots, and for any periods.                                        *)
(***************************************************************************)
EXTENDS ServerBrowser, WellFoundedInduction, TLAPS

\* The records of TypeOK.
SlotRecords ==
    [adr : Servers \cup {Nobody}, age : 0 .. MaxPing + MaxSleep, time : {0, 1},
     info : Infos]
StatusRecords ==
    [state : {"none", "pending", "answered"}, age : 0 .. StatusPeriod + 1]

USE DEF SlotRecords, StatusRecords

LEMMA LessIsWellFounded ==
    IsWellFoundedOn({p \in Nat \X Nat : p[1] < p[2]}, Nat)
  BY NatLessThanWellFounded DEF OpToRel

\* The first slot of some, which CL_GetFreePing and CL_ServerInfoPacket take,
\* is one of them.
LEMMA FirstSlot ==
    ASSUME NEW S \in SUBSET Slots, S # {}
    PROVE  Min(S) \in S
  <1>. DEFINE Less == {p \in Nat \X Nat : p[1] < p[2]}
  <1>1. S \subseteq Nat
    BY NumbersAssumption DEF Slots
  <1>2. \A x, y \in Nat : <<y, x>> \in Less <=> y < x
    OBVIOUS
  <1>. HIDE DEF Less
  <1>3. PICK x \in S : \A y \in S : <<y, x>> \notin Less
    BY <1>1, LessIsWellFounded, WFMin DEF Less
  <1>4. ASSUME NEW y \in S PROVE x <= y
    <2>1. x \in Nat /\ y \in Nat /\ ~(y < x)
      BY <1>1, <1>2, <1>3
    <2>. QED  BY <2>1
  <1>. QED  BY <1>4 DEF Min

\* Both fields of a server's record are replaced, or of a status asked for.
LEMMA ServerReplaced ==
    ASSUME NEW D, NEW P, NEW I, NEW f \in [D -> [ping : P, info : I]], NEW s \in D,
           NEW p \in P, NEW i \in I
    PROVE  [f EXCEPT ![s].ping = p, ![s].info = i] \in [D -> [ping : P, info : I]]
  <1>. DEFINE v == [f[s] EXCEPT !.ping = p, !.info = i]
  <1>1. v \in [ping : P, info : I]
    OBVIOUS
  <1>2. [f EXCEPT ![s].ping = p, ![s].info = i] = [f EXCEPT ![s] = v]
    OBVIOUS
  <1>. HIDE DEF v
  <1>. QED  BY <1>1, <1>2

\* A status whose request is sent again.
Refreshed(f, s) == [f EXCEPT ![s].state = "pending", ![s].age = 0]

LEMMA StatusPending ==
    ASSUME NEW D, NEW P, NEW I, NEW f \in [D -> [state : P, age : I]], NEW s \in D,
           "pending" \in P, 0 \in I
    PROVE  Refreshed(f, s) \in [D -> [state : P, age : I]]
  <1>. DEFINE v == [f[s] EXCEPT !.state = "pending", !.age = 0]
  <1>1. v \in [state : P, age : I]
    OBVIOUS
  <1>2. Refreshed(f, s) = [f EXCEPT ![s] = v]
    BY DEF Refreshed
  <1>. HIDE DEF v
  <1>. QED  BY <1>1, <1>2

(***************************************************************************)
(* The inductive invariant.                                                *)
(***************************************************************************)

\* Every loop is at a server or a slot of its own.
IndexInLoop ==
    /\ pc \in {"ask", "find"} => idx \in Servers
    /\ pc = "collect" => idx \in Slots
    /\ pc \in {"poll", "scan", "sleep"} => idx = 1

\* The slots the turn has collected, or not yet begun to fill.
Collected(i) == pc \in {"poll", "find", "sleep"} \/ (pc = "collect" /\ i < idx)

\* The slots from which the turn has collected what had timed out.
Aged(i) == pc \in {"find", "sleep"} \/ (pc = "collect" /\ i < idx)

\* A slot that holds an answer was answered in this turn: it holds the
\* server's own info, and is not there any more when it has been collected.
AnswersAreNew ==
    \A i \in Slots :
        Used(i) /\ slot[i].time > 0 =>
            /\ slot[i].info.of = slot[i].adr
            /\ slot[i].adr = got
            /\ ~Collected(i)

\* No slot waits longer than a ping may take.
WaitsAreShort ==
    \A i \in Slots : Used(i) /\ Aged(i) => slot[i].age < MaxPing

\* The turn's answer is in its slot, whatever a scan does to its server, until
\* the server has it.
AnswerIsKept ==
    got # Nobody =>
        /\ got \in heard
        /\ pc \in {"scan", "ask", "collect"} =>
               \/ \E i \in Slots : slot[i].adr = got /\ slot[i].time > 0
               \/ /\ pc = "collect"
                  /\ server[got].ping > 0
                  /\ \A i \in Slots : slot[i].adr # got
        /\ pc = "find" => server[got].ping > 0

IInv ==
    /\ TypeOK
    /\ IndexInLoop
    /\ AskedOnce
    /\ InfoIsOwn
    /\ PingIsFresh
    /\ AnswersAreNew
    /\ WaitsAreShort
    /\ AnswerIsKept

LEMMA Numbers ==
    /\ NumServers \in Nat \ {0} /\ NumSlots \in Nat \ {0}
    /\ MaxPing \in Nat \ {0} /\ ScanPeriod \in Nat \ {0}
    /\ StatusPeriod \in Nat \ {0} /\ MaxSleep \in Nat \ {0}
  BY NumbersAssumption, TimesAssumption

LEMMA NobodyIsNoServer == Nobody \notin Servers
  BY Numbers DEF Nobody, Servers

LEMMA InvInit == Init => IInv
  <1>. SUFFICES ASSUME Init PROVE IInv
    OBVIOUS
  <1>1. TypeOK
    BY Numbers
    DEF Init, TypeOK, Servers, Slots, Infos, NoInfo, Says, Unasked, Nobody
  <1>2. \A i \in Slots : ~Used(i)
    BY DEF Init, Used
  <1>3. \A s \in Servers : server[s].ping = Unasked
    BY DEF Init
  <1>. QED
    BY <1>1, <1>2, <1>3, Numbers
    DEF Init, IInv, IndexInLoop, AskedOnce, InfoIsOwn, PingIsFresh,
        AnswersAreNew, WaitsAreShort, AnswerIsKept, Unasked

\* A loop goes on with the next index, or the next part of the turn begins.
LEMMA StepFacts ==
    ASSUME NEW n \in Nat \ {0}, NEW next, idx \in 1 .. n, Step(n, next)
    PROVE  \/ idx < n /\ pc' = pc /\ idx' = idx + 1 /\ idx' \in 1 .. n
           \/ idx = n /\ pc' = next /\ idx' = 1
  BY DEF Step

\* An info goes into the first slot that waits for it, and into its server.
LEMMA ReadInfoKeeps ==
    ASSUME IInv, NEW s \in Servers, ReadInfo(s)
    PROVE  IInv'
  <1>. DEFINE i == Min(Waiting(s))
  <1>1. i \in Slots /\ slot[i].adr = s /\ slot[i].time = 0 /\ Used(i)
    <2>1. i \in Waiting(s)
      BY FirstSlot DEF ReadInfo, Waiting
    <2>. QED  BY <2>1, NobodyIsNoServer DEF Waiting, Used
  <1>. HIDE DEF i
  <1>2. PICK says \in Says :
            LET info == [of |-> s, says |-> says]
            IN  /\ slot' = [slot EXCEPT ![i].time = PingOf(i), ![i].info = info]
                /\ server' = [server EXCEPT ![s] = [ping |-> PingOf(i), info |-> info]]
                /\ got' = IF PingOf(i) > 0 THEN s ELSE Nobody
    BY DEF ReadInfo, i
  <1>3. PingOf(i) \in {0, 1}
    BY DEF PingOf
  <1>4. /\ pc = "poll" /\ pc' = "scan" /\ heard' = heard \cup {s}
        /\ idx' = idx /\ idx = 1
        /\ UNCHANGED <<sinceScan, status, asked>>
    BY DEF ReadInfo, IInv, IndexInLoop
  <1>5. TypeOK'
    <2>1. [of |-> s, says |-> says] \in Infos
      BY DEF Infos
    <2>2. slot' \in [Slots -> SlotRecords]
      <3>. DEFINE v == [slot[i] EXCEPT !.time = PingOf(i), !.info = [of |-> s, says |-> says]]
      <3>1. v \in SlotRecords
        <4>. DEFINE info == [of |-> s, says |-> says]
        <4>1. slot[i] \in SlotRecords
          BY <1>1 DEF IInv, TypeOK
        <4>2. info \in Infos
          BY <2>1
        <4>. HIDE DEF info
        <4>3. [slot[i] EXCEPT !.time = PingOf(i), !.info = info]
                  \in SlotRecords
          BY <1>3, <4>1, <4>2
        <4>. QED  BY <4>3 DEF info
      <3>2. slot' = [slot EXCEPT ![i] = v]
        BY <1>1, <1>2 DEF IInv, TypeOK
      <3>. HIDE DEF v
      <3>. QED  BY <1>1, <3>1, <3>2 DEF IInv, TypeOK
    <2>3. server' \in [Servers -> [ping : {Unasked, 0, 1}, info : Infos]]
      BY <1>2, <1>3, <2>1 DEF IInv, TypeOK
    <2>. QED  BY <1>2, <1>4, <2>2, <2>3 DEF IInv, TypeOK
  <1>6. \A j \in Slots :
            /\ slot'[j].adr = slot[j].adr
            /\ j # i => slot'[j] = slot[j]
            /\ Used(j) /\ j # i => slot[j].time = 0
    BY <1>1, <1>2, <1>4 DEF IInv, TypeOK, AnswersAreNew, Collected
  <1>7. slot'[i].time = PingOf(i) /\ slot'[i].info.of = s
    BY <1>1, <1>2 DEF IInv, TypeOK
  <1>8. server'[s].ping = PingOf(i) /\ server'[s].info.of = s
        /\ \A t \in Servers \ {s} : server'[t] = server[t]
    BY <1>2 DEF IInv, TypeOK
  <1>9. IndexInLoop' /\ AskedOnce' /\ InfoIsOwn' /\ PingIsFresh' /\ WaitsAreShort'
    BY <1>1, <1>4, <1>6, <1>8, Numbers
    DEF IInv, IndexInLoop, AskedOnce, InfoIsOwn, PingIsFresh, WaitsAreShort, Aged, Used
  <1>10. AnswersAreNew'
    <2>1. \A j \in Slots : ~Collected(j)'
      BY <1>4 DEF Collected
    <2>. SUFFICES ASSUME NEW j \in Slots, Used(j)', slot'[j].time > 0
                  PROVE  slot'[j].info.of = slot'[j].adr /\ slot'[j].adr = got'
      BY <2>1 DEF AnswersAreNew
    <2>2. j = i
      BY <1>6 DEF Used
    <2>. QED  BY <1>1, <1>2, <1>6, <1>7, <2>2
  <1>11. AnswerIsKept'
    BY <1>1, <1>2, <1>3, <1>4, <1>6, <1>7 DEF AnswerIsKept
  <1>. QED  BY <1>5, <1>9, <1>10, <1>11 DEF IInv

\* No info was read, and no slot holds an answer.
LEMMA NothingReadKeeps ==
    ASSUME IInv, pc = "poll", pc' = "scan", got' = Nobody,
           status' \in [Servers -> StatusRecords],
           asked' \subseteq Servers,
           UNCHANGED <<idx, sinceScan, server, slot, heard>>
    PROVE  IInv'
  <1>1. TypeOK'
    BY DEF IInv, TypeOK
  <1>2. \A i \in Slots : Used(i) => ~(slot[i].time > 0)
    BY DEF IInv, AnswersAreNew, Collected
  <1>. QED
    BY <1>1, <1>2
    DEF IInv, IndexInLoop, AskedOnce, InfoIsOwn, PingIsFresh, WaitsAreShort,
        AnswersAreNew, AnswerIsKept, Aged, Collected, Used

LEMMA ReadStatusKeeps ==
    ASSUME IInv, NEW s \in Servers, ReadStatus(s)
    PROVE  IInv'
  <1>1. status' \in [Servers -> StatusRecords]
    BY DEF ReadStatus, IInv, TypeOK
  <1>2. asked' \subseteq Servers
    BY DEF ReadStatus, IInv, TypeOK
  <1>. QED  BY <1>1, <1>2, NothingReadKeeps DEF ReadStatus

LEMMA ReadNothingKeeps ==
    ASSUME IInv, ReadNothing
    PROVE  IInv'
  BY NothingReadKeeps DEF ReadNothing, IInv, TypeOK

\* A scan makes all servers unasked; an answer of this turn stays in its slot.
LEMMA ScanKeeps ==
    ASSUME IInv, Scan
    PROVE  IInv'
  <1>1. /\ pc = "scan" /\ pc' = "ask" /\ idx' = 1 /\ 1 \in Servers
        /\ server' = Reasked
        /\ heard' = {got} \cap Servers
        /\ UNCHANGED <<slot, status, asked, got>>
    BY Numbers DEF Scan, IInv, IndexInLoop, Servers
  <1>2. Reasked \in [Servers -> [ping : {Unasked, 0, 1}, info : Infos]]
        /\ \A s \in Servers : Reasked[s].ping = Unasked
    BY DEF Reasked, IInv, TypeOK
  <1>3. sinceScan' \in 0 .. ScanPeriod + 1
    BY Numbers DEF Scan
  <1>4. TypeOK'
    BY <1>1, <1>2, <1>3 DEF IInv, TypeOK
  <1>5. InfoIsOwn' /\ PingIsFresh'
    BY <1>1, <1>2 DEF InfoIsOwn, PingIsFresh, Unasked
  <1>6. AnswerIsKept'
    BY <1>1 DEF IInv, TypeOK, AnswerIsKept
  <1>. QED
    BY <1>1, <1>4, <1>5, <1>6
    DEF IInv, IndexInLoop, AskedOnce, AnswersAreNew, WaitsAreShort, Aged, Collected, Used

LEMMA NoScanKeeps ==
    ASSUME IInv, NoScan
    PROVE  IInv'
  <1>1. /\ pc = "scan" /\ pc' = "ask" /\ idx' = 1 /\ 1 \in Servers
        /\ UNCHANGED <<sinceScan, server, slot, status, asked, heard, got>>
    BY Numbers DEF NoScan, IInv, IndexInLoop, Servers
  <1>2. TypeOK'
    BY <1>1 DEF IInv, TypeOK
  <1>. QED
    BY <1>1, <1>2
    DEF IInv, IndexInLoop, AskedOnce, InfoIsOwn, PingIsFresh, AnswersAreNew,
        WaitsAreShort, AnswerIsKept, Aged, Collected, Used
LEMMA ServersStep ==
    ASSUME NEW next, idx \in Servers, Step(NumServers, next)
    PROVE  /\ \/ pc' = pc /\ idx' \in Servers
              \/ pc' = next /\ idx' = 1
           /\ 1 \in Servers /\ 1 \in Slots
  <1>1. idx \in 1 .. NumServers
    BY DEF Servers
  <1>2. \/ idx < NumServers /\ pc' = pc /\ idx' = idx + 1 /\ idx' \in 1 .. NumServers
        \/ idx = NumServers /\ pc' = next /\ idx' = 1
    BY <1>1, StepFacts, Numbers
  <1>. QED  BY <1>2, Numbers DEF Servers, Slots

\* A server that is pinged gets a slot of its own.
LEMMA PingKeeps ==
    ASSUME IInv, NEW s \in Servers, Ping(s)
    PROVE  IInv'
  <1>. DEFINE i == Min(FreeSlots)
  <1>1. i \in Slots /\ ~Used(i)
    <2>1. i \in FreeSlots
      BY FirstSlot DEF Ping, FreeSlots
    <2>. QED  BY <2>1 DEF FreeSlots
  <1>2. slot' = [slot EXCEPT ![i] = [@ EXCEPT !.adr = s, !.age = 0, !.time = 0]]
    BY DEF Ping
  <1>. HIDE DEF i
  <1>3. /\ pc = "ask" /\ idx = s /\ Step(NumServers, "collect")
        /\ server[s].ping = Unasked
        /\ \A j \in Slots : slot[j].adr # s
        /\ UNCHANGED <<sinceScan, server, status, asked, heard, got>>
    BY DEF Ping, ToBePinged
  <1>4. /\ slot'[i].adr = s /\ slot'[i].time = 0
        /\ \A j \in Slots : j # i => slot'[j] = slot[j]
    BY <1>1, <1>2 DEF IInv, TypeOK
  <1>5. /\ \/ pc' = "ask" /\ idx' \in Servers
           \/ pc' = "collect" /\ idx' = 1
        /\ 1 \in Slots
    BY <1>3, ServersStep
  <1>6. TypeOK'
    <2>1. slot' \in [Slots -> SlotRecords]
      <3>. DEFINE v == [slot[i] EXCEPT !.adr = s, !.age = 0, !.time = 0]
      <3>1. slot[i] \in SlotRecords
        BY <1>1 DEF IInv, TypeOK
      <3>2. v \in SlotRecords
        <4>1. 0 \in 0 .. MaxPing + MaxSleep
          BY Numbers
        <4>. QED  BY <3>1, <4>1
      <3>3. slot' = [slot EXCEPT ![i] = v]
        BY <1>2
      <3>. HIDE DEF v
      <3>. QED  BY <1>1, <3>2, <3>3 DEF IInv, TypeOK
    <2>. QED  BY <1>3, <1>5, <2>1 DEF IInv, TypeOK
  <1>7. AnswerIsKept'
    <2>. SUFFICES ASSUME got # Nobody PROVE AnswerIsKept'
      BY <1>3 DEF AnswerIsKept
    <2>1. PICK j \in Slots : slot[j].adr = got /\ slot[j].time > 0
      BY <1>3 DEF IInv, AnswerIsKept
    <2>2. j # i
      BY <1>1, <2>1 DEF Used
    <2>. QED
      BY <1>3, <1>4, <1>5, <2>1, <2>2 DEF IInv, AnswerIsKept
  <1>8. \A j \in Slots : ~Collected(j)' /\ ~Aged(j)'
    BY <1>5, Numbers DEF Collected, Aged, Slots
  <1>9. AskedOnce'
    BY <1>1, <1>3, <1>4 DEF IInv, AskedOnce, Used
  <1>10. AnswersAreNew'
    BY <1>3, <1>4, <1>8 DEF IInv, AnswersAreNew, Used
  <1>. QED
    BY <1>3, <1>5, <1>6, <1>7, <1>8, <1>9, <1>10
    DEF IInv, IndexInLoop, InfoIsOwn, PingIsFresh, WaitsAreShort

LEMMA PassServerKeeps ==
    ASSUME IInv, PassServer
    PROVE  IInv'
  <1>1. /\ pc = "ask" /\ Step(NumServers, "collect")
        /\ UNCHANGED <<sinceScan, server, slot, status, asked, heard, got>>
    BY DEF PassServer
  <1>2. /\ \/ pc' = "ask" /\ idx' \in Servers
           \/ pc' = "collect" /\ idx' = 1
        /\ 1 \in Slots
    BY <1>1, ServersStep DEF IInv, IndexInLoop
  <1>3. TypeOK'
    BY <1>1, <1>2 DEF IInv, TypeOK
  <1>4. \A j \in Slots : ~Collected(j)' /\ ~Aged(j)'
    BY <1>2, Numbers DEF Collected, Aged, Slots
  <1>5. AnswerIsKept'
    BY <1>1, <1>2 DEF IInv, AnswerIsKept
  <1>. QED
    BY <1>1, <1>2, <1>3, <1>4, <1>5
    DEF IInv, IndexInLoop, AskedOnce, InfoIsOwn, PingIsFresh, AnswersAreNew,
        WaitsAreShort, Used

\* What the loop over the slots has passed once it has looked at slot idx.
LEMMA CollectStep ==
    ASSUME IInv, pc = "collect", Step(NumSlots, "find")
    PROVE  /\ pc' \in {"collect", "find"}
           /\ idx' \in Servers \cup Slots
           /\ IndexInLoop'
           /\ \A j \in Slots : Collected(j)' <=> Collected(j) \/ j = idx
           /\ \A j \in Slots : Aged(j)' <=> Aged(j) \/ j = idx
           /\ idx \in Slots
           /\ pc' = "find" => \A j \in Slots : Collected(j) \/ j = idx
  <1>1. idx \in 1 .. NumSlots
    BY DEF IInv, IndexInLoop, Slots
  <1>2. \/ idx < NumSlots /\ pc' = pc /\ idx' = idx + 1
        \/ idx = NumSlots /\ pc' = "find" /\ idx' = 1
    BY <1>1, StepFacts, Numbers
  <1>. QED
    BY <1>1, <1>2, Numbers DEF IndexInLoop, Collected, Aged, Slots, Servers

\* The ping and, once it is settled, the info of slot idx go to its server.
LEMMA CollectKeeps ==
    ASSUME IInv, Collect
    PROVE  IInv'
  <1>. DEFINE s == slot[idx].adr
  <1>1. /\ pc = "collect" /\ Used(idx) /\ Step(NumSlots, "find")
        /\ server' = [server EXCEPT ![s].ping = slot[idx].time,
                                    ![s].info = IF Settled(idx) THEN slot[idx].info ELSE @]
        /\ slot' = IF Settled(idx) THEN [slot EXCEPT ![idx].adr = Nobody] ELSE slot
        /\ UNCHANGED <<sinceScan, status, asked, heard, got>>
    BY DEF Collect, Noted
  <1>2. idx \in Slots /\ s \in Servers
    BY <1>1, CollectStep DEF IInv, TypeOK, Used
  <1>3. /\ server'[s].ping = slot[idx].time
        /\ Settled(idx) => server'[s].info = slot[idx].info
        /\ \A t \in Servers \ {s} : server'[t] = server[t]
    BY <1>1, <1>2 DEF IInv, TypeOK
  <1>4. /\ \A j \in Slots \ {idx} : slot'[j] = slot[j]
        /\ Settled(idx) => slot'[idx].adr = Nobody
        /\ ~Settled(idx) => slot' = slot
    BY <1>1, <1>2 DEF IInv, TypeOK
  <1>5. slot[idx].time > 0 => Settled(idx) /\ slot[idx].info.of = s /\ s = got /\ s # Nobody
    BY <1>1, <1>2 DEF Settled, IInv, AnswersAreNew, Used
  <1>6. slot[idx].time \in {0, 1}
    BY <1>2 DEF IInv, TypeOK
  <1>7. TypeOK'
    <2>1. slot' \in [Slots -> SlotRecords]
      BY <1>1, <1>2 DEF IInv, TypeOK
    <2>2. server' \in [Servers -> [ping : {Unasked, 0, 1}, info : Infos]]
      <3>. DEFINE info == IF Settled(idx) THEN slot[idx].info ELSE server[s].info
      <3>1. info \in Infos
        BY <1>2 DEF IInv, TypeOK
      <3>. HIDE DEF info
      <3>2. server' = [server EXCEPT ![s].ping = slot[idx].time, ![s].info = info]
        BY <1>1 DEF info
      <3>3. server \in [Servers -> [ping : {Unasked, 0, 1}, info : Infos]]
        BY DEF IInv, TypeOK
      <3>4. slot[idx].time \in {Unasked, 0, 1}
        BY <1>6
      <3>. QED  BY <1>2, <3>1, <3>2, <3>3, <3>4, ServerReplaced
    <2>. QED  BY <1>1, CollectStep, <2>1, <2>2 DEF IInv, TypeOK
  <1>. HIDE DEF s
  <1>8. InfoIsOwn' /\ PingIsFresh'
    BY <1>1, <1>2, <1>3, <1>5, <1>6 DEF IInv, InfoIsOwn, PingIsFresh, AnswerIsKept
  <1>9. AskedOnce'
    BY <1>2, <1>4 DEF IInv, AskedOnce, Used
  <1>10. \A j \in Slots : Used(j)' => Used(j) /\ slot'[j] = slot[j]
    BY <1>2, <1>4 DEF Used
  <1>11. \A j \in Slots : Used(j)' => j # idx \/ ~Settled(j)
    BY <1>4 DEF Used
  <1>12. AnswersAreNew'
    <2>1. \A j \in Slots : slot[j].time > 0 => Settled(j)
      BY DEF Settled
    <2>. QED
      BY <1>1, <1>10, <1>11, <2>1, CollectStep DEF IInv, AnswersAreNew
  <1>13. WaitsAreShort'
    <2>1. \A j \in Slots : ~Settled(j) => slot[j].age < MaxPing
      BY Numbers DEF Settled, TimedOut, IInv, TypeOK
    <2>. QED
      BY <1>1, <1>10, <1>11, <2>1, CollectStep DEF IInv, WaitsAreShort
  <1>14. AnswerIsKept'
    <2>. SUFFICES ASSUME got # Nobody PROVE AnswerIsKept'
      BY <1>1 DEF AnswerIsKept
    <2>1. got \in heard' /\ got' = got
      BY <1>1 DEF IInv, AnswerIsKept
    <2>2. CASE s = got /\ slot[idx].time > 0
      <3>1. \A j \in Slots : slot'[j].adr # got
        BY <1>1, <1>2, <1>4, <1>5, <2>2 DEF IInv, AskedOnce, Used, s
      <3>. QED
        BY <1>1, <1>3, <2>1, <2>2, <3>1, CollectStep DEF AnswerIsKept
    <2>3. CASE ~(s = got /\ slot[idx].time > 0)
      <3>1. CASE \E j \in Slots : slot[j].adr = got /\ slot[j].time > 0
        <4>1. PICK j \in Slots : slot[j].adr = got /\ slot[j].time > 0
          BY <3>1
        <4>2. j # idx
          BY <2>3, <4>1 DEF s
        <4>3. slot'[j] = slot[j]
          BY <1>4, <4>2
        <4>4. ~Collected(j)
          BY <4>1 DEF IInv, AnswersAreNew, Used
        <4>. QED
          BY <1>1, <2>1, <4>1, <4>2, <4>3, <4>4, CollectStep DEF AnswerIsKept
      <3>2. CASE server[got].ping > 0 /\ \A j \in Slots : slot[j].adr # got
        <4>1. got # s /\ got \in Servers
          BY <1>2, <3>2 DEF s, IInv, TypeOK
        <4>2. server'[got] = server[got]
          BY <1>3, <4>1
        <4>3. \A j \in Slots : slot'[j].adr # got
          BY <1>4, <3>2, <1>2
        <4>. QED
          BY <1>1, <2>1, <3>2, <4>2, <4>3, CollectStep DEF AnswerIsKept
      <3>. QED  BY <1>1, <3>1, <3>2 DEF IInv, AnswerIsKept
    <2>. QED  BY <2>2, <2>3
  <1>. QED
    BY <1>1, <1>7, <1>8, <1>9, <1>12, <1>13, <1>14, CollectStep DEF IInv

LEMMA CollectNothingKeeps ==
    ASSUME IInv, CollectNothing
    PROVE  IInv'
  <1>1. /\ pc = "collect" /\ ~Used(idx) /\ Step(NumSlots, "find")
        /\ UNCHANGED <<sinceScan, server, slot, status, asked, heard, got>>
    BY DEF CollectNothing
  <1>2. TypeOK'
    BY <1>1, CollectStep DEF IInv, TypeOK
  <1>3. AnswersAreNew' /\ WaitsAreShort'
    BY <1>1, CollectStep DEF IInv, AnswersAreNew, WaitsAreShort, Used
  <1>4. AnswerIsKept'
    <2>. SUFFICES ASSUME got # Nobody PROVE AnswerIsKept'
      BY <1>1 DEF AnswerIsKept
    <2>1. \A j \in Slots : slot[j].adr = got /\ slot[j].time > 0
              => ~Collected(j) /\ j # idx
      BY <1>1 DEF IInv, AnswersAreNew, Used
    <2>. QED
      BY <1>1, <2>1, CollectStep DEF IInv, AnswerIsKept
  <1>. QED
    BY <1>1, <1>2, <1>3, <1>4, CollectStep
    DEF IInv, AskedOnce, InfoIsOwn, PingIsFresh, Used

\* Judging servers and asking for statuses leaves pings and slots alone.
LEMMA FindKeeps ==
    ASSUME IInv, pc = "find", Step(NumServers, "sleep"),
           status' \in [Servers -> StatusRecords],
           asked' \subseteq Servers,
           UNCHANGED <<sinceScan, server, slot, heard, got>>
    PROVE  IInv'
  <1>1. \/ pc' = "find" /\ idx' \in Servers
        \/ pc' = "sleep" /\ idx' = 1
    BY ServersStep DEF IInv, IndexInLoop
  <1>2. TypeOK'
    <2>1. idx' \in Servers
      BY <1>1, Numbers DEF Servers
    <2>. QED  BY <1>1, <2>1 DEF IInv, TypeOK
  <1>3. \A j \in Slots : (Collected(j)' <=> Collected(j)) /\ (Aged(j)' <=> Aged(j))
    BY <1>1 DEF Collected, Aged
  <1>. QED
    BY <1>1, <1>2, <1>3
    DEF IInv, IndexInLoop, AskedOnce, InfoIsOwn, PingIsFresh, AnswersAreNew,
        WaitsAreShort, AnswerIsKept, Used

LEMMA AskStatusKeeps ==
    ASSUME IInv, NEW s \in Servers, AskStatus(s)
    PROVE  IInv'
  <1>. DEFINE States == {"none", "pending", "answered"}  Ages == 0 .. StatusPeriod + 1
  <1>1. status' \in [Servers -> [state : States, age : Ages]]
    <2>1. status' = Refreshed(status, s)
      BY DEF AskStatus, Refreshed
    <2>2. status \in [Servers -> [state : States, age : Ages]]
      BY DEF IInv, TypeOK
    <2>3. "pending" \in States /\ 0 \in Ages
      BY Numbers
    <2>. HIDE DEF States, Ages
    <2>4. Refreshed(status, s) \in [Servers -> [state : States, age : Ages]]
      BY <2>2, <2>3, StatusPending
    <2>. QED  BY <2>1, <2>4
  <1>2. asked' \subseteq Servers
    BY DEF AskStatus, IInv, TypeOK
  <1>. QED  BY <1>1, <1>2, FindKeeps DEF AskStatus

LEMMA JudgeKeeps ==
    ASSUME IInv, Judge
    PROVE  IInv'
  BY FindKeeps DEF Judge, IInv, TypeOK

\* The slots in use are waited for, none of them for longer than MaxPing.
LEMMA SleepKeeps ==
    ASSUME IInv, NEW d \in 0 .. MaxSleep, NET_Sleep(d)
    PROVE  IInv'
  <1>1. /\ pc = "sleep" /\ pc' = "poll" /\ idx' = 1 /\ 1 \in Servers
        /\ UNCHANGED <<server, asked, heard, got>>
    BY Numbers DEF NET_Sleep, IInv, IndexInLoop, Servers
  <1>2. \A i \in Slots :
            /\ slot[i] \in SlotRecords
            /\ Used(i) => slot[i].age < MaxPing
    BY <1>1 DEF IInv, TypeOK, WaitsAreShort, Aged
  <1>3. \A i \in Slots :
            slot'[i] = [slot[i] EXCEPT !.age = IF Used(i) THEN @ + d ELSE 0]
    BY DEF NET_Sleep
  <1>4. \A i \in Slots : slot'[i].adr = slot[i].adr /\ slot'[i].time = slot[i].time
                             /\ slot'[i].info = slot[i].info
    BY <1>2, <1>3
  <1>5. TypeOK'
    <2>1. slot' \in [Slots -> SlotRecords]
      <3>1. \A i \in Slots : (IF Used(i) THEN slot[i].age + d ELSE 0) \in 0 .. MaxPing + MaxSleep
        BY <1>2, Numbers
      <3>. QED  BY <1>2, <3>1 DEF NET_Sleep
    <2>2. status' \in [Servers -> StatusRecords]
      BY Numbers DEF NET_Sleep, IInv, TypeOK, AtMost
    <2>3. sinceScan' \in 0 .. ScanPeriod + 1
      BY Numbers DEF NET_Sleep, IInv, TypeOK, AtMost
    <2>. QED  BY <1>1, <2>1, <2>2, <2>3 DEF IInv, TypeOK
  <1>6. \A i \in Slots : Collected(i) /\ Collected(i)' /\ ~Aged(i)'
    BY <1>1 DEF Collected, Aged
  <1>. QED
    BY <1>1, <1>4, <1>5, <1>6
    DEF IInv, IndexInLoop, AskedOnce, InfoIsOwn, PingIsFresh, AnswersAreNew,
        WaitsAreShort, AnswerIsKept, Used

LEMMA InvNext == IInv /\ [Next]_vars => IInv'
  <1>. SUFFICES ASSUME IInv, [Next]_vars PROVE IInv'
    OBVIOUS
  <1>1. CASE UNCHANGED vars
    BY <1>1
    DEF vars, browser, IInv, TypeOK, IndexInLoop, AskedOnce, InfoIsOwn, PingIsFresh,
        AnswersAreNew, WaitsAreShort, AnswerIsKept, Used, Collected, Aged
  <1>. QED
    BY <1>1, ReadInfoKeeps, ReadStatusKeeps, ReadNothingKeeps, ScanKeeps, NoScanKeeps,
       PingKeeps, PassServerKeeps, CollectKeeps, CollectNothingKeeps, AskStatusKeeps,
       JudgeKeeps, SleepKeeps
    DEF Next

LEMMA Inductive == Spec => []IInv
  BY InvInit, InvNext, PTL DEF Spec

(***************************************************************************)
(* The theorems.                                                           *)
(***************************************************************************)

\* Type correctness, of which the age of a slot is the part that needs the rest:
\* a slot is looked at in every turn, so it waits no longer than MaxPing and
\* one sleep (CL_GetPing).
THEOREM TypeCorrect == Spec => []TypeOK
  <1>1. IInv => TypeOK
    BY DEF IInv
  <1>. QED  BY <1>1, Inductive, PTL

\* Whatever answers come when, and whoever had the slot before, a server that
\* has a ping shows an info it sent itself (CL_GetPing, CL_ServerInfoPacket).
THEOREM InfosAreOwn == Spec => []InfoIsOwn
  <1>1. IInv => InfoIsOwn
    BY DEF IInv
  <1>. QED  BY <1>1, Inductive, PTL

\* No server is judged by an info of an earlier scan (FindPopulatedServers).
THEOREM PingsAreFresh == Spec => []PingIsFresh
  <1>1. IInv => PingIsFresh
    BY DEF IInv
  <1>. QED  BY <1>1, Inductive, PTL

\* The answer of a turn is judged in that turn, whether or not a scan begins
\* between the two (CL_UpdateVisiblePings_f after the scan, main).
THEOREM NoAnswersAreLost == Spec => []NoAnswerLost
  <1>1. IInv => NoAnswerLost
    BY DEF IInv, AnswerIsKept, NoAnswerLost
  <1>. QED  BY <1>1, Inductive, PTL

\* However many scans go by while pings are waited for, no two slots are a
\* server's (CL_UpdateVisiblePings_f looks for its address in all of them).
THEOREM AskedOnlyOnce == Spec => []AskedOnce
  <1>1. IInv => AskedOnce
    BY DEF IInv
  <1>. QED  BY <1>1, Inductive, PTL
=============================================================================
