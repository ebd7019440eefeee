------------------------- MODULE LaunchedServersProofs -------------------------
(***************************************************************************)
(* The invariants of LaunchedServers hold for any number of servers, any   *)
(* set of process ids and a table of any size.                             *)
(***************************************************************************)
EXTENDS LaunchedServers, SequenceTheorems, TLAPS

(***************************************************************************)
(* The inductive invariant.                                                *)
(***************************************************************************)

\* The loops are at an entry, or just behind the last, and at a server.
IndexInLoop ==
    /\ pc = "sweep" => idx \in 1 .. Len(launched) + 1
    /\ pc = "find" => idx \in Servers

\* No process is started during a sweep.
ExitedStayExited == pc = "sweep" => \A p \in exited : ~Running(p)

\* A server has one entry at most.
EntriesDiffer ==
    \A i, j \in 1 .. Len(launched) : launched[i].srv = launched[j].srv => i = j

\* A running bot has an entry with its own server.  There may be another one
\* with its process id, of a bot that a failed fork's entry has reaped.
HasOwnEntry(p) ==
    \E i \in 1 .. Len(launched) : launched[i].pid = p /\ launched[i].srv = home[p]

RunningHaveEntries == \A p \in Pids \ removed : Running(p) => HasOwnEntry(p)

IInv ==
    /\ TypeOK
    /\ IndexInLoop
    /\ ExitedStayExited
    /\ SweepIsComplete
    /\ EntriesDiffer
    /\ RunningHaveEntries

LEMMA Numbers ==
    /\ NumServers \in Nat \ {0} /\ MaxLaunched \in Nat /\ MaxHumans \in Nat
    /\ \A p \in Pids : p \in Nat \ {0} /\ p # Failed
  BY NumServersAssumption, PidsAssumption, LimitsAssumption DEF Failed

\* The memmove of RemoveServer and ClearDisconnectedServers: the entries behind
\* the one that goes move up.
LEMMA RemovedFacts ==
    ASSUME NEW S, NEW s \in Seq(S), NEW i \in 1 .. Len(s)
    PROVE  /\ RemoveAt(s, i) \in Seq(S)
           /\ Len(RemoveAt(s, i)) = Len(s) - 1
           /\ \A j \in 1 .. Len(s) - 1 :
                  RemoveAt(s, i)[j] = IF j < i THEN s[j] ELSE s[j + 1]
  <1>. DEFINE front == SubSeq(s, 1, i - 1)  back == SubSeq(s, i + 1, Len(s))
  <1>1. Len(s) \in Nat /\ i \in Nat /\ 1 <= i /\ i <= Len(s)
    BY LenProperties
  <1>2. \A j \in 1 .. Len(s) : s[j] \in S
    BY ElementOfSeq
  <1>3. /\ front \in Seq(S) /\ Len(front) = i - 1
        /\ \A j \in 1 .. i - 1 : front[j] = s[j]
    <2>1. \A j \in 1 .. i - 1 : s[j] \in S
      BY <1>1, <1>2
    <2>. QED  BY <1>1, <2>1, SubSeqProperties
  <1>4. /\ back \in Seq(S) /\ Len(back) = Len(s) - i
        /\ \A j \in 1 .. Len(s) - i : back[j] = s[i + j]
    <2>1. \A j \in i + 1 .. Len(s) : s[j] \in S
      BY <1>1, <1>2
    <2>2. /\ back \in Seq(S)
          /\ Len(back) = IF i + 1 <= Len(s) THEN Len(s) - (i + 1) + 1 ELSE 0
          /\ \A j \in 1 .. Len(s) - (i + 1) + 1 : back[j] = s[i + 1 + j - 1]
      BY <1>1, <2>1, SubSeqProperties
    <2>. QED  BY <1>1, <2>2
  <1>. HIDE DEF front, back
  <1>5. /\ front \o back \in Seq(S)
        /\ Len(front \o back) = Len(s) - 1
        /\ \A j \in 1 .. Len(s) - 1 :
               (front \o back)[j] = IF j < i THEN s[j] ELSE s[j + 1]
    <2>1. /\ front \o back \in Seq(S)
          /\ Len(front \o back) = Len(front) + Len(back)
          /\ \A j \in 1 .. Len(front) + Len(back) :
                 (front \o back)[j] = IF j <= Len(front) THEN front[j]
                                      ELSE back[j - Len(front)]
      BY <1>3, <1>4, ConcatProperties
    <2>2. Len(front) + Len(back) = Len(s) - 1
      BY <1>1, <1>3, <1>4
    <2>3. ASSUME NEW j \in 1 .. Len(s) - 1, j < i
          PROVE  (front \o back)[j] = s[j]
      BY <1>1, <1>3, <2>1, <2>2, <2>3
    <2>4. ASSUME NEW j \in 1 .. Len(s) - 1, ~(j < i)
          PROVE  (front \o back)[j] = s[j + 1]
      <3>1. j - Len(front) \in 1 .. Len(s) - i /\ i + (j - Len(front)) = j + 1
        BY <1>1, <1>3, <2>4
      <3>2. ~(j <= Len(front))
        BY <1>1, <1>3, <2>4
      <3>. QED  BY <1>4, <2>1, <2>2, <3>1, <3>2
    <2>. QED  BY <2>1, <2>2, <2>3, <2>4
  <1>. QED  BY <1>5 DEF RemoveAt, front, back

\* The entries of a table from which entry i is taken out are old ones, in the
\* same order, and all of them but entry i.
LEMMA TableWithout ==
    ASSUME TypeOK, NEW i \in 1 .. Len(launched), launched' = RemoveAt(launched, i)
    PROVE  /\ launched' \in Seq(Entries) /\ Len(launched') <= MaxLaunched
           /\ Len(launched') = Len(launched) - 1
           /\ Len(launched) \in Nat
           /\ \A j \in 1 .. Len(launched') :
                  \/ j < i /\ j \in 1 .. Len(launched) /\ launched'[j] = launched[j]
                  \/ /\ j >= i /\ j + 1 \in 1 .. Len(launched)
                     /\ launched'[j] = launched[j + 1]
           /\ \A k \in 1 .. Len(launched) : k # i =>
                  \E j \in 1 .. Len(launched') : launched'[j] = launched[k]
  <1>. DEFINE t == RemoveAt(launched, i)
  <1>1. /\ t \in Seq(Entries) /\ Len(t) = Len(launched) - 1
        /\ \A j \in 1 .. Len(launched) - 1 :
               t[j] = IF j < i THEN launched[j] ELSE launched[j + 1]
    BY RemovedFacts DEF TypeOK
  <1>2. Len(launched) \in Nat /\ i \in Nat
    BY LenProperties DEF TypeOK
  <1>. HIDE DEF t
  <1>3. \A k \in 1 .. Len(launched) : k # i =>
            \E j \in 1 .. Len(t) : t[j] = launched[k]
    <2>. SUFFICES ASSUME NEW k \in 1 .. Len(launched), k # i
                  PROVE  \E j \in 1 .. Len(t) : t[j] = launched[k]
      OBVIOUS
    <2>1. CASE k < i
      BY <1>1, <1>2, <2>1
    <2>2. CASE k > i
      <3>1. k - 1 \in 1 .. Len(launched) - 1 /\ ~(k - 1 < i) /\ (k - 1) + 1 = k
        BY <1>2, <2>2
      <3>. QED  BY <1>1, <3>1
    <2>. QED  BY <1>2, <2>1, <2>2
  <1>4. \A j \in 1 .. Len(t) :
            \/ j < i /\ j \in 1 .. Len(launched) /\ t[j] = launched[j]
            \/ j >= i /\ j + 1 \in 1 .. Len(launched) /\ t[j] = launched[j + 1]
    BY <1>1, <1>2
  <1>. QED  BY <1>1, <1>2, <1>3, <1>4, Numbers DEF TypeOK, t

LEMMA RemovalKeepsEntriesDiffer ==
    ASSUME TypeOK, EntriesDiffer, NEW i \in 1 .. Len(launched),
           launched' = RemoveAt(launched, i)
    PROVE  EntriesDiffer'
  <1>. SUFFICES ASSUME NEW j \in 1 .. Len(launched'), NEW k \in 1 .. Len(launched'),
                       launched'[j].srv = launched'[k].srv
                PROVE  j = k
    BY DEF EntriesDiffer
  <1>1. /\ \/ j < i /\ j \in 1 .. Len(launched) /\ launched'[j] = launched[j]
           \/ j >= i /\ j + 1 \in 1 .. Len(launched) /\ launched'[j] = launched[j + 1]
        /\ \/ k < i /\ k \in 1 .. Len(launched) /\ launched'[k] = launched[k]
           \/ k >= i /\ k + 1 \in 1 .. Len(launched) /\ launched'[k] = launched[k + 1]
        /\ Len(launched) \in Nat /\ Len(launched') = Len(launched) - 1
    BY TableWithout
  <1>. QED  BY <1>1 DEF EntriesDiffer

LEMMA InvInit == Init => IInv
  <1>. SUFFICES ASSUME Init PROVE IInv
    OBVIOUS
  <1>1. Len(launched) = 0 /\ launched \in Seq(Entries)
    BY EmptySeq DEF Init
  <1>2. TypeOK
    BY <1>1, Numbers DEF Init, TypeOK, Servers, Unknown
  <1>. QED
    BY <1>1, <1>2
    DEF Init, IInv, IndexInLoop, ExitedStayExited, SweepIsComplete, EntriesDiffer,
        RunningHaveEntries, Running

\* The first three actions begin a turn with an answer, nothing or a new scan.
LEMMA StartSweepKeeps ==
    ASSUME IInv, StartSweep, seen' \in [Servers -> {Unknown} \cup 0 .. MaxHumans]
    PROVE  IInv'
  <1>1. /\ pc' = "sweep" /\ idx' = 1
        /\ exited' = {p \in Pids : proc[p] = "dead" /\ Tracked(p)}
        /\ UNCHANGED <<launched, proc, home, removed>>
    BY DEF StartSweep, processes
  <1>2. TypeOK'
    BY <1>1 DEF IInv, TypeOK
  <1>3. Len(launched) \in Nat
    BY LenProperties DEF IInv, TypeOK
  <1>4. IndexInLoop' /\ SweepIsComplete'
    BY <1>1, <1>3 DEF IndexInLoop, SweepIsComplete
  <1>. QED
    BY <1>1, <1>2, <1>4
    DEF IInv, ExitedStayExited, EntriesDiffer, RunningHaveEntries, HasOwnEntry, Running

LEMMA PollKeeps ==
    ASSUME IInv, PollAnswer \/ PollNothing \/ PollRescan
    PROVE  IInv'
  <1>1. StartSweep
    BY DEF PollAnswer, PollNothing, PollRescan
  <1>2. seen' \in [Servers -> {Unknown} \cup 0 .. MaxHumans]
    BY DEF PollAnswer, PollNothing, PollRescan, IInv, TypeOK
  <1>. QED  BY <1>1, <1>2, StartSweepKeeps

\* An entry that is kept is that of a running bot, or of a failed fork.
LEMMA KeptIsNotExited ==
    ASSUME IInv, pc = "sweep", NEW i \in 1 .. Len(launched), KeepEntry(launched[i].pid)
    PROVE  launched[i].pid \notin exited
  <1>1. launched[i].pid \in Pids \cup {Failed}
    <2>1. launched[i] \in Entries
      BY ElementOfSeq DEF IInv, TypeOK
    <2>. QED  BY <2>1 DEF Entries
  <1>2. launched[i].pid \in Pids => proc[launched[i].pid] \notin {"free", "dead"}
    BY <1>1, Numbers
    DEF KeepEntry, Waitable, Reapable, Children, Zombies
  <1>3. \A p \in exited : p \in Pids /\ proc[p] \in {"free", "dead"}
    BY DEF IInv, TypeOK, ExitedStayExited, Running
  <1>. QED  BY <1>2, <1>3

LEMMA SweepKeepKeeps ==
    ASSUME IInv, SweepKeep
    PROVE  IInv'
  <1>1. /\ pc = "sweep" /\ pc' = "sweep" /\ idx' = idx + 1 /\ idx <= Len(launched)
        /\ KeepEntry(launched[idx].pid)
        /\ UNCHANGED <<seen, launched, proc, home, exited, removed>>
    BY DEF SweepKeep, processes
  <1>2. Len(launched) \in Nat /\ idx \in 1 .. Len(launched)
    BY <1>1, LenProperties DEF IInv, TypeOK, IndexInLoop
  <1>3. TypeOK' /\ IndexInLoop'
    BY <1>1, <1>2 DEF IInv, TypeOK, IndexInLoop
  <1>4. SweepIsComplete'
    <2>1. launched[idx].pid \notin exited
      BY <1>1, <1>2, KeptIsNotExited
    <2>. QED  BY <1>1, <1>2, <2>1 DEF IInv, SweepIsComplete
  <1>. QED
    BY <1>1, <1>3, <1>4
    DEF IInv, ExitedStayExited, EntriesDiffer, RunningHaveEntries, HasOwnEntry, Running

\* The entry of a running bot is not taken out, nor is its process reaped.
LEMMA SweepRemoveKeeps ==
    ASSUME IInv, SweepRemove
    PROVE  IInv'
  <1>. DEFINE pid == launched[idx].pid
  <1>1. /\ pc = "sweep" /\ pc' = "sweep" /\ idx' = idx /\ idx <= Len(launched)
        /\ ~KeepEntry(pid)
        /\ launched' = RemoveAt(launched, idx)
        /\ removed' = {p \in removed : proc'[p] # "free"}
        /\ UNCHANGED <<seen, exited>>
    BY DEF SweepRemove, AfterRemoval
  <1>2. Len(launched) \in Nat /\ idx \in 1 .. Len(launched)
    BY <1>1, LenProperties DEF IInv, TypeOK, IndexInLoop
  <1>3. /\ proc' \in [Pids -> {"free", "running", "dead"}]
        /\ home' \in [Pids -> Servers]
        /\ \A p \in Pids :
               \/ proc'[p] = proc[p] /\ home'[p] = home[p]
               \/ proc[p] = "dead" /\ proc'[p] = "free"
    <2>1. CASE UNCHANGED processes
      BY <2>1 DEF processes, IInv, TypeOK
    <2>2. ASSUME NEW z \in Reapable(pid),
                 proc' = [proc EXCEPT ![z] = "free"], home' = [home EXCEPT ![z] = 1]
          PROVE  <1>3!:
      <3>1. z \in Pids /\ proc[z] = "dead" /\ 1 \in Servers
        BY Numbers DEF Reapable, Zombies, Servers
      <3>. QED  BY <2>2, <3>1 DEF IInv, TypeOK
    <2>. QED  BY <2>1, <2>2 DEF SweepRemove
  <1>4. \A p \in Pids : Running(p) => pid # p
    <2>. SUFFICES ASSUME NEW p \in Pids, Running(p), pid = p PROVE FALSE
      OBVIOUS
    <2>. QED
      BY <1>1, Numbers
      DEF KeepEntry, Waitable, Reapable, Children, Zombies, Running
  <1>. HIDE DEF pid
  <1>5. TypeOK' /\ IndexInLoop'
    <2>1. /\ launched' \in Seq(Entries) /\ Len(launched') <= MaxLaunched
          /\ Len(launched') = Len(launched) - 1
      BY <1>1, <1>2, TableWithout DEF IInv
    <2>. QED  BY <1>1, <1>2, <1>3, <2>1 DEF IInv, TypeOK, IndexInLoop
  <1>6. \A p \in Pids : Running(p)' => Running(p) /\ home'[p] = home[p]
    BY <1>3 DEF Running
  <1>7. ExitedStayExited'
    BY <1>1, <1>6 DEF IInv, TypeOK, ExitedStayExited
  <1>8. SweepIsComplete'
    <2>. SUFFICES ASSUME NEW j \in 1 .. Len(launched'), j < idx
                  PROVE  launched'[j].pid \notin exited
      BY <1>1 DEF SweepIsComplete
    <2>1. j \in 1 .. Len(launched) /\ launched'[j] = launched[j]
      BY <1>1, <1>2, TableWithout DEF IInv
    <2>. QED  BY <1>1, <2>1 DEF IInv, SweepIsComplete
  <1>9. EntriesDiffer'
    BY <1>1, <1>2, RemovalKeepsEntriesDiffer DEF IInv
  <1>10. RunningHaveEntries'
    <2>. SUFFICES ASSUME NEW p \in Pids, p \notin removed', Running(p)'
                  PROVE  HasOwnEntry(p)'
      BY DEF RunningHaveEntries
    <2>1. Running(p) /\ home'[p] = home[p] /\ p \notin removed
      BY <1>1, <1>6 DEF Running
    <2>2. PICK k \in 1 .. Len(launched) :
              launched[k].pid = p /\ launched[k].srv = home[p]
      BY <2>1 DEF IInv, RunningHaveEntries, HasOwnEntry
    <2>3. k # idx
      BY <1>4, <2>1, <2>2 DEF pid
    <2>4. PICK j \in 1 .. Len(launched') : launched'[j] = launched[k]
      BY <1>1, <1>2, <2>3, TableWithout DEF IInv
    <2>. QED  BY <2>1, <2>2, <2>4 DEF HasOwnEntry
  <1>. QED  BY <1>5, <1>7, <1>8, <1>9, <1>10 DEF IInv

LEMMA SweepDoneKeeps ==
    ASSUME IInv, SweepDone
    PROVE  IInv'
  <1>1. /\ pc' = "find" /\ idx' = 1 /\ exited' = {} /\ 1 \in Servers
        /\ UNCHANGED <<seen, launched, proc, home, removed>>
    BY Numbers DEF SweepDone, processes, Servers
  <1>2. TypeOK'
    BY <1>1 DEF IInv, TypeOK
  <1>. QED
    BY <1>1, <1>2
    DEF IInv, IndexInLoop, ExitedStayExited, SweepIsComplete, EntriesDiffer,
        RunningHaveEntries, HasOwnEntry, Running

\* The search goes on with the next server, or the turn ends.
LEMMA NextServerFacts ==
    ASSUME IInv, pc = "find", NextServer
    PROVE  /\ idx \in Servers
           /\ pc' \in {"find", "poll"} /\ idx' \in Nat
           /\ IndexInLoop' /\ ExitedStayExited' /\ SweepIsComplete'
  BY Numbers
  DEF NextServer, Servers, IInv, TypeOK, IndexInLoop, ExitedStayExited, SweepIsComplete

\* One entry more, for a server that has none.
LEMMA AddedFacts ==
    ASSUME IInv, pc = "find", MayAdd(idx), NextServer, NEW pid \in Pids \cup {Failed},
           launched' = Append(launched, [srv |-> idx, pid |-> pid])
    PROVE  /\ launched' \in Seq(Entries) /\ Len(launched') <= MaxLaunched
           /\ EntriesDiffer'
           /\ \A i \in 1 .. Len(launched) :
                  i \in 1 .. Len(launched') /\ launched'[i] = launched[i]
           /\ \E i \in 1 .. Len(launched') : launched'[i] = [srv |-> idx, pid |-> pid]
  <1>. DEFINE e == [srv |-> idx, pid |-> pid]  n == Len(launched) + 1
  <1>1. e \in Entries /\ e.srv = idx
    BY NextServerFacts DEF Entries
  <1>2. /\ launched \in Seq(Entries) /\ Len(launched) \in Nat
        /\ Len(launched) < MaxLaunched /\ ~HasEntry(idx)
    BY LenProperties DEF IInv, TypeOK, MayAdd
  <1>. HIDE DEF e
  <1>3. /\ launched' \in Seq(Entries) /\ Len(launched') = n
        /\ \A i \in 1 .. Len(launched) : launched'[i] = launched[i]
        /\ launched'[n] = e
    <2>1. launched' = Append(launched, e)
      BY DEF e
    <2>. QED  BY <1>1, <1>2, <2>1, AppendProperties
  <1>4. EntriesDiffer'
    <2>. SUFFICES ASSUME NEW i \in 1 .. n, NEW j \in 1 .. n,
                         launched'[i].srv = launched'[j].srv
                  PROVE  i = j
      BY <1>3 DEF EntriesDiffer
    <2>1. \A k \in 1 .. Len(launched) : launched'[k].srv # idx
      BY <1>2, <1>3 DEF HasEntry
    <2>. QED
      BY <1>1, <1>2, <1>3, <2>1 DEF IInv, EntriesDiffer
  <1>. QED  BY <1>2, <1>3, <1>4, Numbers DEF e

LEMMA AddServerKeeps ==
    ASSUME IInv, AddServer
    PROVE  IInv'
  <1>1. PICK p \in Pids :
            /\ proc[p] = "free"
            /\ launched' = Append(launched, [srv |-> idx, pid |-> p])
            /\ proc' = [proc EXCEPT ![p] = "running"]
            /\ home' = [home EXCEPT ![p] = idx]
    BY DEF AddServer
  <1>2. /\ pc = "find" /\ MayAdd(idx) /\ NextServer
        /\ UNCHANGED <<seen, exited, removed>>
    BY DEF AddServer
  <1>3. /\ launched' \in Seq(Entries) /\ Len(launched') <= MaxLaunched
        /\ EntriesDiffer'
        /\ \A i \in 1 .. Len(launched) :
               i \in 1 .. Len(launched') /\ launched'[i] = launched[i]
        /\ \E i \in 1 .. Len(launched') : launched'[i] = [srv |-> idx, pid |-> p]
    BY <1>1, <1>2, AddedFacts
  <1>4. TypeOK'
    BY <1>1, <1>2, <1>3, NextServerFacts DEF IInv, TypeOK
  <1>5. RunningHaveEntries'
    <2>. SUFFICES ASSUME NEW q \in Pids, q \notin removed, Running(q)'
                  PROVE  HasOwnEntry(q)'
      BY <1>2 DEF RunningHaveEntries
    <2>1. CASE q = p
      BY <1>1, <1>3, <2>1 DEF HasOwnEntry, IInv, TypeOK
    <2>2. CASE q # p
      <3>1. Running(q) /\ home'[q] = home[q]
        BY <1>1, <2>2 DEF Running, IInv, TypeOK
      <3>. QED  BY <1>3, <3>1 DEF IInv, RunningHaveEntries, HasOwnEntry
    <2>. QED  BY <2>1, <2>2
  <1>. QED  BY <1>2, <1>3, <1>4, <1>5, NextServerFacts DEF IInv

LEMMA AddServerForkFailsKeeps ==
    ASSUME IInv, AddServerForkFails
    PROVE  IInv'
  <1>1. /\ pc = "find" /\ MayAdd(idx) /\ NextServer
        /\ launched' = Append(launched, [srv |-> idx, pid |-> Failed])
        /\ UNCHANGED <<seen, proc, home, exited, removed>>
    BY DEF AddServerForkFails, processes
  <1>2. /\ launched' \in Seq(Entries) /\ Len(launched') <= MaxLaunched
        /\ EntriesDiffer'
        /\ \A i \in 1 .. Len(launched) :
               i \in 1 .. Len(launched') /\ launched'[i] = launched[i]
    BY <1>1, AddedFacts
  <1>3. TypeOK'
    BY <1>1, <1>2, NextServerFacts DEF IInv, TypeOK
  <1>4. RunningHaveEntries'
    BY <1>1, <1>2 DEF IInv, RunningHaveEntries, HasOwnEntry, Running
  <1>. QED  BY <1>1, <1>2, <1>3, <1>4, NextServerFacts DEF IInv

\* The process whose entry goes is given up, or had already ended.
LEMMA RemoveServerKeeps ==
    ASSUME IInv, RemoveServer
    PROVE  IInv'
  <1>1. PICK i \in 1 .. Len(launched) :
            /\ launched' = RemoveAt(launched, i)
            /\ removed' = removed \cup ({launched[i].pid} \cap Children)
    BY DEF RemoveServer
  <1>2. /\ pc = "find" /\ NextServer
        /\ UNCHANGED <<seen, proc, home, exited>>
    BY DEF RemoveServer, processes
  <1>3. launched' \in Seq(Entries) /\ Len(launched') <= MaxLaunched
    BY <1>1, TableWithout DEF IInv
  <1>4. TypeOK'
    BY <1>1, <1>2, <1>3, NextServerFacts DEF IInv, TypeOK, Children
  <1>5. EntriesDiffer'
    BY <1>1, RemovalKeepsEntriesDiffer DEF IInv
  <1>6. RunningHaveEntries'
    <2>. SUFFICES ASSUME NEW p \in Pids, p \notin removed', Running(p)
                  PROVE  HasOwnEntry(p)'
      BY <1>2 DEF RunningHaveEntries, Running
    <2>1. PICK k \in 1 .. Len(launched) :
              launched[k].pid = p /\ launched[k].srv = home[p]
      BY <1>1 DEF IInv, RunningHaveEntries, HasOwnEntry
    <2>2. k # i
      BY <1>1, <2>1 DEF Children, Running
    <2>3. PICK j \in 1 .. Len(launched') : launched'[j] = launched[k]
      BY <1>1, <2>2, TableWithout DEF IInv
    <2>. QED  BY <1>2, <2>1, <2>3 DEF HasOwnEntry
  <1>. QED  BY <1>2, <1>4, <1>5, <1>6, NextServerFacts DEF IInv

LEMMA PassServerKeeps ==
    ASSUME IInv, PassServer
    PROVE  IInv'
  <1>1. /\ pc = "find" /\ NextServer
        /\ UNCHANGED <<seen, launched, proc, home, exited, removed>>
    BY DEF PassServer, processes
  <1>2. TypeOK'
    BY <1>1, NextServerFacts DEF IInv, TypeOK
  <1>. QED
    BY <1>1, <1>2, NextServerFacts
    DEF IInv, EntriesDiffer, RunningHaveEntries, HasOwnEntry, Running

LEMMA BotExitsKeeps ==
    ASSUME IInv, BotExits
    PROVE  IInv'
  <1>1. PICK p \in Pids : Running(p) /\ proc' = [proc EXCEPT ![p] = "dead"]
    BY DEF BotExits
  <1>2. UNCHANGED <<pc, idx, seen, launched, home, exited, removed>>
    BY DEF BotExits, scanner
  <1>3. \A q \in Pids : Running(q)' => Running(q)
    BY <1>1 DEF Running, IInv, TypeOK
  <1>4. TypeOK'
    BY <1>1, <1>2 DEF IInv, TypeOK
  <1>5. ExitedStayExited' /\ RunningHaveEntries'
    BY <1>2, <1>3
    DEF IInv, TypeOK, ExitedStayExited, RunningHaveEntries, HasOwnEntry
  <1>. QED
    BY <1>2, <1>4, <1>5 DEF IInv, IndexInLoop, SweepIsComplete, EntriesDiffer

LEMMA InvNext == IInv /\ [Next]_vars => IInv'
  <1>. SUFFICES ASSUME IInv, [Next]_vars PROVE IInv'
    OBVIOUS
  <1>1. CASE UNCHANGED vars
    BY <1>1
    DEF vars, scanner, processes, IInv, TypeOK, IndexInLoop, ExitedStayExited,
        SweepIsComplete, EntriesDiffer, RunningHaveEntries, HasOwnEntry, Running
  <1>. QED
    BY <1>1, PollKeeps, SweepKeepKeeps, SweepRemoveKeeps, SweepDoneKeeps, AddServerKeeps,
       AddServerForkFailsKeeps, RemoveServerKeeps, PassServerKeeps, BotExitsKeeps
    DEF Next, ScannerNext

LEMMA Inductive == Spec => []IInv
  BY InvInit, InvNext, PTL DEF Spec

(***************************************************************************)
(* The theorems.                                                           *)
(***************************************************************************)

\* Type correctness: the table never has more entries than launchedServers has
\* room for (AddServer), and each is a server's.
THEOREM TypeCorrect == Spec => []TypeOK
  <1>1. IInv => TypeOK
    BY DEF IInv
  <1>. QED  BY <1>1, Inductive, PTL

\* However bots exit while the table is walked and entries are taken out of it,
\* no entry of a bot that had exited is passed over (ClearDisconnectedServers).
THEOREM SweepsAreComplete == Spec => []SweepIsComplete
  <1>1. IInv => SweepIsComplete
    BY DEF IInv
  <1>. QED  BY <1>1, Inductive, PTL

\* The sweep loses no running bot, whichever child waitpid( -1 ) reaps for the
\* entry of a failed fork, and though process ids are used again.
THEOREM RunningAreTracked == Spec => []RunningIsTracked
  <1>1. IInv => RunningIsTracked
    BY DEF IInv, RunningHaveEntries, HasOwnEntry, RunningIsTracked, Tracked
  <1>. QED  BY <1>1, Inductive, PTL

\* A server gets a second bot only if RemoveServer has given up the first
\* (AddServer, RemoveServer, ClearDisconnectedServers).
THEOREM OneBotForEachServer == Spec => []OneBotPerServer
  <1>1. IInv => OneBotPerServer
    <2>. SUFFICES ASSUME IInv, NEW p \in Pids \ removed, NEW q \in Pids \ removed,
                         Running(p), Running(q), home[p] = home[q]
                  PROVE  p = q
      BY DEF OneBotPerServer
    <2>1. PICK i \in 1 .. Len(launched) :
              launched[i].pid = p /\ launched[i].srv = home[p]
      BY DEF IInv, RunningHaveEntries, HasOwnEntry
    <2>2. PICK j \in 1 .. Len(launched) :
              launched[j].pid = q /\ launched[j].srv = home[q]
      BY DEF IInv, RunningHaveEntries, HasOwnEntry
    <2>. QED  BY <2>1, <2>2 DEF IInv, EntriesDiffer
  <1>. QED  BY <1>1, Inductive, PTL
=============================================================================
