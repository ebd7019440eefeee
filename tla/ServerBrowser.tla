---------------------------- MODULE ServerBrowser ----------------------------
(***************************************************************************)
(* How the server scanner finds out which servers have people on them: the *)
(* list of servers with their last info, the ping slots through which info *)
(* is asked for, and the cache of server statuses that is consulted where  *)
(* the info does not tell people from bots.                                *)
(*                                                                         *)
(* One turn of the main loop reads at most one packet, makes all servers   *)
(* unasked when a scan is due, gives unasked servers a free slot           *)
(* (CL_UpdateVisiblePings_f), collects the slots that are answered or have *)
(* timed out (CL_GetPing), and judges every server (FindPopulatedServers). *)
(*                                                                         *)
(* ServerScanner/serverscanner.cpp and DemoBot/deps.cpp.  The servers and  *)
(* the network are external: an info comes at any time, late, twice or     *)
(* never, and may say anything; a status comes once for each request that  *)
(* arrives.  Servers are the whitelisted ones, whose list is fixed; the    *)
(* master servers are not asked (serverscanner.cpp, the commented lines),  *)
(* and there are at least as many status slots as servers in the list      *)
(* (MAX_SERVERSTATUSREQUESTS is MAX_GLOBAL_SERVERS), so each has its own.  *)
(***************************************************************************)
EXTENDS Integers, FiniteSets, FiniteSetsExt

CONSTANTS
    NumServers,   \* the whitelisted servers are 1 .. NumServers
    NumSlots,     \* MAX_PINGREQUESTS
    MaxPing,      \* cl_maxPing: a ping unanswered for so long is given up
    ScanPeriod,   \* all servers are asked again after more than so long
    StatusPeriod, \* a status is asked again after more than so long
    MaxSleep      \* NET_Sleep returns after so long at the latest

ASSUME NumbersAssumption == NumServers \in Nat \ {0} /\ NumSlots \in Nat \ {0}
ASSUME TimesAssumption ==
    /\ {MaxPing, ScanPeriod, StatusPeriod, MaxSleep} \subseteq Nat \ {0}

Servers == 1 .. NumServers
Slots == 1 .. NumSlots
Nobody == 0   \* no server: an unused slot, info that is not from a server

\* A server's ping is -1 once a scan is due, 0 while it is waited for and when
\* it was given up, and else the time it took, of which only the sign matters.
Unasked == -1

\* An info is enough to judge its server by (bots and humans add up to the
\* clients, or the clients are none or more than a server can have), or it
\* leaves people and bots uncounted, and the status is wanted.
Says == {"enough", "uncounted"}
Infos == [of : Servers \cup {Nobody}, says : Says]

VARIABLES
    pc,        \* "poll", "scan", "ask", "collect", "find" or "sleep"
    idx,       \* the server or slot a loop is at
    sinceScan, \* time since lastMasterScanTime
    server,    \* cls.globalServers: ping and info
    slot,      \* cl_pinglist: address, age (now - start), time and info
    status,    \* cl_serverStatusList: state and age (now - startTime)
    asked,     \* external: servers a getstatus has reached, not yet answered
    heard,     \* history: servers whose info was taken since the last scan
    got        \* history: the server whose ping was answered in this turn

browser == <<pc, idx, sinceScan, server, slot, status>>
vars == <<browser, asked, heard, got>>

TypeOK ==
    /\ pc \in {"poll", "scan", "ask", "collect", "find", "sleep"}
    /\ idx \in Servers \cup Slots
    /\ sinceScan \in 0 .. ScanPeriod + 1
    /\ server \in [Servers -> [ping : {Unasked, 0, 1}, info : Infos]]
    /\ slot \in [Slots -> [adr : Servers \cup {Nobody}, age : 0 .. MaxPing + MaxSleep,
                           time : {0, 1}, info : Infos]]
    /\ status \in [Servers -> [state : {"none", "pending", "answered"},
                               age : 0 .. StatusPeriod + 1]]
    /\ asked \subseteq Servers
    /\ heard \subseteq Servers
    /\ got \in Servers \cup {Nobody}

NoInfo == [of |-> Nobody, says |-> "enough"]   \* all numbers are zero

Init ==
    /\ pc = "poll"
    /\ idx = 1
    /\ sinceScan = ScanPeriod + 1
    /\ server = [s \in Servers |-> [ping |-> Unasked, info |-> NoInfo]]
    /\ slot = [i \in Slots |-> [adr |-> Nobody, age |-> 0, time |-> 0, info |-> NoInfo]]
    /\ status = [s \in Servers |-> [state |-> "none", age |-> 0]]
    /\ asked = {}
    /\ heard = {}
    /\ got = Nobody

Used(i) == slot[i].adr # Nobody

(***************************************************************************)
(* Packets.                                                                *)
(***************************************************************************)

\* The slots that wait for an info of s.
Waiting(s) == {i \in Slots : slot[i].adr = s /\ slot[i].time = 0}

\* A ping of no time at all is not told from one that is not answered.
PingOf(i) == IF slot[i].age = 0 THEN 0 ELSE 1

\* CL_ServerInfoPacket: the first slot that waits takes the info; without one
\* it is ignored, as the scan is not of local servers.
ReadInfo(s) ==
    /\ pc = "poll"
    /\ Waiting(s) # {}
    /\ \E says \in Says :
           LET i == Min(Waiting(s))
               info == [of |-> s, says |-> says]
           IN  /\ slot' = [slot EXCEPT ![i].time = PingOf(i), ![i].info = info]
               /\ server' = [server EXCEPT ![s] = [ping |-> PingOf(i), info |-> info]]
               /\ got' = IF PingOf(i) > 0 THEN s ELSE Nobody
    /\ heard' = heard \cup {s}
    /\ pc' = "scan"
    /\ UNCHANGED <<idx, sinceScan, status, asked>>

\* CL_ServerStatusResponse.
ReadStatus(s) ==
    /\ pc = "poll"
    /\ s \in asked
    /\ status' = [status EXCEPT ![s].state = "answered"]
    /\ asked' = asked \ {s}
    /\ pc' = "scan"
    /\ got' = Nobody
    /\ UNCHANGED <<idx, sinceScan, server, slot, heard>>

\* No packet, or one that none of this looks at.
ReadNothing ==
    /\ pc = "poll"
    /\ pc' = "scan"
    /\ got' = Nobody
    /\ UNCHANGED <<idx, sinceScan, server, slot, status, asked, heard>>

(***************************************************************************)
(* Scanning and pinging.                                                   *)
(***************************************************************************)

ScanDue == sinceScan > ScanPeriod

\* The servers as a scan leaves them.
ReaskedButForAnswered ==
    [s \in Servers |->
        IF server[s].ping > 0 THEN server[s] ELSE [server[s] EXCEPT !.ping = Unasked]]

ReaskedButForGivenUp ==
    [s \in Servers |->
        IF server[s].ping > 0 THEN [server[s] EXCEPT !.ping = Unasked] ELSE server[s]]

Reasked == [s \in Servers |-> [server[s] EXCEPT !.ping = Unasked]]

Scan ==
    /\ pc = "scan"
    /\ ScanDue
    /\ sinceScan' = 0
    /\ server' = Reasked
    /\ heard' = {got} \cap Servers
    /\ pc' = "ask"
    /\ UNCHANGED <<idx, slot, status, asked, got>>

NoScan ==
    /\ pc = "scan"
    /\ ~ScanDue
    /\ pc' = "ask"
    /\ UNCHANGED <<idx, sinceScan, server, slot, status, asked, heard, got>>

\* Go through 1 .. n, and on to the next part of the turn.
Step(n, next) ==
    IF idx < n
    THEN idx' = idx + 1 /\ UNCHANGED pc
    ELSE idx' = 1 /\ pc' = next

FreeSlots == {i \in Slots : ~Used(i)}

\* Server s is to be pinged, and not on the list yet.
UnaskedOnly(s) == server[s].ping = Unasked

ToBePinged(s) == server[s].ping = Unasked /\ \A i \in Slots : slot[i].adr # s

\* CL_UpdateVisiblePings_f, the loop over the servers: the slot keeps the info
\* of the server that had it before.
Ping(s) ==
    /\ pc = "ask" /\ idx = s
    /\ ToBePinged(s)
    /\ FreeSlots # {}
    /\ slot' = [slot EXCEPT ![Min(FreeSlots)] = [@ EXCEPT !.adr = s, !.age = 0, !.time = 0]]
    /\ Step(NumServers, "collect")
    /\ UNCHANGED <<sinceScan, server, status, asked, heard, got>>

PassServer ==
    /\ pc = "ask"
    /\ ~ToBePinged(idx) \/ FreeSlots = {}
    /\ Step(NumServers, "collect")
    /\ UNCHANGED <<sinceScan, server, slot, status, asked, heard, got>>

TimedOut(i) == slot[i].time = 0 /\ slot[i].age >= MaxPing

\* The ping CL_GetPing notes in the server of slot i: the slot's own time,
\* not the time that has passed when it is given up.
NotedElapsed(i) == IF TimedOut(i) THEN 1 ELSE slot[i].time

NotedUnlessReasked(i) ==
    IF server[slot[i].adr].ping = Unasked THEN Unasked ELSE slot[i].time

Noted(i) == slot[i].time

\* The slots that go with their ping taken.
SettledAnswered(i) == slot[i].time > 0

Settled(i) == slot[i].time > 0 \/ TimedOut(i)

\* CL_GetPing of a used slot, and CL_ClearPing.  While the ping is waited for
\* the info of the server stays as it is.
Collect ==
    /\ pc = "collect"
    /\ Used(idx)
    /\ LET s == slot[idx].adr
       IN  server' = [server EXCEPT ![s].ping = Noted(idx),
                                    ![s].info = IF Settled(idx) THEN slot[idx].info ELSE @]
    /\ slot' = IF Settled(idx) THEN [slot EXCEPT ![idx].adr = Nobody] ELSE slot
    /\ Step(NumSlots, "find")
    /\ UNCHANGED <<sinceScan, status, asked, heard, got>>

CollectNothing ==
    /\ pc = "collect"
    /\ ~Used(idx)
    /\ Step(NumSlots, "find")
    /\ UNCHANGED <<sinceScan, server, slot, status, asked, heard, got>>

(***************************************************************************)
(* Judging.                                                                *)
(***************************************************************************)

\* The servers FindPopulatedServers looks up the status of.
Consulted(s) == server[s].ping > 0 /\ server[s].info.says = "uncounted"

\* CL_ServerStatus sends a request the first time, and again while none is
\* answered.
StatusDueFirst(s) == status[s].state = "none"

StatusDue(s) ==
    \/ status[s].state = "none"
    \/ status[s].state = "pending" /\ status[s].age > StatusPeriod

\* A request is sent.  It arrives, or it does not.
AskStatus(s) ==
    /\ pc = "find" /\ idx = s
    /\ Consulted(s) /\ StatusDue(s)
    /\ status' = [status EXCEPT ![s].state = "pending", ![s].age = 0]
    /\ asked' \in {asked, asked \cup {s}}
    /\ Step(NumServers, "sleep")
    /\ UNCHANGED <<sinceScan, server, slot, heard, got>>

\* FindPopulatedServers acts on what is known (LaunchedServers), or passes on.
Judge ==
    /\ pc = "find"
    /\ ~(Consulted(idx) /\ StatusDue(idx))
    /\ Step(NumServers, "sleep")
    /\ UNCHANGED <<sinceScan, server, slot, status, asked, heard, got>>

(***************************************************************************)
(* Time.                                                                   *)
(***************************************************************************)

AtMost(limit, t) == IF t > limit THEN limit ELSE t

\* NET_Sleep, until a packet is there or MaxSleep is over.  The ages of what
\* is not waited for do not matter.
NET_Sleep(d) ==
    /\ pc = "sleep"
    /\ sinceScan' = AtMost(ScanPeriod + 1, sinceScan + d)
    /\ slot' = [i \in Slots |->
                  [slot[i] EXCEPT !.age = IF Used(i) THEN @ + d ELSE 0]]
    /\ status' = [s \in Servers |->
                    [status[s] EXCEPT !.age =
                        IF status[s].state = "pending" THEN AtMost(StatusPeriod + 1, @ + d) ELSE 0]]
    /\ pc' = "poll"
    /\ UNCHANGED <<idx, server, asked, heard, got>>

Next ==
    \/ \E s \in Servers : ReadInfo(s) \/ ReadStatus(s) \/ Ping(s) \/ AskStatus(s)
    \/ ReadNothing \/ Scan \/ NoScan \/ PassServer
    \/ Collect \/ CollectNothing \/ Judge
    \/ \E d \in 0 .. MaxSleep : NET_Sleep(d)

Spec == Init /\ [][Next]_vars

\* The main loop goes on, and so does the clock.  The network loses status
\* requests and answers, but not all of them.
FairSpec ==
    /\ Spec
    /\ WF_vars(Next)
    /\ SF_vars(\E d \in 1 .. MaxSleep : NET_Sleep(d))
    /\ \A s \in Servers : SF_vars(ReadStatus(s)) /\ SF_vars(AskStatus(s) /\ s \in asked')

(***************************************************************************)
(* Properties.                                                             *)
(***************************************************************************)

\* A server with a ping shows the info it sent itself: giving up a ping writes
\* what the slot held, perhaps of its last owner, into the server, but never
\* together with a ping (CL_GetPing, CL_ServerInfoPacket).
InfoIsOwn == \A s \in Servers : server[s].ping > 0 => server[s].info.of = s

\* A server with a ping has been heard since the last scan, so no bot is
\* started or given up on an info of an earlier scan, even though slots
\* outlive the scan in which they were filled.
PingIsFresh == \A s \in Servers : server[s].ping > 0 => s \in heard

\* An answer counts in the turn in which it is read, also when a scan makes
\* all servers unasked in that very turn: the slot still has it.
NoAnswerLost == pc = "find" /\ got # Nobody => server[got].ping > 0

\* No server has two slots, although a scan makes those unasked that still
\* wait in one.
AskedOnce ==
    \A i, j \in Slots : Used(i) /\ slot[i].adr = slot[j].adr => i = j

\* With a slot for every server, each is pinged again and again, whatever the
\* others do and even if it never answers.
AskedAgain == \A s \in Servers : []<><<Ping(s)>>_vars

\* A status that is consulted again and again is learnt, although requests
\* and answers get lost.
StatusIsLearnt ==
    \A s \in Servers :
        ([]<>(pc = "find" /\ Consulted(s))) => <>(status[s].state = "answered")
=============================================================================
