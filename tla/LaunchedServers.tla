--------------------------- MODULE LaunchedServers ---------------------------
(***************************************************************************)
(* The server scanner's table of launched servers and the bot processes it *)
(* starts.  One turn of the scanner's main loop takes in at most one       *)
(* answer, sweeps out the entries whose bot has exited                     *)
(* (ClearDisconnectedServers) and then goes through the servers: one that  *)
(* shows humans gets a bot unless it has an entry (AddServer, SpawnClient),*)
(* one that shows none loses its entry, its bot left alone (RemoveServer). *)
(*                                                                         *)
(* ServerScanner/serverscanner.cpp.  The processes and the operating       *)
(* system's fork and waitpid are external, as are the game servers, whose  *)
(* people come and go at any time: an answer shows any number of humans.   *)
(***************************************************************************)
EXTENDS Integers, Sequences, FiniteSets, SequencesExt

CONSTANTS
    NumServers,  \* the whitelisted servers are 1 .. NumServers
    Pids,        \* process ids; a fork with none left fails
    MaxLaunched, \* the entries launchedServers has room for, 1024
    MaxHumans    \* bound: humans an answer shows

ASSUME NumServersAssumption == NumServers \in Nat \ {0}
ASSUME PidsAssumption == Pids \subseteq Nat \ {0}
ASSUME LimitsAssumption == MaxLaunched \in Nat /\ MaxHumans \in Nat

Servers == 1 .. NumServers
Failed == -1     \* what SpawnClient returns when fork fails
Unknown == -1    \* a server with no answer since the last scan

VARIABLES
    pc,        \* "poll", "sweep" or "find", where the main loop is
    idx,       \* the entry the sweep, or the server the search, is at
    seen,      \* humans in the server's last answer, or Unknown
    launched,  \* launchedServers: the server and the pid of each entry
    proc,      \* external: "free", "running" or "dead" and not reaped
    home,      \* external: the server each process was started for
    exited,    \* history: tracked processes dead when the sweep began
    removed    \* history: processes whose entry RemoveServer took away

scanner == <<pc, idx, seen, launched>>
processes == <<proc, home>>
vars == <<scanner, processes, exited, removed>>

Entries == [srv : Servers, pid : Pids \cup {Failed}]

TypeOK ==
    /\ pc \in {"poll", "sweep", "find"}
    /\ idx \in Nat
    /\ seen \in [Servers -> {Unknown} \cup 0 .. MaxHumans]
    /\ launched \in Seq(Entries) /\ Len(launched) <= MaxLaunched
    /\ proc \in [Pids -> {"free", "running", "dead"}]
    /\ home \in [Pids -> Servers]
    /\ exited \subseteq Pids
    /\ removed \subseteq Pids

Tracked(p) == \E i \in 1 .. Len(launched) : launched[i].pid = p
Running(p) == proc[p] = "running"

Init ==
    /\ pc = "poll"
    /\ idx = 1
    /\ seen = [s \in Servers |-> Unknown]
    /\ launched = << >>
    /\ proc = [p \in Pids |-> "free"]
    /\ home = [p \in Pids |-> 1]
    /\ exited = {}
    /\ removed = {}

(***************************************************************************)
(* The scanner.                                                            *)
(***************************************************************************)

StartSweep ==
    /\ pc = "poll"
    /\ pc' = "sweep"
    /\ idx' = 1
    /\ exited' = {p \in Pids : proc[p] = "dead" /\ Tracked(p)}
    /\ UNCHANGED <<launched, processes, removed>>

\* At most one packet is read: an answer of a server.
PollAnswer ==
    /\ \E s \in Servers, n \in 0 .. MaxHumans : seen' = [seen EXCEPT ![s] = n]
    /\ StartSweep

PollNothing == UNCHANGED seen /\ StartSweep

\* Every ten seconds all the servers are asked again.
PollRescan ==
    /\ seen' = [s \in Servers |-> Unknown]
    /\ StartSweep

Zombies == {p \in Pids : proc[p] = "dead"}
Children == {p \in Pids : proc[p] # "free"}

\* The processes waitpid(pid, WNOHANG) may reap: pid itself, or any child if
\* pid is -1.  None: it returns 0 if there is a child to wait for, else -1.
Waitable(pid) == IF pid = Failed THEN Children ELSE {pid} \cap Children

Reapable(pid) == Waitable(pid) \cap Zombies

\* An entry stays while waitpid returns 0.
KeepEntryOfChild(pid) == Waitable(pid) # {}

KeepEntryReaped(pid) == Reapable(pid) # {}

KeepEntry(pid) == Waitable(pid) # {} /\ Reapable(pid) = {}

SweepKeep ==
    /\ pc = "sweep"
    /\ idx <= Len(launched)
    /\ KeepEntry(launched[idx].pid)
    /\ idx' = idx + 1
    /\ UNCHANGED <<pc, seen, launched, processes, exited, removed>>

\* The index of the next entry to look at once entry idx is taken out.
AfterRemovalSkips == idx + 1

AfterRemoval == idx

SweepRemove ==
    LET pid == launched[idx].pid
    IN  /\ pc = "sweep"
        /\ idx <= Len(launched)
        /\ ~KeepEntry(pid)
        /\ launched' = RemoveAt(launched, idx)
        /\ idx' = AfterRemoval
        /\ IF Reapable(pid) = {}
           THEN UNCHANGED processes
           ELSE \E z \in Reapable(pid) :
                    /\ proc' = [proc EXCEPT ![z] = "free"]
                    /\ home' = [home EXCEPT ![z] = 1]
        /\ removed' = {p \in removed : proc'[p] # "free"}
        /\ UNCHANGED <<pc, seen, exited>>

SweepDone ==
    /\ pc = "sweep"
    /\ idx > Len(launched)
    /\ pc' = "find"
    /\ idx' = 1
    /\ exited' = {}
    /\ UNCHANGED <<seen, launched, processes, removed>>

\* FindPopulatedServers goes on with the next server, or ends the turn.
NextServer ==
    IF idx < NumServers
    THEN idx' = idx + 1 /\ UNCHANGED pc
    ELSE idx' = 1 /\ pc' = "poll"

HasEntry(s) == \E i \in 1 .. Len(launched) : launched[i].srv = s

MayAddAgain(s) == Len(launched) < MaxLaunched

MayAddOneTooMany(s) == ~HasEntry(s) /\ Len(launched) <= MaxLaunched

MayAdd(s) == ~HasEntry(s) /\ Len(launched) < MaxLaunched

\* AddServer: fork a bot for server idx.
AddServer ==
    /\ pc = "find"
    /\ seen[idx] > 0
    /\ MayAdd(idx)
    /\ \E p \in Pids :
           /\ proc[p] = "free"
           /\ launched' = Append(launched, [srv |-> idx, pid |-> p])
           /\ proc' = [proc EXCEPT ![p] = "running"]
           /\ home' = [home EXCEPT ![p] = idx]
    /\ NextServer
    /\ UNCHANGED <<seen, exited, removed>>

\* ... or fork fails: the entry keeps -1 for a pid.  (A child in which execl
\* fails, and which goes on as a second scanner, is left out.)
AddServerForkFails ==
    /\ pc = "find"
    /\ seen[idx] > 0
    /\ MayAdd(idx)
    /\ launched' = Append(launched, [srv |-> idx, pid |-> Failed])
    /\ NextServer
    /\ UNCHANGED <<seen, processes, exited, removed>>

\* RemoveServer: the first entry of server idx goes, its process is not
\* told and no longer waited for.
RemoveServer ==
    /\ pc = "find"
    /\ seen[idx] = 0
    /\ HasEntry(idx)
    /\ \E i \in 1 .. Len(launched) :
           /\ launched[i].srv = idx
           /\ \A j \in 1 .. i - 1 : launched[j].srv # idx
           /\ launched' = RemoveAt(launched, i)
           /\ removed' = removed \cup ({launched[i].pid} \cap Children)
    /\ NextServer
    /\ UNCHANGED <<seen, processes, exited>>

PassServer ==
    /\ pc = "find"
    /\ \/ seen[idx] = Unknown
       \/ seen[idx] > 0 /\ ~MayAdd(idx)
       \/ seen[idx] = 0 /\ ~HasEntry(idx)
    /\ NextServer
    /\ UNCHANGED <<seen, launched, processes, exited, removed>>

(***************************************************************************)
(* The bots (external to the scanner).                                     *)
(***************************************************************************)

\* A bot quits, or crashes.
BotExits ==
    /\ \E p \in Pids :
           /\ Running(p)
           /\ proc' = [proc EXCEPT ![p] = "dead"]
    /\ UNCHANGED <<scanner, home, exited, removed>>

ScannerNext ==
    \/ PollAnswer \/ PollNothing \/ PollRescan
    \/ SweepKeep \/ SweepRemove \/ SweepDone
    \/ AddServer \/ AddServerForkFails \/ RemoveServer \/ PassServer

Next == ScannerNext \/ BotExits

Spec == Init /\ [][Next]_vars

\* The main loop goes on: NET_Sleep returns after ten seconds at the latest.
FairSpec == Spec /\ WF_vars(ScannerNext)

(***************************************************************************)
(* Properties.                                                             *)
(***************************************************************************)

\* A sweep leaves behind it no entry whose process had exited when the sweep
\* began, although it takes entries out of the table it walks
\* (ClearDisconnectedServers, the idx-- after the memmove).
SweepIsComplete ==
    pc = "sweep" =>
        \A i \in 1 .. Len(launched) :
            i < idx => launched[i].pid \notin exited

\* The scanner loses sight of a bot that still runs only by RemoveServer: a
\* sweep never takes out the entry of a running bot, not even when the entry
\* of a failed fork waits for any child and reaps another entry's bot.
RunningIsTracked ==
    \A p \in Pids : Running(p) => Tracked(p) \/ p \in removed

\* Two bots play on one server only if RemoveServer has given one of them up:
\* AddServer starts none where an entry is, and an entry goes only with its
\* process (AddServer and ClearDisconnectedServers together).
OneBotPerServer ==
    \A p, q \in Pids :
        Running(p) /\ Running(q) /\ home[p] = home[q] /\ {p, q} \cap removed = {}
            => p = q

\* No server keeps its entry, and so is without a new bot, for ever unless its
\* waitpid has again and again a running process to wait for: the server's own
\* bot, a bot of another server that has got the process id since, or any bot
\* at all when the entry is that of a failed fork (ClearDisconnectedServers).
EntryIsCleared ==
    \A s \in Servers :
        []<>(HasEntry(s) =>
                \E i \in 1 .. Len(launched) :
                    /\ launched[i].srv = s
                    /\ \E p \in Waitable(launched[i].pid) : Running(p))
=============================================================================
