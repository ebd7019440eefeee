# A TLA+ model of DemoBot

DemoBot is two programs. **DemoBot** (`src/DemoBot`) is a headless Jedi Academy
client: it joins one game server as a spectator, records a demo of every match,
uploads it while it is being recorded, has it indexed, and answers a few chat
commands, among them one that evens the teams. **ServerScanner**
(`src/ServerScanner`) watches a list of servers and starts a DemoBot process for
each one with humans on it.

Both are single-threaded loops that read at most one packet a turn. What is hard
in them is not threads but the protocol: state that several packets, several
players, the game server, the web server and the operating system's processes
change in an order nobody chose, over channels that lose packets. This directory
holds models of that, their model-checking configurations, and proofs.

## Inventory

| component | state | operations | talks to | modelled in |
| --- | --- | --- | --- | --- |
| Connection and handshake (`deps.cpp` 311-450, 922-1060, 1499-1555; `demobot.cpp` main loop) | `cls.state`, `clc.serverAddress`, `clc.challenge`, `connectPacketCount`, `connectTime`, `lastPacketTime`, `lastServerPacketTime`, the netchan's address | ask, answer, retry, give up, leave | game server, OOB packets | `Connection` |
| Reliable client commands (`demobot.cpp` 41-44, 1258-1303; `deps.cpp` 1323-1463, 1588-1712) | ring of commands, `reliableSequence`, `reliableAcknowledge`, `gamestateAckCmd`, `lastCommandTime`, `cl.serverTime`, `cl.serverId` | queue, send, acknowledge, cut at a gamestate, believe a time | game server, netchan; fed by chat, recorder and main loop | `ReliableCommands` |
| Demo recording, upload, indexing (`deps.cpp` 1149-1194, 1291-1315; `demobot.cpp` 746-765, 861-1116) | `demorecording`, `demowaiting`, `uploads`, `handle_count`, `stopRecord`, `endmatchCurl` | start, write, stop, finish, index | web server through libcurl | `DemoRecorder` |
| Team switch (`demobot.cpp` 478-701) | `teamSwitch` | `!teams`, `!a`, rcon | players, player database, game server | `TeamSwitch` |
| Launched servers (`serverscanner.cpp` 99-330, 460-489) | `launchedServers`, child processes | start, give up, reap | `fork`, `waitpid`, bots | `LaunchedServers` |
| Server commands, configstrings (`deps.cpp` 233-303, 1070-1134, 1370-1490; `demobot.cpp` 735-765, 847-854; `cmd.cpp` 343-373) | ring of server commands, `lastExecutedServerCommand`, `cl.gameState`, `cl.serverId`, `intermissionTime` | parse, execute, edit | game server; drives recorder and chat; sets console variables | `ServerCommands` |
| Server list, pings, status cache (`deps.cpp` 457-913, 1800-2147; `serverscanner.cpp` 45-97, 258-316) | `globalServers`, `cl_pinglist`, `cl_serverStatusList` | ping, time out, ask, answer | servers' OOB packets; feeds launched servers | `ServerBrowser` |
| Scanner configuration (`serverscanner.cpp` 334-385) | passwords, whitelist | merge at start | a file | planned |
| `!who`, `!elos` (`demobot.cpp` 191-476, 703-733) | none kept | blocking HTTP, chat lines | player database | not modelled |
| Console variables (`cvar.cpp`) | `cvar_indexes`, the list, the hash table | get, set, validate, latch, reset, unset, restart | `main`, system info, sockets; in OpenJK also console and game modules | `Cvars` |
| Tokenizer and command list (`cmd.cpp`) | argv, the list | tokenize, dispatch | all handlers | dispatch in `ServerCommands` |
| Sockets (`net_ip.cpp`) | `ip_socket`, `networkingEnabled` | configure, open, close; send, receive, resolve | OS, console variables | configuration in `NetConfig` |
| Utilities (`utils.cpp`, `cl_parse.cpp`) | none | character sets, names | | not modelled |

How they interact: a packet goes to the handshake or, once connected, through the
netchan to `CL_ParseServerMessage`, which moves the reliable commands'
acknowledge, keeps server commands, starts and stops demos and, at the end,
executes the commands (chat among them). Handlers answer by queueing reliable
commands. After a packet the main loop stops a demo, queues "team s" or
"disconnect", and writes one packet. The scanner shares `deps.cpp` and talks to
its bots only through their processes.

What makes each correct:

* *Connection*: connected only where accepted; the handshake ends once the server
  has a place; a dead or a dropping server is left.
* *Reliable commands*: every command in order and once, whatever is lost or cut;
  the false time at a map's start is thrown away, and the true one is not.
* *Recording*: a demo is playable whatever happened; the right demo is written,
  and only a complete one indexed.
* *Team switch*: only the slots named, each on an acceptance made for it.
* *Launched servers*: one bot for a server, no entry for ever that waits for no
  running process.
* *Server commands*: each executed once and in order, also around a gamestate;
  the game state is the server's; the match's own scores do not end its demo; the
  bot ends up in the server's map.
* *Console variables and the socket*: the table is never corrupted, whoever frees
  its slots; a pointer the engine holds stays good; the socket is what the
  variables say, or known not to be.
* *Server list and status*: a server is judged by what it said itself since the
  last scan; each is asked again and again; no answer is lost to a scan.

The places where this code is easily wrong and hardly tested (there are no tests)
are the `hazards` of `PROJECT.json`, each at its line with the properties that
watch it.

## The modules

### ReliableCommands, and CommandLog

The state is the client's side of the channel, the server's, and the packets in
flight each way. A turn of the main loop is `phase`: "read" (a message is read or
`NET_Sleep` brings none), "act" (commands are queued), a packet is written
(`CL_WritePacket`), "read" again. "bye" is the turn in which the bot has decided
to leave. `log` and `overrun` are history: what each number now means, and
whether more commands than the ring has slots were ever outstanding.

| action | code |
| --- | --- |
| `ReadGamestate`, `ReadSnapshot` | `CL_PacketEvent`, `CL_ParseServerMessage`: acknowledge, then the case |
| `ReadNothing`, `Timeout` | the main loop |
| `QueueCommand`, `Quit` | `NewClientCommand` and its callers |
| `CL_WritePacket`, `CommandTimer` | `CL_WritePacket` and its one second |
| `Sv*`, `Lose*` | external: game server, netchan, network |

The server and the netchan are in submodules that are not in this repository.
What the model takes of them is what the client relies on: a command is executed
if its number is the next one, a higher one drops the client ("Lost reliable
commands"), every message acknowledges the last executed, packets of another map
are ignored and may bring the gamestate again, the offset is added to the time
until a packet of the new map arrives, and the netchan throws away duplicates
and packets that come late. So a channel is a queue whose head may be lost.

`CommandLog` is the abstract promise: a log that is executed from the front, each
entry once, and cut only behind what was executed. `ReliableCommands` implements
it (`ImplementsLog`) with `executed <- svExecuted, broken <- overrun`; after an
overrun the log promises nothing.

### Connection

`Connection` has the handshake and both ways of noticing that it is over. `pc` is
the place in the main loop: the clock is read and a request repeated
(`StartTurn`), a packet is read, a packet is written and the timeout looked at
(`EndTurn`). Packets are sets: they may be lost and overtake each other. The
server answers from its own address or a proxy's, and speaks one of the two
protocol versions; a third address answers what was never asked. As long as the
bot has no place the server may be full, or not, at any time (`SvFills`), and then
refuses even a right request, as it would for a password or a ban; each refusal is
a packet that starts the bot's clocks again. Three ages replace the clocks, each
of which stops at the value the code compares with. `Init` is what `CL_Connect_f`
leaves for an address of the network: with one it cannot read the bot ends before
its first turn, and "localhost", for which it asks no challenge, is left out.

### DemoRecorder

A demo is the sequence of entries its upload has sent. Each step of the code that
touches the recorder is an operator from a recorder state to the set of states
it may become (`Written`, `Record`, `StopRecord`, `Finished`, ...), and the
messages compose them in the order of the code: a gamestate is stop, record,
write; scores are write, then stop; a disconnect stops, and the message is not
written. A transfer may break at any write; the web server may refuse an upload,
and takes none it has not received in full.

### TeamSwitch

`teamSwitch` with `!teams` (three outcomes), `!a` in the name of any player, the two
`forceteam` packets, and a game server on which players come, go and change teams.
The code knows a player by his slot. `!a` with a name behind it accepts for whoever
bears that name, no matter who says it (`demobot.cpp` 676-680), and a player who
comes into a slot has the flag of the one who left it: the model has both, in that
it keeps neither who speaks nor who is in a slot. So its properties speak of slots
and of acceptances made in a slot's name, and say nothing about whose word it was.

### LaunchedServers

The table, the sweep entry by entry (a bot may exit between two entries), the
search server by server, and the children with `fork` and `waitpid(.., WNOHANG)`
as the operating system has them: -1 for any child, -1 when there is none, zombies
until reaped, process ids used again. `EntryIsCleared` is about a server's entry,
since that is what keeps the server from a new bot: a process id that is used
again, or the entry of a failed fork, which waits for any child, can keep it while
some other bot runs, and nothing else can.

### ServerBrowser

Where `LaunchedServers` takes what an answer shows as an input, `ServerBrowser` has
how the answer is got. `pc` is the place in a turn: a packet is read (`ReadInfo`,
`ReadStatus`, `ReadNothing`), a scan may be due (`Scan`, `NoScan`), unasked servers
get free slots (`Ping`, `PassServer`: the loop of `CL_UpdateVisiblePings_f`), used
slots are looked at (`Collect`: `CL_GetPing`, `CL_ClearPing`), servers are judged and
statuses asked for (`AskStatus`, `Judge`), and `NET_Sleep` lets time pass. A ping
keeps its sign only: -1 unasked, 0 waited for or given up, 1 answered. A slot keeps
the info of its last owner, as in the code. `heard` and `got` are history. What an
info says is reduced to whether the status is wanted to judge by.

Answers are not tied to requests: a server's info may come at any time, once,
twice or late, and only a slot that waits for it takes it. Status answers come once
for each request that arrives. Every server has its own status slot, as there are
as many slots as places in the list of servers; so the search for an oldest slot
in `CL_GetServerStatus` is never reached. Once answered, a status is never asked
again (`deps.cpp` 791, whose lines after it are commented out).

### ServerCommands

The other direction of the reliable channel. The server repeats in each message
every command the bot has not acknowledged; the bot keeps the new ones in a ring
(`Ring`), and once the whole message is parsed runs them one by one, each an
action that is a handler (`ExecuteConfigstring`, `ExecuteSystemInfo`,
`ExecuteScores`, `ExecuteMapRestart`) behind `Execute`, the dispatch. `phase` is
"read" or "execute"; `CL_WritePacket` ends the turn with a packet that
acknowledges, and whose loss, arrival, or answer by a gamestate is the server's
choice. A gamestate replaces the whole game state (`ReadGamestate`) and starts a
demo.

A configstring is reduced to `CS_INTERMISSION` and the system info, a sequence of
keys in a buffer with room for `InfoRoom` of them, since a system info without a
server id is appended to the old one and cut off. The server (external) plays a
match, ends it, restarts or changes its map. After a restart its new id reaches
the bot by a system info; the gamestate comes because the bot asks ("donedl").
`executed`, `gamestateId` and `stale` are history: `stale` is the case in which a
command of an earlier map, in front of a gamestate in its message, has acted on
the new game state.

`CommandLog` is implemented once more, by the commands the bot executes. What the
other modules say of commands is here from the bot's side: `ReliableCommands` has
the bot's own, and there the time a snapshot brings is believed or not, which is
free here between a gamestate and the first that is.

### Cvars and NetConfig

`Cvars` is the library of `cvar.cpp` as operators from one table to the next:
slots, the list and the hash chains by their links, `Cvar_Set2` with its early
returns in their order (`Changed`), the flags a registration keeps and gives, and
everything that creates, resets or frees a variable. A value is a number, and a
range is one and the same for all who have one. A hash value is the set of the
names that have it. Walking a chain is not a recursion but what it finds: a chain
is the least set of slots that has the first and every slot's link (`OnChain`),
which says the same of a chain that ends and can be reasoned about.

`NetConfig` composes it with the code whose state follows two variables, and with
everybody who may use the table: `main` and `CL_SystemInfoChanged`, which set by
force, and those that the library serves in an engine (console, game modules,
cheats, restarts), which this repository does not have and which are external.
`main` never calls `Cvar_Init`, so nothing in the bot itself reaches the console's
commands; `Init` starts from a table with and without it. `pointer` has the
`cvar_t *` the engine keeps for a name. A bind may succeed or fail for each port.
`Cvar_Restart` is its loop, one action for each turn (`Restart`, `RestartTurn`,
`RestartEnds`): `curvar` is the variable it looks at next and `restarting` says
whether the modules' variables go too. Nothing else runs during the loop, but the
table between two turns is one of the states the invariants speak of.

Two things seen on the way. A forced set to the very value that waits in a latched
variable returns without setting it (`cvar.cpp` 541), so neither does `Cvar_Set`
"Force cvar to a value" (625) nor `Cvar_CheckRange` "Force an initial range check"
(1218) then; in this repository no value ever waits, as only console and modules
set without force, so it is no finding of a run. And if no port can be bound, `net_restart` does nothing
until a variable changes, as `networkingEnabled` is true by then.

## What the runs show

| run | bounds | properties |
| --- | --- | --- |
| `ReliableCommands` | ring of 2, 3 commands queued, 2 maps, 1 packet each way | `TypeOK`, `NoOffsetTime`, `DroppedOnlyByOverrun`, `AckCmdIsFresh`, `ImplementsLog`, `TimeIsBelieved` |
| `LaunchedServers` | 3 servers, 2 process ids, table of 2 | `TypeOK`, `SweepIsComplete`, `RunningIsTracked`, `OneBotPerServer`, `EntryIsCleared` |
| `ServerBrowser` | 2 servers, 2 ping slots, all periods 2, sleeps of 0 to 2 | `TypeOK`, `InfoIsOwn`, `PingIsFresh`, `NoAnswerLost`, `AskedOnce`, `AskedAgain`, `StatusIsLearnt` |
| `TeamSwitch` | 3 slots, 2 forceteams on their way | `TypeOK`, `AcceptanceIsOfSlot`, `AgreementIsActedOn`, `SwitchIsNamed` |
| `Connection` | requests repeated after 1 unit, timeout after 2, 2 packets each way | `TypeOK`, `ConnectedIsAccepted`, `HandshakeEnds`, `DeadServerIsLeft` |
| `DemoRecorder` | 6 messages | `TypeOK`, `DemosPlay`, `IndexedIsComplete`, `RecordsToLast` |
| `ServerCommands` | ring of 2, 3 commands, 2 maps or restarts, 1 snapshot in flight, times 0 to 2, 3 keys of system info | `TypeOK`, `ConfigstringsAgree`, `IntermissionIsKnown`, `ImplementsLog`, `StopsAfterMatch`, `Settles` |
| `NetConfig` | 5 names on 2 chains, 5 slots, values 0 to 2, 2 ports tried | `TypeOK`, `TableIsSound`, `PointersHold`, `SocketIsCurrent` |

Why the bounds are enough. *ReliableCommands*: the ring of two is the smallest in
which a command in flight, a cut and an empty command differ, and it overruns
with the third command; two maps make a packet and a snapshot of the wrong map
possible; the theorems below hold for any bounds. *LaunchedServers*: more
servers than process ids and table entries, so that both run out; two entries
suffice to take one out in front of another and to have a failed fork reap
another entry's bot. *ServerBrowser*: two servers change slots, so that each meets the other's
leftovers, and every age can be below, at and above its period; a ping's timeout
and the scan are one unit apart at most, as 9999 and 10000 milliseconds are. A slot
for each server is a condition of `AskedAgain`, not of the rest: with one slot for
two servers TLC finds a silent first server that has the slot in every scan while
the second is never asked. `serverWhitelist` has 256 places, and the number of slots
is a constant of the engine's headers.
*TeamSwitch*: two players and one to be named instead.
*Connection*: every age can be below, at and above what it is compared with, and
two packets each way are a late one beside a new one; the server is full from the
first request on, or from any later moment, for as long as it likes. *DemoRecorder*: two demos
with two messages each, or three short ones, with every break in each.
*ServerCommands*: a ring of two with three commands wraps, the server waits with a
third until one is acknowledged (the engine drops a client that lets more than a
ring's length wait); two ids are a map and the next, or a map and its restart; a
match ends at 1 and its intermission begins at 2, so that the bot can hear of it
in time or late; the buffer has room for a third key, and a second patch overflows
it. *NetConfig*: three names share a chain, so a variable is freed at its head, in
its middle and at its end; x is registered by the engine, a module, the user and
the server in any order, with flags that differ; the console's `net_enabled` waits for
a restart, the system info's `net_port` does not.

Four more runs show where the code does not do what it says; each is described
under `findings` in `PROJECT.json`:

* `ReliableOverrun`: `NewClientCommand` overwrites commands that were never
  acknowledged ("write any unacknowledged clientCommands", `deps.cpp:1621`).
* `TeamSwitchUnnamed`: a switch without acceptances for both named players since they
  were named ("Named players can say !a to execute", `demobot.cpp:612`).
* `ConnectionDropped`: the server's disconnect packets never end the connection
  (`deps.cpp:420`), as each renews `lastPacketTime` before it is looked at.
* `ServerCommandsScores`: the scores that should "stop the demo at this point"
  (`demobot.cpp:760`) do not, when the bot heard of the intermission late: its
  second until intermission counts from then.

### Fairness

Only five specifications assume any. The bot's and the scanner's loops go on
(weak fairness): `NET_Sleep` and `curl_multi_wait` return after a second, in the
scanner after ten. Time passes: strong fairness on a turn in which the clock has
moved. The network loses any packet, but not for ever every packet of a kind:
strong fairness on the kinds that matter (a gamestate sent again, a command
executed, a snapshot or gamestate read; a handshake answer given and read; a status
request that arrives, and its answer read). That
is more than UDP promises and no more than the code needs, which has no other way
to get on than to repeat itself. A packet that never arrives is dropped where it
would have been read (`LoseToClient`, `LoseAnswer`), so a loss never saves the
bot the turn it takes to notice it; and the bound on packets in flight leaves one
place for a gamestate or for a handshake's answer, since the code repeats them
however many snapshots are on their way. The server sends snapshots for as long
as it has not dropped the client; in `Connection` it may die at any time, and
nothing makes a full one have a place: `HandshakeEnds` says what the bot does if
it is not full again and again. A bot that finds it full for ever asks for ever,
since each refusal renews `lastServerPacketTime` (`demobot.cpp` 1254); TLC finds
that behaviour when the condition is left out. In
`ServerCommands` it also sends, in the end, the system info of a restart, as it
does in its next frame. `Settles` allows one case besides the good one: the
gamestate asked for after a restart was sent and lost, and as the bot shows the
right id, nobody sends it again.

## What is proved

Every safety invariant and every action property that a run checks, and both
implementations of `CommandLog`, are also theorems, which `tlapm` checks for every
value of the constants under the modules' named assumptions: a ring has at least
two slots, a table of variables at least three, there is a player slot, a server, a
ping slot; periods are positive numbers and bounds are numbers; `NoDemo`, `NoName`, `Invalid` and the like are not ordinary values,
and a stray packet's address is not the server's. Of the callers of the variable
library `FlagsAssumption` says what their code shows: only the console makes
variables of the user's, and the engine asks for none of a module's.

Each `...Proofs` module has the inductive invariant `IInv` first, then lemmas about
the operators, then one lemma for each action, and the theorems at the end. TLC
found each `IInv` true in the bounds of its run before it was proved; `IInv` needs no run
of its own now. What follows says what each has to say besides the properties it
is for, and why those are not inductive alone.

`ReliableCommandsProofs`. `IInv` says: the ring has overrun, or `Consistent`. Its
parts are needed together:

* `Window`: what the server has executed lies between what the client knows and
  the one command that may be in flight, because one command is sent at a time;
* `PacketsInFlight`: commands in flight are the log's, none beyond
  `reliableAcknowledge + 1`, and those from `gamestateAckCmd` on were sent after
  the gamestate; that is why a gamestate may cut behind that number
  (`Q_min( reliableAcknowledge + 1, reliableSequence )`) and take the next one;
* `AcksInFlight`: acknowledges arrive in order, so `reliableAcknowledge` never
  goes back and the bound above stays;
* `MapsInFlight`: whoever acknowledges `gamestateAckCmd` in the client's map has
  seen a packet of that map, and so has stopped adding the offset;
* `Executed` and `UnacknowledgedKept`: the server's history is the log's, and the
  ring still holds what is to be sent.

One lemma for each action shows that it preserves `IInv` (`InvStep` combines
them); `OffsetTimeRejected`, `OrderKept`, `DropNeedsOverrun`, `AckCmdFresh` and
the refinement `ChannelImplementsLog` follow from it. The bounds `MaxSeq`,
`MaxMap` and `NetCap` are constants like the others: the proofs use nothing of
them but that they are numbers.

`TeamSwitchProofs`. Type correctness and `IInv` are proved together, since only
that every flag is of its slot shows that the two of a switch are slots at all:
flags are of their slots (`AcceptanceIsOfSlot`), the indices are those of the last answer and
follow the acceptances given since (`PairStands`), no index is a slot's when
nobody is named (`NobodyStands`), and both flags are never left set. From it
follow `AcceptancesAreOfSlots`, `AgreementsAreActedOn` and `SwitchesAreNamed`.

`ServerBrowserProofs`. A server must not get a second slot, so `AskedOnce` is part of
the induction; `InfoIsOwn` needs that a slot which holds an answer was answered in
this very turn (`AnswersAreNew`), since whatever is older has been collected or has
timed out (`WaitsAreShort`), and then the info in it is its present owner's and not
what the last owner left. `AnswerIsKept` follows the answer of a turn from its slot
to its server, across the scan that may come between.

`LaunchedServersProofs`. `SweepIsComplete` is inductive when no process starts
during a sweep (`ExitedStayExited`). `RunningIsTracked` is not: a process id may be
in two entries, one of them of a bot that a failed fork's entry has reaped. The
invariant asks for an entry with the bot's own server (`RunningHaveEntries`) and
that entries have different servers (`EntriesDiffer`), and `OneBotPerServer` follows
from the two. `TableWithout` says where each entry is after one is taken out.

`ConnectionProofs`. The bot's side by its state (`HandshakeIsOwn`) and the answers
on their way (`AnswersAreOwn`): what comes from elsewhere does not know the bot's
challenge, so it cannot be taken in "connecting", and its address is wrong later.

`DemoRecorderProofs`. The invariant is of a recorder state and the number of
messages read, and is proved operator by operator, as the messages compose the
operators: every body plays, on its way or stored, and no two are of one demo
(`Kept`); the body of a transfer that runs has every message from its snapshot to the
last (`Writing`); and a demo waits for the snapshot as long as it has its gamestate
only (`Waits`), which is what the next write relies on.

`ServerCommandsProofs`. The server's log is ordered by map (`Ordered`), messages are
stretches of it that begin behind the acknowledged (`MessagesAreOfLog`), the ring has
the last `K` commands (`Recent`) and what is not executed is among them
(`WindowIsOpen`): so the bot executes the log, and nothing else (`ExecutedIsPrefix`,
`ChannelImplementsLog`). `ConfigstringFollows` says which prefix of the log the
configstring shows: what was executed, or, after a gamestate and until its message's
commands have been executed, what was stored. `StopsAfterMatch` is an action
property and follows from the invariant in the state before the step.

`NetConfigProofs`. The facts about chains come first: a chain's set of slots when a
slot is put in front (`ThreadsWithNew`), taken out anywhere (`ThreadsWithout`), or when
others change (`ThreadsOfOthers`). Each operation of `Cvars` is then shown to keep the
table `Sound`, and to keep what the engine has (`Keeps`): its variables stay, stay the
engine's, and are marked when their value changes. That is why a pointer holds
(`PointersAreEngines`: the variable pointed to is the engine's, so no unset and no
restart takes it away) and why the socket follows (`SocketFollows`). `LoopIsSound`
says of `Cvar_Restart` that all that must still go lies behind `curvar`;
`NetVariablesAreThere` that the first `NET_Init` finds room.

Only model-checked: the liveness properties (`TimeIsBelieved`, `HandshakeEnds`,
`DeadServerIsLeft`, `EntryIsCleared`, `AskedAgain`, `StatusIsLearnt`, `Settles`), since
the prover treats neither fairness nor `ENABLED`. That a loop's operator which is
folded or chosen finds what the loop finds is not an induction the provers can do
either; where a definition replaces a loop (`OnChain`, the search of a free slot), the
proofs use what it says of the result. `ExecutedInOrder` is proved and needs no run
of its own: `ImplementsLog` says what it says, step by step.

## What is not modelled

* Usercmds, entity and snapshot contents, Huffman coding and the netchan's
  fragments: data no property tells apart.
* The players' configstrings (names, teams, ratings), which `!who`, `!elos` and
  the count of humans read; a message that ends the program (`ERR_DROP`).
* Errors of libcurl and of memory; blocking HTTP requests in a chat command.
* A child of the scanner in which `execl` fails: it returns -1 from `SpawnClient`
  and goes on as a second scanner (`serverscanner.cpp` 231). An id cut off a system
  info that grew too long (`deps.cpp` 257): the model's stands before the cut.
* The master servers' lists (their requests are commented out) and the `ping`
  command; DNS lookups, which block `FindPopulatedServers`.
* Of the copied OpenJK code: in `cvar.cpp` printing, completion, descriptions,
  info strings, memory pools, `cvar_modifiedFlags` and the modules' copies; in
  `cmd.cpp` the tokenizer; in `net_ip.cpp` SOCKS, which no code turns on, address
  resolution and packet I/O. The Windows branches.
* The file recorder (`CL_StartDemo`, `CL_StopDemo`, `CL_IndexDemo`), which
  `main` replaces by the uploads.

## Plan

1. A composition of `ServerBrowser` with `LaunchedServers`, in which the count of
   humans is no longer an input: what an info and a status show, a status that is
   never asked again, and that a server with humans gets a bot in the end.
2. A composition of `ReliableCommands`, `ServerCommands` and `DemoRecorder` at
   the main loop: what leaving still sends, records and has indexed.
3. `Connection` with a server that restarts and forgets its challenge;
   `ScannerConfig`, the merge of passwords and whitelist.
4. Proofs of those compositions, on top of the components' invariants, which are
   proved; an abstract specification of the recorder (a demo is begun, grows, is
   complete or lost) that `DemoRecorder` implements.
