------------------------------ MODULE TeamSwitch ------------------------------
(***************************************************************************)
(* The chat commands by which players let the bot even the teams.  !teams  *)
(* asks the player database, which may name a red and a blue player to     *)
(* switch (Cmd_Teams_f); !a accepts in the name of one of them, and once   *)
(* both have accepted the bot sends the server two forceteam commands      *)
(* (Cmd_AcceptSwitch_f, CL_Rcon_f).                                        *)
(*                                                                         *)
(* DemoBot/demobot.cpp.  The chat, the database and the game server are    *)
(* external.  The wording of a chat line is abstracted to the command it   *)
(* starts with (chatCommand) and the player its name or its argument       *)
(* stands for (SV_GetPlayerByHandle): that may be any player, as players   *)
(* may share a name and anyone may write "!a" with the name of another.    *)
(* The code knows players by their slots only, and so does this module: an *)
(* acceptance is one in a slot's name, whoever makes it, and whoever comes *)
(* into a slot is taken for the player who left it.                        *)
(***************************************************************************)
EXTENDS Integers, FiniteSets

CONSTANTS
    MAX_CLIENTS,  \* the server's player slots are 0 .. MAX_CLIENTS - 1
    MaxRcon,      \* bound: forceteam commands on their way at a time
    Unasked,      \* no !teams has been answered yet
    Nobody        \* the last answer names no players, or they have switched

ASSUME ClientsAssumption == MAX_CLIENTS \in Nat \ {0}
ASSUME BoundAssumption == MaxRcon \in Nat
ASSUME NamingsAssumption ==
    Unasked # Nobody /\ {Unasked, Nobody} \cap (Nat \X Nat) = {}

Clients == 0 .. MAX_CLIENTS - 1
Teams == {"red", "blue", "neither"}

VARIABLES
    team,         \* each slot's team, "neither" for a spectator or nobody
    teamSwitch,   \* teamSwitch_t: the slots to switch, and if accepted
    rcon,         \* forceteam commands on their way to the server
    named,        \* history: the slots of the last answer to !teams
    agreed,       \* history: acceptances since the last switch, if any
    agreedToPair  \* history: acceptances since the named pair was named

vars == <<team, teamSwitch, rcon, named, agreed, agreedToPair>>

Acceptances == Clients \X {"red", "blue"}

TypeOK ==
    /\ team \in [Clients -> Teams]
    /\ teamSwitch \in [redIdx : 0 .. MAX_CLIENTS, blueIdx : 0 .. MAX_CLIENTS,
                       redAccepted : BOOLEAN, blueAccepted : BOOLEAN]
    /\ rcon \subseteq [client : Clients, team : {"red", "blue"}]
    /\ named \in (Clients \X Clients) \cup {Unasked, Nobody}
    /\ agreed \subseteq Acceptances
    /\ agreedToPair \subseteq Acceptances

\* teamSwitch is a global variable that nothing initializes: all zero.
Init ==
    /\ team = [c \in Clients |-> "neither"]
    /\ teamSwitch = [redIdx |-> 0, blueIdx |-> 0,
                     redAccepted |-> FALSE, blueAccepted |-> FALSE]
    /\ rcon = {}
    /\ named = Unasked
    /\ agreed = {}
    /\ agreedToPair = {}

(***************************************************************************)
(* !teams                                                                  *)
(***************************************************************************)

\* Nobody is to switch.
ClearedButForNames ==
    [teamSwitch EXCEPT !.redAccepted = FALSE, !.blueAccepted = FALSE]

ClearedToUnknown ==
    [redIdx |-> -1, blueIdx |-> -1,
     redAccepted |-> FALSE, blueAccepted |-> FALSE]

Cleared ==
    [redIdx |-> MAX_CLIENTS, blueIdx |-> MAX_CLIENTS,
     redAccepted |-> FALSE, blueAccepted |-> FALSE]

\* Red r and blue b are to switch.  Who was named before has still accepted.
NamingKeepsBlue(r, b) ==
    [redIdx |-> r, blueIdx |-> b,
     redAccepted |-> teamSwitch.redAccepted /\ r = teamSwitch.redIdx,
     blueAccepted |-> teamSwitch.blueAccepted]

Naming(r, b) ==
    [redIdx |-> r, blueIdx |-> b,
     redAccepted |-> teamSwitch.redAccepted /\ r = teamSwitch.redIdx,
     blueAccepted |-> teamSwitch.blueAccepted /\ b = teamSwitch.blueIdx]

\* The database names two of the players in the teams it was sent.
TeamsSuggestsSwitch ==
    /\ \E r, b \in Clients :
           /\ team[r] = "red"
           /\ team[b] = "blue"
           /\ teamSwitch' = Naming(r, b)
           /\ named' = <<r, b>>
           /\ agreedToPair' = IF named = <<r, b>> THEN agreedToPair ELSE {}
    /\ UNCHANGED <<team, rcon, agreed>>

TeamsSuggestsNothing ==
    /\ teamSwitch' = Cleared
    /\ named' = Nobody
    /\ agreed' = {}
    /\ agreedToPair' = {}
    /\ UNCHANGED <<team, rcon>>

\* A player has no unique id, the database is not reached or its answer not
\* understood: the bot says so in the chat and the last naming stands.
TeamsFails == UNCHANGED vars

(***************************************************************************)
(* !a                                                                      *)
(***************************************************************************)

\* The flag that an acceptance in the name of player c sets, if any.
FlagSet(c) ==
    IF team[c] = "blue" /\ c = teamSwitch.blueIdx THEN {"blue"}
    ELSE IF team[c] = "red" /\ c = teamSwitch.redIdx THEN {"red"}
    ELSE {}

AcceptedOnce(c) ==
    [teamSwitch EXCEPT !.blueAccepted = "blue" \in FlagSet(c),
                       !.redAccepted = "red" \in FlagSet(c)]

Accepted(c) ==
    [teamSwitch EXCEPT !.blueAccepted = @ \/ "blue" \in FlagSet(c),
                       !.redAccepted = @ \/ "red" \in FlagSet(c)]

BothAccepted(ts) == ts.redAccepted /\ ts.blueAccepted

\* One of the two is to follow, or c is neither of them.
AcceptSwitch(c) ==
    /\ ~BothAccepted(Accepted(c))
    /\ teamSwitch' = Accepted(c)
    /\ agreed' = agreed \cup ({c} \X FlagSet(c))
    /\ agreedToPair' = agreedToPair \cup ({c} \X FlagSet(c))
    /\ UNCHANGED <<team, rcon, named>>

ForceTeam ==
    {[client |-> teamSwitch.blueIdx, team |-> "red"],
     [client |-> teamSwitch.redIdx, team |-> "blue"]}

\* Both have accepted: switch them and forget them.
ExecuteSwitch(c) ==
    /\ BothAccepted(Accepted(c))
    /\ rcon' = rcon \cup ForceTeam
    /\ Cardinality(rcon') <= MaxRcon
    /\ teamSwitch' = Cleared
    /\ named' = IF named = Unasked THEN Unasked ELSE Nobody
    /\ agreed' = {}
    /\ agreedToPair' = {}
    /\ UNCHANGED team

\* The name is that of no player: the bot says so.
AcceptUnknown == UNCHANGED vars

(***************************************************************************)
(* The game server (external).                                             *)
(***************************************************************************)

\* A player joins, leaves or changes teams.
PlayerMoves ==
    /\ \E c \in Clients, t \in Teams : team' = [team EXCEPT ![c] = t]
    /\ UNCHANGED <<teamSwitch, rcon, named, agreed, agreedToPair>>

\* A forceteam command, an unreliable packet of its own, arrives, or is lost
\* or finds the player gone.
ServerForcesTeam ==
    /\ \E m \in rcon :
           /\ rcon' = rcon \ {m}
           /\ team' = [team EXCEPT ![m.client] = m.team]
    /\ UNCHANGED <<teamSwitch, named, agreed, agreedToPair>>

LoseForceTeam ==
    /\ \E m \in rcon : rcon' = rcon \ {m}
    /\ UNCHANGED <<team, teamSwitch, named, agreed, agreedToPair>>

Next ==
    \/ TeamsSuggestsSwitch \/ TeamsSuggestsNothing \/ TeamsFails
    \/ \E c \in Clients : AcceptSwitch(c) \/ ExecuteSwitch(c)
    \/ AcceptUnknown
    \/ PlayerMoves \/ ServerForcesTeam \/ LoseForceTeam

Spec == Init /\ [][Next]_vars

(***************************************************************************)
(* Properties.                                                             *)
(***************************************************************************)

SwitchSent == \E c \in Clients : ExecuteSwitch(c)

\* Once !teams has been answered, only the two slots of its last answer are
\* switched, and only once: neither the slots of an earlier answer, nor of one
\* that a later answer took back, nor the same two a second time (Cmd_Teams_f
\* and Cmd_AcceptSwitch_f together).
SwitchIsNamed ==
    [][SwitchSent /\ named # Unasked
           => named = <<teamSwitch.redIdx, teamSwitch.blueIdx>>]_vars

\* A flag stays with the slot it was set for: a slot counts as accepted only
\* if an acceptance was made in its name, while its player was in the team it
\* is to leave, since the last switch or empty answer.  Whatever slots are
\* named after it, its flag does not pass to one of them (Cmd_Teams_f, the
\* comparison of the indices).
AcceptanceIsOfSlot ==
    /\ teamSwitch.redAccepted => <<teamSwitch.redIdx, "red">> \in agreed
    /\ teamSwitch.blueAccepted => <<teamSwitch.blueIdx, "blue">> \in agreed

\* When acceptances have been made in the name of both slots since they were
\* named the switch has been sent: one is not lost to the other's or to the
\* database naming the same two again.
AgreementIsActedOn ==
    named \in Clients \X Clients
        => ~({<<named[1], "red">>, <<named[2], "blue">>} \subseteq agreedToPair)

\* "Named players can say !a to execute" (demobot.cpp:612): a switch is sent
\* only when both players were named together, and acceptances in the name of
\* both have been made since.
NamedPlayersExecute ==
    [][SwitchSent =>
        /\ named = <<teamSwitch.redIdx, teamSwitch.blueIdx>>
        /\ \A c \in Clients : ExecuteSwitch(c) =>
               {<<named[1], "red">>, <<named[2], "blue">>}
                   \subseteq agreedToPair \cup ({c} \X FlagSet(c))]_vars

(***************************************************************************)
(* The inductive invariant.                                                *)
(***************************************************************************)

\* The indices are those of the slots last named, and each of them that has
\* accepted since has its flag.
PairStands ==
    named \in Clients \X Clients =>
        /\ named = <<teamSwitch.redIdx, teamSwitch.blueIdx>>
        /\ <<named[1], "red">> \in agreedToPair => teamSwitch.redAccepted
        /\ <<named[2], "blue">> \in agreedToPair => teamSwitch.blueAccepted

\* When the last answer names nobody, the indices are no slot's.
NobodyStands ==
    named = Nobody => /\ teamSwitch.redIdx = MAX_CLIENTS
                      /\ teamSwitch.blueIdx = MAX_CLIENTS

\* The invariant the theorems of TeamSwitchProofs rest on: with the flags
\* of their slots and the names in step, a switch is never left unsent.
IInv ==
    /\ AcceptanceIsOfSlot
    /\ PairStands
    /\ NobodyStands
    /\ ~BothAccepted(teamSwitch)
=============================================================================
