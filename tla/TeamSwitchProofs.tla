--------------------------- MODULE TeamSwitchProofs ---------------------------
(***************************************************************************)
(* Proofs about TeamSwitch, for any number of player slots: the slots      *)
(* switched are those of the last answer, and no slot is switched on the   *)
(* acceptance made for another.                                            *)
(***************************************************************************)
EXTENDS TeamSwitch, TLAPS

\* The two values of "named" that are no pair are told from every pair.
LEMMA NamingsDiffer ==
    /\ Unasked # Nobody
    /\ Unasked \notin Clients \X Clients
    /\ Nobody \notin Clients \X Clients
  <1>1. Clients \X Clients \subseteq Nat \X Nat
    BY ClientsAssumption DEF Clients
  <1>. QED  BY <1>1, NamingsAssumption

\* A slot is not the index that stands for nobody.
LEMMA ClientIndex ==
    ASSUME NEW c \in Clients
    PROVE  c \in 0 .. MAX_CLIENTS /\ c # MAX_CLIENTS
  BY ClientsAssumption DEF Clients

LEMMA NobodyIndex == MAX_CLIENTS \in 0 .. MAX_CLIENTS
  BY ClientsAssumption

\* Every value teamSwitch takes has its type.
LEMMA TeamSwitchTypes ==
    ASSUME TypeOK
    PROVE  LET Type == [redIdx : 0 .. MAX_CLIENTS, blueIdx : 0 .. MAX_CLIENTS,
                        redAccepted : BOOLEAN, blueAccepted : BOOLEAN]
           IN  /\ Cleared \in Type
               /\ \A r, b \in Clients : Naming(r, b) \in Type
               /\ \A c \in Clients : Accepted(c) \in Type
  <1>1. \A r, b \in Clients :
            /\ (teamSwitch.redAccepted /\ r = teamSwitch.redIdx) \in BOOLEAN
            /\ (teamSwitch.blueAccepted /\ b = teamSwitch.blueIdx) \in BOOLEAN
    BY DEF TypeOK
  <1>. QED
    BY <1>1, ClientIndex, NobodyIndex DEF TypeOK, Cleared, Naming, Accepted

\* What an acceptance in the name of c does to the two flags.
LEMMA AcceptedFlags ==
    ASSUME TypeOK, NEW c \in Clients
    PROVE  /\ Accepted(c).redIdx = teamSwitch.redIdx
           /\ Accepted(c).blueIdx = teamSwitch.blueIdx
           /\ Accepted(c).redAccepted
                  <=> teamSwitch.redAccepted \/ "red" \in FlagSet(c)
           /\ Accepted(c).blueAccepted
                  <=> teamSwitch.blueAccepted \/ "blue" \in FlagSet(c)
  BY DEF TypeOK, Accepted

\* An acceptance sets the flag of its own slot, and one at most.
LEMMA FlagOwner ==
    ASSUME NEW c
    PROVE  /\ FlagSet(c) \subseteq {"red", "blue"}
           /\ "red" \in FlagSet(c) => teamSwitch.redIdx = c
           /\ "blue" \in FlagSet(c) => teamSwitch.blueIdx = c
  BY DEF FlagSet

\* Flags that are of their slots still are after one more acceptance.
LEMMA StillOfSlot ==
    ASSUME TypeOK, AcceptanceIsOfSlot, NEW c \in Clients
    PROVE  LET now == agreed \cup ({c} \X FlagSet(c))
           IN  /\ now \subseteq Acceptances
               /\ Accepted(c).redAccepted => <<teamSwitch.redIdx, "red">> \in now
               /\ Accepted(c).blueAccepted
                      => <<teamSwitch.blueIdx, "blue">> \in now
  BY AcceptedFlags, FlagOwner DEF TypeOK, AcceptanceIsOfSlot, Acceptances

\* The two that a switch moves are slots.
LEMMA SwitchedAreClients ==
    ASSUME TypeOK, AcceptanceIsOfSlot, NEW c \in Clients, ExecuteSwitch(c)
    PROVE  teamSwitch.redIdx \in Clients /\ teamSwitch.blueIdx \in Clients
  <1>1. Accepted(c).redAccepted /\ Accepted(c).blueAccepted
    BY DEF ExecuteSwitch, BothAccepted
  <1>. QED  BY <1>1, StillOfSlot DEF Acceptances

LEMMA TypeInit == Init => TypeOK
  BY ClientsAssumption DEF Init, TypeOK, Clients, Teams

LEMMA TypeNext == TypeOK /\ AcceptanceIsOfSlot /\ [Next]_vars => TypeOK'
  <1>. SUFFICES ASSUME TypeOK, AcceptanceIsOfSlot, [Next]_vars PROVE TypeOK'
    OBVIOUS
  <1>1. CASE TeamsSuggestsSwitch
    BY <1>1, TeamSwitchTypes DEF TypeOK, TeamsSuggestsSwitch
  <1>2. CASE TeamsSuggestsNothing
    BY <1>2, TeamSwitchTypes DEF TypeOK, TeamsSuggestsNothing
  <1>3. ASSUME NEW c \in Clients, AcceptSwitch(c) PROVE TypeOK'
    <2>1. {c} \X FlagSet(c) \subseteq Acceptances
      BY FlagOwner DEF Acceptances
    <2>. QED
      BY <1>3, <2>1, TeamSwitchTypes DEF TypeOK, AcceptSwitch
  <1>4. ASSUME NEW c \in Clients, ExecuteSwitch(c) PROVE TypeOK'
    <2>1. ForceTeam \subseteq [client : Clients, team : {"red", "blue"}]
      BY <1>4, SwitchedAreClients DEF ForceTeam
    <2>. QED
      BY <1>4, <2>1, TeamSwitchTypes DEF TypeOK, ExecuteSwitch
  <1>5. CASE PlayerMoves
    BY <1>5 DEF TypeOK, PlayerMoves
  <1>6. CASE ServerForcesTeam
    BY <1>6 DEF TypeOK, ServerForcesTeam, Teams
  <1>7. CASE LoseForceTeam
    BY <1>7 DEF TypeOK, LoseForceTeam
  <1>8. CASE UNCHANGED vars
    BY <1>8 DEF TypeOK, vars
  <1>. QED
    BY <1>1, <1>2, <1>3, <1>4, <1>5, <1>6, <1>7, <1>8
    DEF Next, TeamsFails, AcceptUnknown

(***************************************************************************)
(* The inductive invariant.                                                *)
(***************************************************************************)

LEMMA InvInit == Init => IInv
  BY NamingsDiffer
  DEF Init, IInv, AcceptanceIsOfSlot, PairStands, NobodyStands, BothAccepted

\* A naming keeps the flag of a slot named again, and drops the others.
LEMMA NamingKeeps ==
    ASSUME TypeOK, IInv, TeamsSuggestsSwitch
    PROVE  IInv'
  <1>1. PICK r \in Clients, b \in Clients :
            /\ teamSwitch' = Naming(r, b)
            /\ named' = <<r, b>>
            /\ agreedToPair' = IF named = <<r, b>> THEN agreedToPair ELSE {}
    BY DEF TeamsSuggestsSwitch
  <1>2. /\ teamSwitch'.redIdx = r
        /\ teamSwitch'.blueIdx = b
        /\ teamSwitch'.redAccepted
               <=> teamSwitch.redAccepted /\ r = teamSwitch.redIdx
        /\ teamSwitch'.blueAccepted
               <=> teamSwitch.blueAccepted /\ b = teamSwitch.blueIdx
    BY <1>1 DEF Naming
  <1>3. agreed' = agreed
    BY DEF TeamsSuggestsSwitch
  <1>4. AcceptanceIsOfSlot'
    BY <1>2, <1>3 DEF IInv, AcceptanceIsOfSlot
  <1>5. PairStands'
    BY <1>1, <1>2 DEF IInv, PairStands
  <1>6. NobodyStands'
    BY <1>1, NamingsDiffer DEF NobodyStands
  <1>7. ~BothAccepted(teamSwitch)'
    BY <1>2 DEF IInv, BothAccepted
  <1>. QED  BY <1>4, <1>5, <1>6, <1>7 DEF IInv

\* An acceptance that does not complete the pair.
LEMMA AcceptKeeps ==
    ASSUME TypeOK, IInv, NEW c \in Clients, AcceptSwitch(c)
    PROVE  IInv'
  <1>1. /\ teamSwitch' = Accepted(c)
        /\ ~BothAccepted(Accepted(c))
        /\ named' = named
        /\ agreed' = agreed \cup ({c} \X FlagSet(c))
        /\ agreedToPair' = agreedToPair \cup ({c} \X FlagSet(c))
    BY DEF AcceptSwitch
  <1>2. /\ teamSwitch'.redIdx = teamSwitch.redIdx
        /\ teamSwitch'.blueIdx = teamSwitch.blueIdx
        /\ teamSwitch'.redAccepted
               <=> teamSwitch.redAccepted \/ "red" \in FlagSet(c)
        /\ teamSwitch'.blueAccepted
               <=> teamSwitch.blueAccepted \/ "blue" \in FlagSet(c)
    BY <1>1, AcceptedFlags
  <1>3. AcceptanceIsOfSlot'
    BY <1>1, <1>2, FlagOwner DEF IInv, AcceptanceIsOfSlot
  <1>4. PairStands'
    BY <1>1, <1>2 DEF IInv, PairStands
  <1>5. NobodyStands'
    BY <1>1, <1>2 DEF IInv, NobodyStands
  <1>. QED  BY <1>1, <1>3, <1>4, <1>5 DEF IInv

\* Nobody is named and no flag is set after !teams' empty answer, or after a
\* switch.
LEMMA ClearedKeeps ==
    ASSUME teamSwitch' = Cleared, named' \in {Unasked, Nobody}
    PROVE  IInv'
  BY NamingsDiffer
  DEF Cleared, IInv, AcceptanceIsOfSlot, PairStands, NobodyStands, BothAccepted

LEMMA InvNext == TypeOK /\ IInv /\ [Next]_vars => IInv'
  <1>. SUFFICES ASSUME TypeOK, IInv, [Next]_vars PROVE IInv'
    OBVIOUS
  <1>1. CASE TeamsSuggestsSwitch
    BY <1>1, NamingKeeps
  <1>2. CASE TeamsSuggestsNothing
    BY <1>2, ClearedKeeps DEF TeamsSuggestsNothing
  <1>3. ASSUME NEW c \in Clients, AcceptSwitch(c) PROVE IInv'
    BY <1>3, AcceptKeeps
  <1>4. ASSUME NEW c \in Clients, ExecuteSwitch(c) PROVE IInv'
    BY <1>4, ClearedKeeps DEF ExecuteSwitch
  <1>5. ASSUME UNCHANGED <<teamSwitch, named, agreed, agreedToPair>>
        PROVE  IInv'
    BY <1>5
    DEF IInv, AcceptanceIsOfSlot, PairStands, NobodyStands, BothAccepted
  <1>. QED
    BY <1>1, <1>2, <1>3, <1>4, <1>5
    DEF Next, TeamsFails, AcceptUnknown, PlayerMoves, ServerForcesTeam,
        LoseForceTeam, vars

LEMMA Inductive == Spec => [](TypeOK /\ IInv)
  <1>1. Init => TypeOK /\ IInv
    BY TypeInit, InvInit
  <1>2. TypeOK /\ IInv /\ [Next]_vars => (TypeOK /\ IInv)'
    BY TypeNext, InvNext DEF IInv
  <1>. QED  BY <1>1, <1>2, PTL DEF Spec

(***************************************************************************)
(* The theorems.                                                           *)
(***************************************************************************)

\* Type correctness: the slots that forceteam names are players' slots.
THEOREM TypeCorrect == Spec => []TypeOK
  BY Inductive, PTL

\* Whatever slots !teams names and in whose names !a is said in what order,
\* each flag of teamSwitch was set for the slot its index stands for.
THEOREM AcceptancesAreOfSlots == Spec => []AcceptanceIsOfSlot
  <1>1. IInv => AcceptanceIsOfSlot
    BY DEF IInv
  <1>. QED  BY <1>1, Inductive, PTL

\* When acceptances were made for both named slots since they were named, the
\* switch has been sent (Cmd_AcceptSwitch_f never waits once both flags are set).
THEOREM AgreementsAreActedOn == Spec => []AgreementIsActedOn
  <1>1. IInv => AgreementIsActedOn
    BY DEF IInv, PairStands, BothAccepted, AgreementIsActedOn
  <1>. QED  BY <1>1, Inductive, PTL

\* Once !teams has been answered, a switch moves the two slots that its last
\* answer names.
THEOREM SwitchesAreNamed == Spec => SwitchIsNamed
  <1>. DEFINE NamedSwitch ==
           SwitchSent /\ named # Unasked
               => named = <<teamSwitch.redIdx, teamSwitch.blueIdx>>
  <1>1. TypeOK /\ IInv => NamedSwitch
    <2>. SUFFICES ASSUME TypeOK, IInv, named # Unasked,
                         NEW c \in Clients, ExecuteSwitch(c)
                  PROVE  named = <<teamSwitch.redIdx, teamSwitch.blueIdx>>
      BY DEF SwitchSent
    <2>1. teamSwitch.redIdx # MAX_CLIENTS
      BY SwitchedAreClients, ClientIndex DEF IInv
    <2>2. named # Nobody
      BY <2>1 DEF IInv, NobodyStands
    <2>3. named \in Clients \X Clients
      BY <2>2 DEF TypeOK
    <2>. QED  BY <2>3 DEF IInv, PairStands
  <1>2. TypeOK /\ IInv => [NamedSwitch]_vars
    BY <1>1
  <1>. QED  BY <1>2, Inductive, PTL DEF SwitchIsNamed
=============================================================================
