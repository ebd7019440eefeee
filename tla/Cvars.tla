-------------------------------- MODULE Cvars --------------------------------
(***************************************************************************)
(* The console variables: a table of slots, the list and the hash chains   *)
(* that thread its slots, and the rules by which a variable's value and    *)
(* flags change.                                                           *)
(*                                                                         *)
(* DemoBot/cvar.cpp, as operators from one state of the table to the next. *)
(* The bot itself gets and sets variables; the operations of the console   *)
(* and of game modules are there for any caller.  NetConfig composes them  *)
(* with the code whose sockets follow the variables.                       *)
(*                                                                         *)
(* Values are numbers.  What nothing in the repository reads is left out:  *)
(* cvar_modifiedFlags, modificationCount with the modules' copies, the     *)
(* marks of "seta", "sets" and "setu", and descriptions.                   *)
(***************************************************************************)
EXTENDS Integers, FiniteSetsExt

CONSTANTS
    MaxCvars,   \* MAX_CVARS
    Names,      \* names of variables
    Buckets,    \* hash values, each as the set of the names that have it
    Legacy,     \* legacyCvars
    Cheats,     \* "sv_cheats"
    NoName,     \* a slot that is free
    Low, High,  \* the range given to Cvar_CheckRange
    MaxValue    \* bound: values are 0 to this

ASSUME NamesAssumption ==
    /\ Cheats \in Names /\ NoName \notin Names
    /\ \A n \in Names : \E b \in Buckets : n \in b
    /\ \A a, b \in Buckets : a \cap b = {} \/ a = b
ASSUME SlotsAssumption == MaxCvars \in Nat \ {0}
ASSUME RangeAssumption ==
    /\ Low \in Nat /\ High \in Nat /\ MaxValue \in Nat \ {0}
    /\ Low <= High /\ High <= MaxValue

VARIABLE cvars \* the table

Slots == 1 .. MaxCvars
Null == -1
Values == 0 .. MaxValue
Flags == {"ARCHIVE", "CHEAT", "INIT", "LATCH", "NORESTART", "PROTECTED", "ROM",
          "SERVER_CREATED", "SYSTEMINFO", "USER_CREATED", "VM_CREATED"}

Hash(n) == CHOOSE b \in Buckets : n \in b

\* A slot is 1 to MaxCvars, a pointer to none is 0.
Variable ==
    [name : Names, string : Values, latchedString : Values \cup {Null},
     resetString : Values, flags : SUBSET Flags, validate : BOOLEAN,
     modified : BOOLEAN, next : {0} \cup Slots, prev : {0} \cup Slots,
     hashNext : {0} \cup Slots, hashPrev : {0} \cup Slots]

Free ==
    [name |-> NoName, string |-> 0, latchedString |-> Null, resetString |-> 0,
     flags |-> {}, validate |-> FALSE, modified |-> FALSE,
     next |-> 0, prev |-> 0, hashNext |-> 0, hashPrev |-> 0]

\* cvar_indexes, cvar_vars, hashTable; whether Com_Error ended the program.
Tables ==
    [index : [Slots -> Variable \cup {Free}], vars : {0} \cup Slots,
     hash : [Buckets -> {0} \cup Slots], error : BOOLEAN]

Empty ==
    [index |-> [s \in Slots |-> Free], vars |-> 0,
     hash |-> [b \in Buckets |-> 0], error |-> FALSE]

Nexts(c) == [s \in Slots |-> c.index[s].next]
Prevs(c) == [s \in Slots |-> c.index[s].prev]
HashNexts(c) == [s \in Slots |-> c.index[s].hashNext]
HashPrevs(c) == [s \in Slots |-> c.index[s].hashPrev]

(***************************************************************************)
(* Finding, linking and unlinking.                                         *)
(***************************************************************************)
\* Slot s is reached from slot first: no set of slots has first, and the link
\* of each of its slots, but not s.
OnChain(s, first, link) ==
    /\ first # 0
    /\ \A T \in SUBSET (Slots \ {s}) :
           first \in T => \E t \in T : link[t] \notin T \cup {0}

Chain(first, link) == {s \in Slots : OnChain(s, first, link)}

Cvar_FindVar(c, n) ==
    LET found == {s \in Slots : /\ c.index[s].name = n
                                /\ OnChain(s, c.hash[Hash(n)], HashNexts(c))}
    IN  IF found = {} THEN 0 ELSE CHOOSE s \in found : TRUE

FreeSlots(c) == {s \in Slots : c.index[s].name = NoName}

\* The end of Cvar_Get: the variable goes to the front of both lists.
NewVariable(n, value, flags, next, hashNext) ==
    [Free EXCEPT !.name = n, !.string = value, !.resetString = value,
                 !.flags = flags, !.modified = TRUE,
                 !.next = next, !.hashNext = hashNext]

Created(c, n, value, flags) ==
    LET s == Min(FreeSlots(c))
        first == c.hash[Hash(n)]
    IN  IF FreeSlots(c) = {} THEN [c EXCEPT !.error = TRUE]
        ELSE [c EXCEPT
                !.index = [i \in Slots |->
                    IF i = s THEN NewVariable(n, value, flags, c.vars, first)
                    ELSE [c.index[i] EXCEPT
                             !.prev = IF i = c.vars THEN s ELSE @,
                             !.hashPrev = IF i = first THEN s ELSE @]],
                !.vars = s,
                !.hash[Hash(n)] = s]

\* Cvar_Unset: the neighbours are joined and the slot is zeroed.
ZeroedName(v) == [v EXCEPT !.name = NoName]

Zeroed(v) == Free

JoinedForward(c, v, i) ==
    [c.index[i] EXCEPT
        !.next = IF i = v.prev THEN v.next ELSE @,
        !.hashNext = IF i = v.hashPrev THEN v.hashNext ELSE @]

Joined(c, v, i) ==
    [c.index[i] EXCEPT
        !.next = IF i = v.prev THEN v.next ELSE @,
        !.prev = IF i = v.next THEN v.prev ELSE @,
        !.hashNext = IF i = v.hashPrev THEN v.hashNext ELSE @,
        !.hashPrev = IF i = v.hashNext THEN v.hashPrev ELSE @]

Unset(c, s) ==
    LET v == c.index[s]
    IN  [c EXCEPT
            !.index = [i \in Slots |-> IF i = s THEN Zeroed(v) ELSE Joined(c, v, i)],
            !.vars = IF v.prev = 0 THEN v.next ELSE @,
            !.hash[Hash(v.name)] = IF v.hashPrev = 0 THEN v.hashNext ELSE @]

(***************************************************************************)
(* Values.                                                                 *)
(***************************************************************************)
Cvar_Validate(v, value) ==
    IF ~v.validate THEN value
    ELSE IF value < Low THEN Low ELSE IF value > High THEN High ELSE value

CheatsEnabled(c) == c.index[Cvar_FindVar(c, Cheats)].string # 0

\* The rules that keep an unforced value from a variable.
Protected(c, v) ==
    \/ v.flags \cap {"ROM", "INIT"} # {}
    \/ "LATCH" \notin v.flags /\ "CHEAT" \in v.flags /\ ~CheatsEnabled(c)

AssignedSilently(v, value) == [v EXCEPT !.string = value]

Assigned(v, value) == [v EXCEPT !.string = value, !.modified = TRUE]

\* Cvar_Set2 on the variable v, with its early returns in their order.
Changed(c, v, wanted, force) ==
    LET value == Cvar_Validate(v, wanted)
        latched == "LATCH" \in v.flags /\ v.latchedString # Null
    IN  IF latched /\ value = v.string THEN [v EXCEPT !.latchedString = Null]
        ELSE IF \/ value = v.string
                \/ latched /\ value = v.latchedString
                \/ ~force /\ Protected(c, v)
        THEN v
        ELSE IF ~force /\ "LATCH" \in v.flags
        THEN [v EXCEPT !.latchedString = value, !.modified = TRUE]
        ELSE Assigned([v EXCEPT !.latchedString = IF force THEN Null ELSE @],
                      value)

Cvar_Set2(c, n, value, defaultFlags, force) ==
    LET s == Cvar_FindVar(c, n)
    IN  IF s = 0 THEN Created(c, n, value, defaultFlags)
        ELSE [c EXCEPT !.index[s] = Changed(c, c.index[s], value, force)]

Cvar_Set(c, n, value) == Cvar_Set2(c, n, value, {}, TRUE)

Cvar_User_Set(c, n, value) == Cvar_Set2(c, n, value, {"USER_CREATED"}, FALSE)

\* Cvar_Set2 without a value.
Cvar_Reset(c, n, force) ==
    LET s == Cvar_FindVar(c, n)
    IN  IF s = 0 THEN c
        ELSE Cvar_Set2(c, n, c.index[s].resetString, {}, force)

(***************************************************************************)
(* Registering.                                                            *)
(***************************************************************************)
\* Flags that say who made a variable go once the engine or, for two of
\* them, a game module or the server asks for it without them.
KeptFlagsUser(v, flags) ==
    v.flags \ ({"VM_CREATED", "SERVER_CREATED"} \ flags)

KeptFlags(v, flags) ==
    v.flags \ ({"USER_CREATED"} \cup ({"VM_CREATED", "SERVER_CREATED"} \ flags))

GivenFlags(v, flags) ==
    flags \ ((IF v.flags \cap {"VM_CREATED", "USER_CREATED"} = {}
              THEN {"VM_CREATED"} ELSE {})
             \cup ({"SERVER_CREATED"} \ v.flags))

Cvar_Get(c, n, value, flags) ==
    LET s == Cvar_FindVar(c, n)
        v == c.index[s]
        byUser == "USER_CREATED" \in v.flags
        given == Cvar_Validate(v, value)
        latched == IF byUser /\ "ROM" \in flags THEN given ELSE v.latchedString
        got == [v EXCEPT
                   !.flags = KeptFlags(v, flags) \cup GivenFlags(v, flags),
                   !.resetString = IF byUser THEN given ELSE @,
                   !.latchedString = Null]
    IN  IF s = 0 THEN Created(c, n, value, flags)
        ELSE [c EXCEPT !.index[s] =
                 IF latched = Null THEN got ELSE Changed(c, got, latched, TRUE)]

\* Cvar_Register, whose copy of the value is left out.
Cvar_Register(c, n, value, flags) ==
    Cvar_Get(c, n, value,
             {"VM_CREATED"} \cup (IF {"ARCHIVE", "ROM"} \subseteq flags
                                  THEN flags \ {"ROM"} ELSE flags))

(***************************************************************************)
(* The server, cheats, ranges, and the console.                            *)
(***************************************************************************)
\* A PROTECTED variable is an ERR_DROP, and is not set.
Cvar_Server_Set(c, n, value) ==
    LET s == Cvar_FindVar(c, n)
        flags == c.index[s].flags
    IN  IF /\ s # 0
           /\ \/ "PROTECTED" \in flags
              \/ /\ flags \cap {"SYSTEMINFO", "SERVER_CREATED", "USER_CREATED"} = {}
                 /\ n \notin Legacy
        THEN c
        ELSE Cvar_Set2(c, n, value, {"SERVER_CREATED"}, TRUE)

Cvar_SetCheatState(c) ==
    [c EXCEPT !.index = [s \in Slots |->
        LET v == [c.index[s] EXCEPT !.latchedString = Null]
        IN  IF "CHEAT" \notin v.flags THEN c.index[s]
            ELSE IF v.string = v.resetString THEN v
            ELSE Changed(c, v, v.resetString, TRUE)]]

Cvar_CheckRange(c, n) ==
    LET s == Cvar_FindVar(c, n)
        v == c.index[s]
    IN  [c EXCEPT !.index[s] =
            Changed(c, [v EXCEPT !.validate = TRUE], v.string, TRUE)]

Cvar_Toggle(c, n) ==
    LET s == Cvar_FindVar(c, n)
    IN  Cvar_User_Set(c, n, IF s # 0 /\ c.index[s].string # 0 THEN 0 ELSE 1)

Unsettable(c, s) == "USER_CREATED" \in c.index[s].flags

Cvar_Unset_f(c, n) ==
    LET s == Cvar_FindVar(c, n)
    IN  IF s # 0 /\ Unsettable(c, s) THEN Unset(c, s) ELSE c

\* One turn of the loop of Cvar_Restart, at slot s.
Outgoing(v, unsetVM) ==
    "USER_CREATED" \in v.flags \/ (unsetVM /\ "VM_CREATED" \in v.flags)

Cvar_RestartTurn(c, s, unsetVM) ==
    LET v == c.index[s]
    IN  IF Outgoing(v, unsetVM) THEN Unset(c, s)
        ELSE IF v.flags \cap {"ROM", "INIT", "NORESTART"} # {} THEN c
        ELSE Cvar_Set2(c, v.name, v.resetString, {}, FALSE)

\* Cvar_Init
Cvar_Init == Created(Empty, Cheats, 1, {"ROM", "SYSTEMINFO"})

(***************************************************************************)
(* Properties of a table.                                                  *)
(***************************************************************************)
Named(c) == {s \in Slots : c.index[s].name # NoName}

\* The list and, for each hash, its chain thread all named slots, both ways.
Threads(slots, first, next, prev) ==
    /\ Chain(first, next) = slots
    /\ \A s \in slots :
        /\ prev[s] = 0 <=> s = first
        /\ next[s] # 0 => prev[next[s]] = s

Hashed(c, b) == {s \in Named(c) : Hash(c.index[s].name) = b}

WellThreaded(c) ==
    /\ Threads(Named(c), c.vars, Nexts(c), Prevs(c))
    /\ \A b \in Buckets :
           Threads(Hashed(c, b), c.hash[b], HashNexts(c), HashPrevs(c))
    /\ \A s, t \in Named(c) : c.index[s].name = c.index[t].name => s = t

\* A value waits only in a latched variable, and is another than the present
\* one; a variable with a range has no value outside it, nor does one wait.
ValueIsSound(v) ==
    LET waiting == {v.latchedString} \ {Null}
    IN  /\ waiting # {} =>
               "LATCH" \in v.flags /\ v.latchedString # v.string
        /\ v.validate => {v.string} \cup waiting \subseteq Low .. High

WellValued(c) == \A s \in Named(c) : ValueIsSound(c.index[s])
=============================================================================
