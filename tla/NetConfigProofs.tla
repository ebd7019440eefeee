--------------------------- MODULE NetConfigProofs ---------------------------
(***************************************************************************)
(* The table of the console variables stays sound, the pointers into it    *)
(* hold and the socket follows it, for a table of any size, any names and  *)
(* hash chains, any flags and any range.                                   *)
(***************************************************************************)
EXTENDS NetConfig, WellFoundedInduction, TLAPS

(***************************************************************************)
(* Linked lists, of any slots: a chain is the least set of slots that has  *)
(* the first and the link of each of its slots.                            *)
(***************************************************************************)
Links == [Slots -> {0} \cup Slots]

LEMMA SlotFacts == /\ 0 \notin Slots /\ Slots \subseteq Nat /\ 1 \in Slots
                   /\ Null \notin Values /\ Values \subseteq Int
                   /\ 0 \in Values /\ 1 \in Values
  BY SlotsAssumption, RangeAssumption DEF Slots, Null, Values

LEMMA ChainIsLeast ==
    ASSUME NEW link, NEW first, NEW T \in SUBSET Slots,
           first \in T \cup {0}, \A t \in T : link[t] \in T \cup {0}
    PROVE  Chain(first, link) \subseteq T
  <1>. SUFFICES ASSUME NEW s \in Chain(first, link), s \notin T PROVE FALSE
    OBVIOUS
  <1>1. T \in SUBSET (Slots \ {s}) /\ first \in T
    BY DEF Chain, OnChain
  <1>. QED  BY <1>1 DEF Chain, OnChain

LEMMA ChainIsClosed ==
    ASSUME NEW first \in {0} \cup Slots, NEW link \in Links
    PROVE  /\ Chain(first, link) \subseteq Slots
           /\ first \in Chain(first, link) \cup {0}
           /\ \A t \in Chain(first, link) : link[t] \in Chain(first, link) \cup {0}
  <1>1. Chain(first, link) \subseteq Slots
    BY DEF Chain
  <1>2. first \in Chain(first, link) \cup {0}
    BY DEF Chain, OnChain
  <1>3. ASSUME NEW t \in Chain(first, link), link[t] # 0
        PROVE  link[t] \in Chain(first, link)
    <2>1. link[t] \in Slots /\ first # 0
      BY <1>3, <1>1 DEF Links, Chain, OnChain
    <2>2. SUFFICES ASSUME NEW T \in SUBSET (Slots \ {link[t]}), first \in T,
                          \A u \in T : link[u] \in T \cup {0}
                   PROVE  FALSE
      BY <2>1 DEF Chain, OnChain
    <2>3. t \in T
      BY <2>2, ChainIsLeast
    <2>. QED  BY <2>2, <2>3, <1>3
  <1>. QED  BY <1>1, <1>2, <1>3

IsList(slots, first, next, prev) ==
    /\ slots \in SUBSET Slots /\ first \in {0} \cup Slots
    /\ next \in Links /\ prev \in Links
    /\ Threads(slots, first, next, prev)

\* A slot of a list other than its first has a slot before it, and none is its
\* own neighbour.
LEMMA ThreadedFacts ==
    ASSUME NEW slots, NEW first, NEW next, NEW prev,
           IsList(slots, first, next, prev)
    PROVE  /\ first \in slots \cup {0}
           /\ \A s \in slots :
                /\ next[s] \in slots \cup {0} /\ next[s] # s
                /\ prev[s] \in slots \cup {0} /\ prev[s] # s
                /\ prev[s] = 0 <=> s = first
                /\ next[s] # 0 => prev[next[s]] = s
                /\ prev[s] # 0 => next[prev[s]] = s
  <1>. USE DEF IsList
  <1>1. Chain(first, next) = slots /\ first \in slots \cup {0}
    BY ChainIsClosed DEF Threads
  <1>2. \A s \in slots : next[s] \in slots \cup {0}
    BY <1>1, ChainIsClosed
  <1>3. \A s \in slots : /\ prev[s] = 0 <=> s = first
                         /\ next[s] # 0 => prev[next[s]] = s
    BY DEF Threads
  <1>4. ASSUME NEW s \in slots, s # first
        PROVE  \E t \in slots : t # s /\ next[t] = s
    <2>. SUFFICES ASSUME \A t \in slots \ {s} : next[t] # s PROVE FALSE
      OBVIOUS
    <2>1. slots \ {s} \in SUBSET Slots /\ first \in (slots \ {s}) \cup {0}
      BY <1>1, <1>4
    <2>2. \A t \in slots \ {s} : next[t] \in (slots \ {s}) \cup {0}
      BY <1>2
    <2>3. slots \subseteq slots \ {s}
      BY <2>1, <2>2, <1>1, ChainIsLeast
    <2>. QED  BY <2>3
  <1>5. ASSUME NEW s \in slots, s # first
        PROVE  /\ prev[s] \in slots /\ prev[s] # s /\ next[prev[s]] = s
    <2>1. PICK t \in slots : t # s /\ next[t] = s
      BY <1>4, <1>5
    <2>2. s # 0
      BY SlotFacts
    <2>. QED  BY <2>1, <2>2, <1>3
  <1>6. ASSUME NEW s \in slots PROVE next[s] # s
    <2>. SUFFICES ASSUME next[s] = s PROVE FALSE
      OBVIOUS
    <2>1. s # 0
      BY SlotFacts
    <2>2. prev[s] = s
      BY <2>1, <1>3
    <2>. QED  BY <2>1, <2>2, <1>3, <1>5
  <1>7. \A s \in slots : s # 0
    BY SlotFacts
  <1>. QED  BY <1>1, <1>2, <1>3, <1>5, <1>6, <1>7

\* A list does not change with the links of slots that are not on it.
IsAlike(slots, next, prev, next2, prev2) ==
    /\ next2 \in Links /\ prev2 \in Links
    /\ \A s \in slots : next2[s] = next[s] /\ prev2[s] = prev[s]

LEMMA ThreadsOfOthers ==
    ASSUME NEW slots, NEW first, NEW next, NEW prev, NEW next2, NEW prev2,
           IsList(slots, first, next, prev),
           IsAlike(slots, next, prev, next2, prev2)
    PROVE  Threads(slots, first, next2, prev2)
  <1>0. /\ slots \in SUBSET Slots /\ first \in {0} \cup Slots
        /\ next \in Links /\ prev \in Links /\ next2 \in Links /\ prev2 \in Links
        /\ Threads(slots, first, next, prev)
        /\ \A s \in slots : next2[s] = next[s] /\ prev2[s] = prev[s]
    BY DEF IsList, IsAlike
  <1>1. /\ Chain(first, next) = slots /\ first \in slots \cup {0}
        /\ \A s \in slots : next[s] \in slots \cup {0}
    BY <1>0, ThreadedFacts DEF Threads
  <1>2. Chain(first, next2) \subseteq slots
    BY <1>0, <1>1, ChainIsLeast
  <1>3. slots \subseteq Chain(first, next2)
    <2>. DEFINE T == Chain(first, next2)
    <2>1. T \in SUBSET Slots /\ first \in T \cup {0}
      BY <1>0, <1>1, ChainIsClosed
    <2>2. \A t \in T : next2[t] \in T \cup {0}
      BY <1>0, <1>1, ChainIsClosed
    <2>3. \A t \in T : next[t] \in T \cup {0}
      BY <2>2, <1>0, <1>2
    <2>. HIDE DEF T
    <2>. QED  BY <2>1, <2>3, <1>0, <1>1, ChainIsLeast DEF T
  <1>4. ASSUME NEW s \in slots
        PROVE  /\ prev2[s] = 0 <=> s = first
               /\ next2[s] # 0 => prev2[next2[s]] = s
    BY <1>0, <1>1 DEF Threads
  <1>. QED  BY <1>2, <1>3, <1>4 DEF Threads

\* The end of Cvar_Get: a slot comes to the front of a list.
IsWithNew(slots, first, next, prev, s, next2, prev2) ==
    /\ s \in Slots \ slots /\ next2 \in Links /\ prev2 \in Links
    /\ next2[s] = first /\ prev2[s] = 0
    /\ \A t \in slots : /\ next2[t] = next[t]
                        /\ prev2[t] = IF t = first THEN s ELSE prev[t]

LEMMA ThreadsWithNew ==
    ASSUME NEW slots, NEW first, NEW next, NEW prev,
           NEW s, NEW next2, NEW prev2,
           IsList(slots, first, next, prev),
           IsWithNew(slots, first, next, prev, s, next2, prev2)
    PROVE  Threads(slots \cup {s}, s, next2, prev2)
  <1>. USE DEF IsList, IsWithNew
  <1>0. /\ first \in slots \cup {0}
        /\ \A t \in slots :
             /\ next[t] \in slots \cup {0}
             /\ prev[t] = 0 <=> t = first
             /\ next[t] # 0 => prev[next[t]] = t
    BY ThreadedFacts
  <1>1. /\ Chain(first, next) = slots /\ first \in slots \cup {0} /\ s # 0
        /\ \A t \in slots : next[t] \in slots \cup {0} /\ t # 0
    BY <1>0, SlotFacts DEF Threads
  <1>2. Chain(s, next2) \subseteq slots \cup {s}
    <2>1. \A t \in slots \cup {s} : next2[t] \in (slots \cup {s}) \cup {0}
      BY <1>1
    <2>2. slots \cup {s} \in SUBSET Slots /\ s \in (slots \cup {s}) \cup {0}
      OBVIOUS
    <2>. QED  BY <2>1, <2>2, ChainIsLeast
  <1>3. slots \cup {s} \subseteq Chain(s, next2)
    <2>. DEFINE T == Chain(s, next2)
    <2>1. /\ T \in SUBSET Slots /\ s \in T
          /\ \A t \in T : next2[t] \in T \cup {0}
      BY ChainIsClosed, <1>1
    <2>. HIDE DEF T
    <2>2. first \in (T \cap slots) \cup {0}
      BY <2>1, <1>1
    <2>3. \A t \in T \cap slots : next[t] \in (T \cap slots) \cup {0}
      BY <2>1, <1>1
    <2>4. slots \subseteq T \cap slots
      BY <2>1, <2>2, <2>3, <1>1, ChainIsLeast
    <2>. QED  BY <2>1, <2>4 DEF T
  <1>4. ASSUME NEW t \in slots \cup {s}
        PROVE  /\ prev2[t] = 0 <=> t = s
               /\ next2[t] # 0 => prev2[next2[t]] = t
    <2>1. CASE t = s
      BY <2>1, <1>1
    <2>2. CASE t # s
      <3>1. t \in slots
        BY <2>2
      <3>2. prev2[t] # 0
        BY <3>1, <1>1, <1>0
      <3>3. next[t] # 0 => next[t] \in slots /\ prev[next[t]] = t
        BY <3>1, <1>0
      <3>4. next[t] # 0 => next[t] # first
        BY <3>1, <3>3, <1>0, <1>1
      <3>. QED  BY <3>1, <3>2, <3>3, <3>4, <2>2
    <2>. QED  BY <2>1, <2>2
  <1>. QED  BY <1>2, <1>3, <1>4 DEF Threads

\* Cvar_Unset: a slot is taken out of a list.
IsWithout(slots, first, next, prev, s, first2, next2, prev2) ==
    /\ s \in slots /\ next2 \in Links /\ prev2 \in Links
    /\ first2 = IF prev[s] = 0 THEN next[s] ELSE first
    /\ \A t \in slots \ {s} :
          /\ next2[t] = IF t = prev[s] THEN next[s] ELSE next[t]
          /\ prev2[t] = IF t = next[s] THEN prev[s] ELSE prev[t]

LEMMA ThreadsWithout ==
    ASSUME NEW slots, NEW first, NEW next, NEW prev,
           NEW s, NEW first2, NEW next2, NEW prev2,
           IsList(slots, first, next, prev),
           IsWithout(slots, first, next, prev, s, first2, next2, prev2)
    PROVE  Threads(slots \ {s}, first2, next2, prev2)
  <1>0. /\ slots \in SUBSET Slots /\ first \in {0} \cup Slots
        /\ next \in Links /\ prev \in Links
        /\ Threads(slots, first, next, prev)
    BY DEF IsList
  <1>10. /\ s \in slots /\ next2 \in Links /\ prev2 \in Links
         /\ first2 = IF prev[s] = 0 THEN next[s] ELSE first
         /\ \A t \in slots \ {s} :
              /\ next2[t] = IF t = prev[s] THEN next[s] ELSE next[t]
              /\ prev2[t] = IF t = next[s] THEN prev[s] ELSE prev[t]
    BY DEF IsWithout
  <1>. USE <1>0, <1>10
  <1>. DEFINE rest == slots \ {s}
  <1>1. /\ Chain(first, next) = slots /\ first \in slots \cup {0} /\ s # 0
        /\ \A t \in slots : t # 0
    <2>1. Chain(first, next) = slots
      BY DEF Threads
    <2>2. first \in slots \cup {0}
      BY ThreadedFacts
    <2>. QED  BY <2>1, <2>2, SlotFacts
  <1>2. \A t \in slots :
            /\ next[t] \in slots \cup {0} /\ next[t] # t
            /\ prev[t] \in slots \cup {0} /\ prev[t] # t
            /\ prev[t] = 0 <=> t = first
            /\ next[t] # 0 => prev[next[t]] = t
            /\ prev[t] # 0 => next[prev[t]] = t
    BY ThreadedFacts
  <1>3. first2 \in rest \cup {0}
    BY <1>1, <1>2
  <1>4. \A t \in rest : next2[t] \in rest \cup {0}
    BY <1>1, <1>2
  <1>5. Chain(first2, next2) \subseteq rest
    BY <1>3, <1>4, ChainIsLeast
  <1>6. rest \subseteq Chain(first2, next2)
    <2>. DEFINE T == Chain(first2, next2)
    <2>1. /\ T \subseteq rest /\ first2 \in T \cup {0}
          /\ \A t \in T : next2[t] \in T \cup {0}
      BY <1>3, <1>5, ChainIsClosed
    <2>. HIDE DEF T
    <2>2. CASE prev[s] = 0 \/ prev[s] \in T
      <3>1. next[s] \in T \cup {0}
        BY <2>1, <2>2, <1>2
      <3>2. first \in (T \cup {s}) \cup {0}
        BY <2>1, <1>2
      <3>3. \A t \in T \cup {s} : next[t] \in (T \cup {s}) \cup {0}
        BY <2>1, <3>1, <1>2
      <3>4. T \cup {s} \in SUBSET Slots
        BY <2>1
      <3>5. slots \subseteq T \cup {s}
        BY <3>2, <3>3, <3>4, <1>1, ChainIsLeast
      <3>. QED  BY <3>5 DEF T
    <2>3. CASE prev[s] # 0 /\ prev[s] \notin T
      <3>1. first \in T \cup {0}
        BY <2>1, <2>3
      <3>2. \A t \in T : next[t] \in T \cup {0}
        BY <2>1, <2>3
      <3>3. slots \subseteq T
        BY <3>1, <3>2, <2>1, <1>1, ChainIsLeast
      <3>. QED  BY <3>3 DEF T
    <2>. QED  BY <2>2, <2>3
  <1>7. ASSUME NEW t \in rest
        PROVE  /\ prev2[t] = 0 <=> t = first2
               /\ next2[t] # 0 => prev2[next2[t]] = t
    <2>1. prev2[t] = 0 <=> t = first2
      <3>1. CASE t = next[s]
        BY <3>1, <1>1, <1>2
      <3>2. CASE t # next[s]
        <4>1. prev2[t] = prev[t]
          BY <3>2
        <4>2. prev[s] = 0 => first = s
          BY <1>2
        <4>. QED  BY <3>2, <4>1, <4>2, <1>2
      <3>. QED  BY <3>1, <3>2
    <2>2. ASSUME next2[t] # 0 PROVE prev2[next2[t]] = t
      <3>1. CASE t = prev[s]
        <4>1. next2[t] = next[s] /\ next[s] \in rest
          BY <3>1, <2>2, <1>2
        <4>. QED  BY <4>1, <3>1
      <3>2. CASE t # prev[s]
        <4>1. next2[t] = next[t] /\ next[t] \in rest
          BY <3>2, <2>2, <1>2
        <4>2. next[t] # next[s]
          BY <4>1, <2>2, <1>2
        <4>. QED  BY <4>1, <4>2, <2>2, <1>2
      <3>. QED  BY <3>1, <3>2
    <2>. QED  BY <2>1, <2>2
  <1>. HIDE DEF rest
  <1>8. Threads(rest, first2, next2, prev2)
    BY <1>5, <1>6, <1>7 DEF Threads
  <1>. QED  BY <1>8 DEF rest

\* What is behind a slot: the slot itself, then what is behind its link.
LEMMA ChainBehind ==
    ASSUME NEW link \in Links, NEW s \in Slots
    PROVE  Chain(s, link) \subseteq {s} \cup Chain(link[s], link)
  <1>. DEFINE T == {s} \cup Chain(link[s], link)
  <1>1. link[s] \in {0} \cup Slots
    BY DEF Links
  <1>2. T \in SUBSET Slots /\ \A t \in T : link[t] \in T \cup {0}
    BY <1>1, ChainIsClosed
  <1>3. s \in T
    OBVIOUS
  <1>. HIDE DEF T
  <1>4. Chain(s, link) \subseteq T
    BY <1>2, <1>3, ChainIsLeast
  <1>. QED  BY <1>4 DEF T

\* The same once that slot is taken out: only a slot that led to it has another
\* link, which is the slot's.
LEMMA ChainBehindRemoved ==
    ASSUME NEW link \in Links, NEW link2 \in Links, NEW s \in Slots,
           \A t \in Slots \ {s} : \/ link2[t] = link[t]
                                  \/ link[t] = s
    PROVE  Chain(s, link) \subseteq {s} \cup Chain(link[s], link2)
  <1>. DEFINE T == {s} \cup Chain(link[s], link2)
  <1>1. link[s] \in {0} \cup Slots
    BY DEF Links
  <1>2. T \in SUBSET Slots /\ \A t \in T : link[t] \in T \cup {0}
    BY <1>1, ChainIsClosed
  <1>3. s \in T
    OBVIOUS
  <1>. HIDE DEF T
  <1>4. Chain(s, link) \subseteq T
    BY <1>2, <1>3, ChainIsLeast
  <1>. QED  BY <1>4 DEF T

(***************************************************************************)
(* Variables and their values.                                             *)
(***************************************************************************)
SameLinks(v, w) ==
    /\ w.name = v.name
    /\ w.next = v.next /\ w.prev = v.prev
    /\ w.hashNext = v.hashNext /\ w.hashPrev = v.hashPrev

\* A value that is given is marked, be it the present one or one that waits.
IsMarked(v, w) ==
    /\ v.modified = TRUE => w.modified = TRUE
    /\ w.string = v.string \/ w.modified = TRUE
    /\ w.latchedString \in {Null, v.latchedString} \/ w.modified = TRUE

\* A variable whose links are changed, and nothing else.
Relinked(u, next, prev, hashNext, hashPrev) ==
    [u EXCEPT !.next = next, !.prev = prev,
              !.hashNext = hashNext, !.hashPrev = hashPrev]

IsRelinked(u, w, next, prev, hashNext, hashPrev) ==
    /\ w \in Variable /\ w.name = u.name /\ w.flags = u.flags
    /\ w.string = u.string /\ w.latchedString = u.latchedString
    /\ w.next = next /\ w.prev = prev
    /\ w.hashNext = hashNext /\ w.hashPrev = hashPrev
    /\ w.modified = u.modified /\ w.validate = u.validate

LEMMA RelinkedFacts ==
    /\ \A u \in Variable : \A i, j, k, l \in {0} \cup Slots :
           IsRelinked(u, Relinked(u, i, j, k, l), i, j, k, l)
    /\ Relinked(Free, Free.next, Free.prev, Free.hashNext, Free.hashPrev) = Free
  <1>1. ASSUME NEW u \in Variable, NEW i \in {0} \cup Slots,
               NEW j \in {0} \cup Slots, NEW k \in {0} \cup Slots,
               NEW l \in {0} \cup Slots
        PROVE  IsRelinked(u, Relinked(u, i, j, k, l), i, j, k, l)
    BY DEF Relinked, IsRelinked, Variable
  <1>2. [Free EXCEPT !.next = Free.next, !.prev = Free.prev] = Free
    BY DEF Free
  <1>3. [Free EXCEPT !.hashNext = Free.hashNext, !.hashPrev = Free.hashPrev] = Free
    BY DEF Free
  <1>4. Relinked(Free, Free.next, Free.prev, Free.hashNext, Free.hashPrev)
        = [[Free EXCEPT !.next = Free.next, !.prev = Free.prev]
              EXCEPT !.hashNext = Free.hashNext, !.hashPrev = Free.hashPrev]
    BY DEF Relinked
  <1>. QED  BY <1>1, <1>2, <1>3, <1>4

LEMMA RecordFacts ==
    /\ \A v \in Variable :
        /\ v.name \in Names /\ v.name # NoName
        /\ v.string \in Values /\ v.resetString \in Values
        /\ v.latchedString \in Values \cup {Null} /\ v.flags \in SUBSET Flags
        /\ v.next \in {0} \cup Slots /\ v.prev \in {0} \cup Slots
        /\ v.hashNext \in {0} \cup Slots /\ v.hashPrev \in {0} \cup Slots
    /\ \A v \in Variable : v.validate \in BOOLEAN /\ v.modified \in BOOLEAN
    /\ Free.name = NoName /\ Free.flags = {} /\ Free \notin Variable
    /\ Free.next = 0 /\ Free.prev = 0 /\ Free.hashNext = 0 /\ Free.hashPrev = 0
  <1>1. \A v \in Variable :
        /\ v.name \in Names
        /\ v.string \in Values /\ v.resetString \in Values
        /\ v.latchedString \in Values \cup {Null} /\ v.flags \in SUBSET Flags
        /\ v.next \in {0} \cup Slots /\ v.prev \in {0} \cup Slots
        /\ v.hashNext \in {0} \cup Slots /\ v.hashPrev \in {0} \cup Slots
    BY DEF Variable
  <1>2. \A v \in Variable : v.validate \in BOOLEAN /\ v.modified \in BOOLEAN
    BY DEF Variable
  <1>3. /\ Free.name = NoName /\ Free.flags = {}
        /\ Free.next = 0 /\ Free.prev = 0 /\ Free.hashNext = 0 /\ Free.hashPrev = 0
    BY DEF Free
  <1>. QED  BY <1>1, <1>2, <1>3, NamesAssumption

LEMMA ValidateFacts ==
    ASSUME NEW v \in Variable, NEW wanted \in Values
    PROVE  /\ Cvar_Validate(v, wanted) \in Values
           /\ v.validate = TRUE => Cvar_Validate(v, wanted) \in Low .. High
           /\ v.validate = FALSE => Cvar_Validate(v, wanted) = wanted
  <1>1. v.validate \in BOOLEAN
    BY RecordFacts
  <1>2. CASE v.validate = FALSE
    BY <1>2 DEF Cvar_Validate
  <1>3. CASE v.validate = TRUE
    <2>1. Cvar_Validate(v, wanted) =
              IF wanted < Low THEN Low ELSE IF wanted > High THEN High ELSE wanted
      BY <1>3 DEF Cvar_Validate
    <2>. QED  BY <2>1, <1>3, RangeAssumption DEF Values
  <1>. QED  BY <1>1, <1>2, <1>3

LEMMA SoundValue ==
    ASSUME NEW v
    PROVE  ValueIsSound(v) <=>
               /\ v.latchedString # Null =>
                      "LATCH" \in v.flags /\ v.latchedString # v.string
               /\ v.validate => /\ v.string \in Low .. High
                                /\ v.latchedString # Null =>
                                       v.latchedString \in Low .. High
  BY DEF ValueIsSound

IsSoundChange(v, w) ==
    /\ w \in Variable
    /\ ValueIsSound(w)
    /\ SameLinks(v, w) /\ w.flags = v.flags /\ w.validate = v.validate
    /\ IsMarked(v, w)

\* Cvar_Set2 on a variable leaves it sound, and makes one sound that has just
\* got its range if it is forced and no value waits (Cvar_CheckRange).
LEMMA ChangedFacts ==
    ASSUME NEW c, NEW v \in Variable, NEW wanted \in Values, NEW force \in BOOLEAN,
           ValueIsSound(v) \/ (force = TRUE /\ v.latchedString = Null),
           NEW w, w = Changed(c, v, wanted, force)
    PROVE  /\ IsSoundChange(v, w)
           /\ force = TRUE => w.latchedString \in {Null, v.latchedString}
  <1>. DEFINE value == Cvar_Validate(v, wanted)
  <1>1. /\ value \in Values
        /\ v.validate = TRUE => value \in Low .. High
        /\ v.validate \in BOOLEAN /\ v.latchedString \in Values \cup {Null}
        /\ v.modified \in BOOLEAN
    BY ValidateFacts, RecordFacts
  <1>2. w = IF ("LATCH" \in v.flags /\ v.latchedString # Null) /\ value = v.string
            THEN [v EXCEPT !.latchedString = Null]
            ELSE IF \/ value = v.string
                    \/ ("LATCH" \in v.flags /\ v.latchedString # Null)
                           /\ value = v.latchedString
                    \/ ~force /\ Protected(c, v)
            THEN v
            ELSE IF ~force /\ "LATCH" \in v.flags
            THEN [v EXCEPT !.latchedString = value, !.modified = TRUE]
            ELSE Assigned([v EXCEPT !.latchedString = IF force THEN Null ELSE @],
                          value)
    BY DEF Changed
  <1>. HIDE DEF value
  <1>3. CASE ("LATCH" \in v.flags /\ v.latchedString # Null) /\ value = v.string
    <2>1. w = [v EXCEPT !.latchedString = Null]
      BY <1>2, <1>3
    <2>2. w \in Variable
      BY <2>1 DEF Variable
    <2>3. /\ w.latchedString = Null /\ w.string = v.string
          /\ w.validate = v.validate /\ w.flags = v.flags
          /\ w.modified = v.modified /\ SameLinks(v, w)
      BY <2>1 DEF Variable, SameLinks
    <2>4. ValueIsSound(w)
      BY <2>3, <1>1, <1>3, SoundValue
    <2>. QED  BY <2>2, <2>3, <2>4 DEF IsMarked, IsSoundChange
  <1>4. CASE /\ ~(("LATCH" \in v.flags /\ v.latchedString # Null) /\ value = v.string)
             /\ \/ value = v.string
                \/ ("LATCH" \in v.flags /\ v.latchedString # Null)
                       /\ value = v.latchedString
                \/ ~force /\ Protected(c, v)
    <2>1. w = v
      BY <1>2, <1>4
    <2>2. ValueIsSound(v)
      <3>1. CASE ValueIsSound(v)
        BY <3>1
      <3>2. CASE force = TRUE /\ v.latchedString = Null
        <4>1. value = v.string
          BY <3>2, <1>4
        <4>. QED  BY <3>2, <4>1, <1>1, SoundValue
      <3>. QED  BY <3>1, <3>2
    <2>. QED  BY <2>1, <2>2 DEF SameLinks, IsMarked, IsSoundChange
  <1>5. CASE /\ ~(("LATCH" \in v.flags /\ v.latchedString # Null) /\ value = v.string)
             /\ ~(\/ value = v.string
                  \/ ("LATCH" \in v.flags /\ v.latchedString # Null)
                         /\ value = v.latchedString
                  \/ ~force /\ Protected(c, v))
             /\ ~force /\ "LATCH" \in v.flags
    <2>1. w = [v EXCEPT !.latchedString = value, !.modified = TRUE]
      BY <1>2, <1>5
    <2>2. w \in Variable
      BY <2>1, <1>1 DEF Variable
    <2>3. /\ w.latchedString = value /\ w.string = v.string
          /\ w.validate = v.validate /\ w.flags = v.flags /\ SameLinks(v, w)
      BY <2>1 DEF Variable, SameLinks
    <2>4. w.modified = TRUE
      BY <2>1 DEF Variable
    <2>5. ValueIsSound(v)
      BY <1>5
    <2>6. ValueIsSound(w)
      BY <2>3, <2>5, <1>1, <1>5, SoundValue
    <2>7. force = FALSE
      BY <1>5
    <2>. QED  BY <2>2, <2>3, <2>4, <2>6, <2>7 DEF IsMarked, IsSoundChange
  <1>6. CASE /\ ~(("LATCH" \in v.flags /\ v.latchedString # Null) /\ value = v.string)
             /\ ~(\/ value = v.string
                  \/ ("LATCH" \in v.flags /\ v.latchedString # Null)
                         /\ value = v.latchedString
                  \/ ~force /\ Protected(c, v))
             /\ ~(~force /\ "LATCH" \in v.flags)
    <2>. DEFINE left == IF force THEN Null ELSE v.latchedString
    <2>1. w = [v EXCEPT !.latchedString = left, !.string = value, !.modified = TRUE]
      BY <1>2, <1>6 DEF Assigned
    <2>2. left \in {Null, v.latchedString}
      OBVIOUS
    <2>3. left = Null
      BY <1>6, SoundValue
    <2>. HIDE DEF left
    <2>4. w \in Variable
      BY <2>1, <2>3, <1>1 DEF Variable
    <2>5. /\ w.latchedString = Null /\ w.string = value
          /\ w.validate = v.validate /\ w.flags = v.flags /\ SameLinks(v, w)
      BY <2>1, <2>3 DEF Variable, SameLinks
    <2>6. w.modified = TRUE
      BY <2>1 DEF Variable
    <2>7. ValueIsSound(w)
      BY <2>5, <1>1, SoundValue
    <2>. QED  BY <2>4, <2>5, <2>6, <2>7 DEF IsMarked, IsSoundChange
  <1>. QED  BY <1>3, <1>4, <1>5, <1>6

(***************************************************************************)
(* Tables.                                                                 *)
(***************************************************************************)

\* No range is given to the variables of the network.
Unranged(v) == v.name \in NetNames => v.validate = FALSE

Sound(c) ==
    /\ c \in Tables
    /\ WellThreaded(c)
    /\ WellValued(c)
    /\ \A s \in Named(c) : Unranged(c.index[s])

\* A variable that neither the user nor a game module made, which nobody
\* takes away.
IsEngines(v) == v.flags \cap {"USER_CREATED", "VM_CREATED"} = {}

Stays(c, d) ==
    \A s \in Named(c) : IsEngines(c.index[s]) =>
        /\ s \in Named(d)
        /\ d.index[s].name = c.index[s].name
        /\ IsEngines(d.index[s])

Keeps(c, d) ==
    \A s \in Named(c) : IsEngines(c.index[s]) =>
        /\ s \in Named(d)
        /\ d.index[s].name = c.index[s].name
        /\ IsEngines(d.index[s])
        /\ IsMarked(c.index[s], d.index[s])

LEMMA TableFacts ==
    ASSUME NEW c \in Tables
    PROVE  /\ c = [index |-> c.index, vars |-> c.vars, hash |-> c.hash,
                   error |-> c.error]
           /\ c.index \in [Slots -> Variable \cup {Free}]
           /\ c.vars \in {0} \cup Slots
           /\ c.hash \in [Buckets -> {0} \cup Slots]
           /\ Named(c) \subseteq Slots
           /\ \A s \in Slots : /\ s \in Named(c) <=> c.index[s] \in Variable
                               /\ s \notin Named(c) => c.index[s] = Free
           /\ Nexts(c) \in Links /\ Prevs(c) \in Links
           /\ HashNexts(c) \in Links /\ HashPrevs(c) \in Links
           /\ \A b \in Buckets : Hashed(c, b) \subseteq Named(c)
  <1>1. /\ c.index \in [Slots -> Variable \cup {Free}]
        /\ c.vars \in {0} \cup Slots
        /\ c.hash \in [Buckets -> {0} \cup Slots]
        /\ c = [index |-> c.index, vars |-> c.vars, hash |-> c.hash,
                error |-> c.error]
    BY DEF Tables
  <1>2. ASSUME NEW s \in Slots
        PROVE  /\ s \in Named(c) <=> c.index[s] \in Variable
               /\ s \notin Named(c) => c.index[s] = Free
               /\ c.index[s].next \in {0} \cup Slots
               /\ c.index[s].prev \in {0} \cup Slots
               /\ c.index[s].hashNext \in {0} \cup Slots
               /\ c.index[s].hashPrev \in {0} \cup Slots
    BY <1>1, RecordFacts DEF Named
  <1>3. /\ Nexts(c) \in Links /\ Prevs(c) \in Links
        /\ HashNexts(c) \in Links /\ HashPrevs(c) \in Links
    BY <1>2 DEF Nexts, Prevs, HashNexts, HashPrevs, Links
  <1>. QED  BY <1>1, <1>2, <1>3 DEF Named, Hashed

LEMMA TableLists ==
    ASSUME NEW c \in Tables, WellThreaded(c)
    PROVE  /\ IsList(Named(c), c.vars, Nexts(c), Prevs(c))
           /\ \A b \in Buckets :
                  IsList(Hashed(c, b), c.hash[b], HashNexts(c), HashPrevs(c))
  <1>1. /\ Named(c) \in SUBSET Slots /\ c.vars \in {0} \cup Slots
        /\ Nexts(c) \in Links /\ Prevs(c) \in Links
        /\ HashNexts(c) \in Links /\ HashPrevs(c) \in Links
        /\ \A b \in Buckets : /\ Hashed(c, b) \in SUBSET Slots
                              /\ c.hash[b] \in {0} \cup Slots
    BY TableFacts
  <1>. QED  BY <1>1 DEF WellThreaded, IsList

LEMMA HashFacts == \A n \in Names : Hash(n) \in Buckets
  BY NamesAssumption DEF Hash

LEMMA FindFacts ==
    ASSUME NEW c \in Tables, WellThreaded(c), NEW n \in Names
    PROVE  /\ \A s \in Named(c) : c.index[s].name = n => Cvar_FindVar(c, n) = s
           /\ \/ Cvar_FindVar(c, n) = 0 /\ \A s \in Named(c) : c.index[s].name # n
              \/ Cvar_FindVar(c, n) \in Named(c) /\ c.index[Cvar_FindVar(c, n)].name = n
  <1>. DEFINE found == {s \in Slots :
                            /\ c.index[s].name = n
                            /\ OnChain(s, c.hash[Hash(n)], HashNexts(c))}
  <1>1. Cvar_FindVar(c, n) = IF found = {} THEN 0 ELSE CHOOSE s \in found : TRUE
    BY DEF Cvar_FindVar
  <1>2. ASSUME NEW s \in Named(c), c.index[s].name = n
        PROVE  s \in found
    <2>1. s \in Slots /\ s \in Hashed(c, Hash(n))
      BY <1>2 DEF Hashed, Named
    <2>2. s \in Chain(c.hash[Hash(n)], HashNexts(c))
      BY <2>1, HashFacts DEF WellThreaded, Threads
    <2>. QED  BY <2>1, <2>2, <1>2 DEF Chain
  <1>3. \A s \in found : s \in Named(c) /\ c.index[s].name = n
    BY NamesAssumption DEF Named
  <1>4. \A s, t \in Named(c) : c.index[s].name = c.index[t].name => s = t
    BY DEF WellThreaded
  <1>. HIDE DEF found
  <1>5. found # {} => (CHOOSE s \in found : TRUE) \in found
    OBVIOUS
  <1>. QED  BY <1>1, <1>2, <1>3, <1>4, <1>5

\* Whatever changes but names and links leaves the lists as they are.
LEMMA RevaluedFacts ==
    ASSUME NEW c, Sound(c), NEW d \in Tables,
           d.vars = c.vars, d.hash = c.hash,
           \A s \in Slots : SameLinks(c.index[s], d.index[s]),
           \A s \in Named(c) : ValueIsSound(d.index[s]) /\ Unranged(d.index[s])
    PROVE  Sound(d) /\ Named(d) = Named(c) /\ Nexts(d) = Nexts(c)
  <1>1. /\ Named(d) = Named(c)
        /\ Nexts(d) = Nexts(c) /\ Prevs(d) = Prevs(c)
        /\ HashNexts(d) = HashNexts(c) /\ HashPrevs(d) = HashPrevs(c)
    BY DEF SameLinks, Named, Nexts, Prevs, HashNexts, HashPrevs
  <1>2. \A b \in Buckets : Hashed(d, b) = Hashed(c, b)
    <2>1. \A s \in Named(c) : d.index[s].name = c.index[s].name
      BY DEF SameLinks, Named
    <2>. QED  BY <2>1, <1>1 DEF Hashed
  <1>3. \A s, t \in Named(d) : d.index[s].name = d.index[t].name => s = t
    <2>1. \A s \in Named(c) : d.index[s].name = c.index[s].name
      BY DEF SameLinks, Named
    <2>. QED  BY <2>1, <1>1 DEF Sound, WellThreaded
  <1>4. WellThreaded(d)
    BY <1>1, <1>2, <1>3 DEF Sound, WellThreaded
  <1>. QED  BY <1>1, <1>4 DEF Sound, WellValued

WithSlot(c, s, w) == [c EXCEPT !.index[s] = w]

LEMMA SlotRevaluedFacts ==
    ASSUME NEW c, Sound(c), NEW s \in Named(c),
           NEW w \in Variable, SameLinks(c.index[s], w), ValueIsSound(w),
           Unranged(w), NEW d, d = WithSlot(c, s, w)
    PROVE  /\ Sound(d) /\ Named(d) = Named(c) /\ Nexts(d) = Nexts(c)
           /\ d.index[s] = w /\ d.error = c.error /\ d.vars = c.vars
           /\ \A t \in Slots \ {s} : d.index[t] = c.index[t]
  <1>1. c \in Tables /\ s \in Slots
    BY DEF Sound, Named
  <1>2. /\ d.index = [c.index EXCEPT ![s] = w] /\ d.vars = c.vars
        /\ d.hash = c.hash /\ d.error = c.error /\ d \in Tables
    BY <1>1 DEF Tables, WithSlot
  <1>3. c.index \in [Slots -> Variable \cup {Free}]
    BY <1>1, TableFacts
  <1>4. d.index[s] = w /\ \A t \in Slots \ {s} : d.index[t] = c.index[t]
    BY <1>1, <1>2, <1>3
  <1>5. \A t \in Slots : SameLinks(c.index[t], d.index[t])
    BY <1>4 DEF SameLinks
  <1>6. \A t \in Named(c) : ValueIsSound(d.index[t]) /\ Unranged(d.index[t])
    BY <1>4, <1>1 DEF Sound, WellValued, Named
  <1>. QED  BY <1>2, <1>4, <1>5, <1>6, RevaluedFacts

LEMMA MinFacts ==
    ASSUME NEW S \in SUBSET Nat, S # {}
    PROVE  Min(S) \in S /\ \A y \in S : Min(S) <= y
  <1>. DEFINE Less == {p \in Nat \X Nat : p[1] < p[2]}
  <1>1. \A x, y \in Nat : <<y, x>> \in Less <=> y < x
    OBVIOUS
  <1>2. IsWellFoundedOn(Less, Nat)
    BY NatLessThanWellFounded DEF OpToRel
  <1>. HIDE DEF Less
  <1>3. PICK x \in S : \A y \in S : <<y, x>> \notin Less
    BY <1>2, WFMin
  <1>4. \A y \in S : x <= y
    <2>. SUFFICES ASSUME NEW y \in S PROVE x <= y
      OBVIOUS
    <2>1. x \in Nat /\ y \in Nat /\ ~(y < x)
      BY <1>1, <1>3
    <2>. QED  BY <2>1
  <1>. QED  BY <1>4 DEF Min

\* The end of Cvar_Get.
LEMMA CreatedFacts ==
    ASSUME NEW c, Sound(c), NEW n \in Names, NEW value \in Values,
           NEW flags \in SUBSET Flags, \A t \in Named(c) : c.index[t].name # n,
           FreeSlots(c) # {}, NEW d, d = Created(c, n, value, flags)
    PROVE  /\ Sound(d) /\ Keeps(c, d) /\ d.error = c.error
           /\ Min(FreeSlots(c)) \in Slots \ Named(c)
           /\ Named(d) = Named(c) \cup {Min(FreeSlots(c))}
           /\ d.index[Min(FreeSlots(c))].name = n
           /\ d.index[Min(FreeSlots(c))].flags = flags
           /\ d.index[Min(FreeSlots(c))].latchedString = Null
  <1>. DEFINE s == Min(FreeSlots(c))
              first == c.hash[Hash(n)]
              new == NewVariable(n, value, flags, c.vars, first)
  <1>1. c \in Tables /\ Hash(n) \in Buckets /\ WellThreaded(c)
    BY HashFacts DEF Sound
  <1>2. s \in FreeSlots(c) /\ s \in Slots \ Named(c)
    <2>1. FreeSlots(c) \in SUBSET Nat /\ FreeSlots(c) \subseteq Slots \ Named(c)
      BY SlotFacts DEF FreeSlots, Named
    <2>2. s \in FreeSlots(c)
      BY <2>1, MinFacts
    <2>. QED  BY <2>1, <2>2
  <1>. HIDE DEF s
  <1>3. /\ c.vars \in Named(c) \cup {0} /\ first \in Hashed(c, Hash(n)) \cup {0}
        /\ first \in {0} \cup Slots /\ Named(c) \subseteq Slots
        /\ Hashed(c, Hash(n)) \subseteq Named(c)
        /\ c.vars \in {0} \cup Slots
    <2>1. /\ Named(c) \in SUBSET Slots /\ Hashed(c, Hash(n)) \in SUBSET Slots
          /\ c.vars \in {0} \cup Slots /\ first \in {0} \cup Slots
          /\ Hashed(c, Hash(n)) \subseteq Named(c)
      BY <1>1, TableFacts
    <2>2. c.vars \in Named(c) \cup {0}
      BY <1>1, TableLists, ThreadedFacts
    <2>3. first \in Hashed(c, Hash(n)) \cup {0}
      <3>1. IsList(Hashed(c, Hash(n)), first, HashNexts(c), HashPrevs(c))
        BY <1>1, TableLists
      <3>. HIDE DEF first
      <3>. QED  BY <3>1, ThreadedFacts
    <2>. QED  BY <2>1, <2>2, <2>3
  <1>4. /\ new \in Variable /\ new.name = n /\ new.string = value
        /\ new.flags = flags /\ new.latchedString = Null
        /\ new.next = c.vars /\ new.prev = 0
        /\ new.hashNext = first /\ new.hashPrev = 0
    BY <1>3 DEF NewVariable, Free, Variable
  <1>5. new.modified = TRUE /\ new.validate = FALSE
    BY DEF NewVariable, Free
  <1>. DEFINE Other(i) == [c.index[i] EXCEPT
                              !.prev = IF i = c.vars THEN s ELSE @,
                              !.hashPrev = IF i = first THEN s ELSE @]
  <1>6. /\ d.index = [i \in Slots |-> IF i = s THEN new ELSE Other(i)]
        /\ d.vars = s /\ d.hash = [c.hash EXCEPT ![Hash(n)] = s]
        /\ d.error = c.error /\ c.error \in BOOLEAN
        /\ d = [index |-> d.index, vars |-> d.vars, hash |-> d.hash,
                error |-> d.error]
    <2>1. d = [c EXCEPT
                !.index = [i \in Slots |-> IF i = s THEN new ELSE Other(i)],
                !.vars = s, !.hash[Hash(n)] = s]
      BY DEF Created, s
    <2>. HIDE DEF new, Other
    <2>2. /\ c = [index |-> c.index, vars |-> c.vars, hash |-> c.hash,
                  error |-> c.error]
      BY <1>1, TableFacts
    <2>3. c.error \in BOOLEAN
      BY <1>1 DEF Tables
    <2>. QED  BY <2>1, <2>2, <2>3
  <1>7. ASSUME NEW i \in Named(c)
        PROVE  LET v == c.index[i]  w == d.index[i]
               IN  /\ w \in Variable /\ w.name = v.name /\ w.flags = v.flags
                   /\ w.string = v.string /\ w.latchedString = v.latchedString
                   /\ w.next = v.next /\ w.hashNext = v.hashNext
                   /\ w.prev = IF i = c.vars THEN s ELSE v.prev
                   /\ w.hashPrev = IF i = first THEN s ELSE v.hashPrev
                   /\ w.modified = v.modified /\ w.validate = v.validate
    <2>1. i \in Slots /\ i # s /\ c.index[i] \in Variable
      BY <1>1, <1>2, TableFacts
    <2>2. d.index[i] = Other(i)
      BY <2>1, <1>6
    <2>. QED  BY <2>1, <2>2, <1>2 DEF Variable
  <1>8. ASSUME NEW i \in Slots, i \notin Named(c), i # s
        PROVE  d.index[i] = Free
    <2>1. i # 0 /\ i # c.vars /\ i # first /\ c.index[i] = Free
      BY <1>1, <1>3, <1>8, TableFacts, SlotFacts
    <2>2. d.index[i] = [Free EXCEPT !.prev = @, !.hashPrev = @]
      BY <2>1, <1>6, <1>8
    <2>. QED  BY <2>2 DEF Free
  <1>9. d.index[s] = new
    BY <1>2, <1>6
  <1>. HIDE DEF new, Other
  <1>10. d \in Tables
    <2>1. \A i \in Slots : d.index[i] \in Variable \cup {Free}
      BY <1>4, <1>7, <1>8, <1>9
    <2>2. d.index \in [Slots -> Variable \cup {Free}]
      BY <2>1, <1>6
    <2>3. d.hash \in [Buckets -> {0} \cup Slots]
      BY <1>1, <1>2, <1>6, TableFacts
    <2>. QED  BY <2>2, <2>3, <1>2, <1>6 DEF Tables
  <1>11. Named(d) = Named(c) \cup {s}
    <2>1. \A i \in Slots : i \in Named(d) <=> i \in Named(c) \cup {s}
      BY <1>4, <1>7, <1>8, <1>9, RecordFacts, NamesAssumption DEF Named
    <2>. QED  BY <2>1, <1>2 DEF Named
  <1>12. WellThreaded(d)
    <2>0. /\ Nexts(c) \in Links /\ Prevs(c) \in Links
          /\ HashNexts(c) \in Links /\ HashPrevs(c) \in Links
          /\ Nexts(d) \in Links /\ Prevs(d) \in Links
          /\ HashNexts(d) \in Links /\ HashPrevs(d) \in Links
      BY <1>1, <1>10, TableFacts
    <2>1. Threads(Named(d), d.vars, Nexts(d), Prevs(d))
      <3>1. Nexts(d)[s] = c.vars /\ Prevs(d)[s] = 0
        BY <1>2, <1>4, <1>9 DEF Nexts, Prevs
      <3>2. \A t \in Named(c) :
                /\ Nexts(d)[t] = Nexts(c)[t]
                /\ Prevs(d)[t] = IF t = c.vars THEN s ELSE Prevs(c)[t]
        BY <1>3, <1>7 DEF Nexts, Prevs
      <3>3. Threads(Named(c), c.vars, Nexts(c), Prevs(c))
        BY <1>1 DEF WellThreaded
      <3>4. Threads(Named(c) \cup {s}, s, Nexts(d), Prevs(d))
        <4>1. /\ Named(c) \in SUBSET Slots /\ c.vars \in {0} \cup Slots
              /\ s \in Slots \ Named(c)
          BY <1>2, <1>3
        <4>2. /\ Nexts(c) \in Links /\ Prevs(c) \in Links
              /\ Nexts(d) \in Links /\ Prevs(d) \in Links
          BY <2>0
        <4>. DEFINE head == c.vars
        <4>3. /\ Threads(Named(c), head, Nexts(c), Prevs(c))
              /\ head \in {0} \cup Slots /\ Nexts(d)[s] = head
              /\ \A t \in Named(c) :
                    /\ Nexts(d)[t] = Nexts(c)[t]
                    /\ Prevs(d)[t] = IF t = head THEN s ELSE Prevs(c)[t]
          BY <3>1, <3>2, <3>3, <4>1
        <4>. DEFINE slots == Named(c)  next == Nexts(c)  prev == Prevs(c)
                    next2 == Nexts(d)  prev2 == Prevs(d)
        <4>4. /\ IsList(slots, head, next, prev)
              /\ IsWithNew(slots, head, next, prev, s, next2, prev2)
          BY <3>1, <4>1, <4>2, <4>3 DEF IsList, IsWithNew
        <4>. HIDE DEF head, slots, next, prev, next2, prev2
        <4>5. Threads(slots \cup {s}, s, next2, prev2)
          BY <4>4, ThreadsWithNew
        <4>. QED  BY <4>5 DEF slots, next2, prev2
      <3>. QED  BY <3>4, <1>6, <1>11
    <2>2. ASSUME NEW b \in Buckets
          PROVE  Threads(Hashed(d, b), d.hash[b], HashNexts(d), HashPrevs(d))
      <3>1. Threads(Hashed(c, b), c.hash[b], HashNexts(c), HashPrevs(c))
        BY <1>1 DEF WellThreaded
      <3>2. Hashed(c, b) \in SUBSET Slots /\ c.hash[b] \in {0} \cup Slots
        BY <1>1, TableFacts
      <3>3. \A t \in Hashed(c, b) :
                /\ HashNexts(d)[t] = HashNexts(c)[t]
                /\ HashPrevs(d)[t] = IF t = first THEN s ELSE HashPrevs(c)[t]
        BY <1>3, <1>7 DEF HashNexts, HashPrevs, Hashed
      <3>4. CASE b = Hash(n)
        <4>1. Hashed(d, b) = Hashed(c, b) \cup {s}
          BY <3>4, <1>4, <1>7, <1>9, <1>11 DEF Hashed
        <4>2. HashNexts(d)[s] = first /\ HashPrevs(d)[s] = 0
          BY <1>2, <1>4, <1>9 DEF HashNexts, HashPrevs
        <4>3. d.hash[b] = s
          BY <3>4, <1>1, <1>6, TableFacts
        <4>4. s \in Slots \ Hashed(c, b)
          BY <1>2 DEF Hashed
        <4>5. Threads(Hashed(c, b) \cup {s}, s, HashNexts(d), HashPrevs(d))
          <5>1. /\ Threads(Hashed(c, b), first, HashNexts(c), HashPrevs(c))
                /\ first \in {0} \cup Slots
            BY <3>1, <3>2, <3>4
          <5>2. /\ HashNexts(c) \in Links /\ HashPrevs(c) \in Links
                /\ HashNexts(d) \in Links /\ HashPrevs(d) \in Links
            BY <2>0
          <5>3. Hashed(c, b) \in SUBSET Slots
            BY <3>2
          <5>. DEFINE slots == Hashed(c, b)
                      next == HashNexts(c)  prev == HashPrevs(c)
                      next2 == HashNexts(d)  prev2 == HashPrevs(d)
          <5>4. /\ IsList(slots, first, next, prev)
                /\ IsWithNew(slots, first, next, prev, s, next2, prev2)
            BY <3>3, <5>1, <5>2, <5>3, <4>2, <4>4 DEF IsList, IsWithNew
          <5>. HIDE DEF first, slots, next, prev, next2, prev2
          <5>5. Threads(slots \cup {s}, s, next2, prev2)
            BY <5>4, ThreadsWithNew
          <5>. QED  BY <5>5 DEF slots, next2, prev2
        <4>. QED  BY <4>1, <4>3, <4>5
      <3>5. CASE b # Hash(n)
        <4>1. Hashed(d, b) = Hashed(c, b)
          BY <3>5, <1>4, <1>7, <1>9, <1>11 DEF Hashed
        <4>2. d.hash[b] = c.hash[b]
          BY <3>5, <1>1, <1>6, TableFacts
        <4>3. first \notin Hashed(c, b)
          BY <1>3, <3>5, SlotFacts DEF Hashed, Named
        <4>4. \A t \in Hashed(c, b) : HashNexts(d)[t] = HashNexts(c)[t]
                                      /\ HashPrevs(d)[t] = HashPrevs(c)[t]
          BY <3>3, <4>3
        <4>. DEFINE slots == Hashed(c, b)  head == c.hash[b]
                    next == HashNexts(c)  prev == HashPrevs(c)
                    next2 == HashNexts(d)  prev2 == HashPrevs(d)
        <4>5. /\ slots \in SUBSET Slots /\ head \in {0} \cup Slots
              /\ next \in Links /\ prev \in Links /\ next2 \in Links /\ prev2 \in Links
              /\ Threads(slots, head, next, prev)
              /\ \A t \in slots : next2[t] = next[t] /\ prev2[t] = prev[t]
          BY <3>1, <3>2, <4>4, <2>0
        <4>. HIDE DEF slots, head, next, prev, next2, prev2
        <4>6. Threads(slots, head, next2, prev2)
          <5>1. /\ IsList(slots, head, next, prev)
                /\ IsAlike(slots, next, prev, next2, prev2)
            BY <4>5 DEF IsList, IsAlike
          <5>. QED  BY <5>1, ThreadsOfOthers
        <4>. QED  BY <4>1, <4>2, <4>6 DEF slots, head, next2, prev2
      <3>. QED  BY <3>4, <3>5
    <2>3. \A t, u \in Named(d) : d.index[t].name = d.index[u].name => t = u
      <3>1. \A t, u \in Named(c) : c.index[t].name = c.index[u].name => t = u
        BY <1>1 DEF WellThreaded
      <3>. QED  BY <3>1, <1>4, <1>7, <1>9, <1>11
    <2>. QED  BY <2>1, <2>2, <2>3 DEF WellThreaded
  <1>13. \A t \in Named(d) : ValueIsSound(d.index[t]) /\ Unranged(d.index[t])
    <2>1. ASSUME NEW t \in Named(c)
          PROVE  ValueIsSound(d.index[t]) /\ Unranged(d.index[t])
      <3>1. ValueIsSound(c.index[t]) /\ Unranged(c.index[t])
        BY DEF Sound, WellValued
      <3>2. ValueIsSound(d.index[t])
        BY <3>1, <1>7 DEF ValueIsSound
      <3>3. Unranged(d.index[t])
        BY <3>1, <1>7 DEF Unranged
      <3>. QED  BY <3>2, <3>3
    <2>2. ValueIsSound(d.index[s])
      BY <1>4, <1>5, <1>9, SoundValue
    <2>3. Unranged(d.index[s])
      BY <1>5, <1>9 DEF Unranged
    <2>. QED  BY <2>1, <2>2, <2>3, <1>11
  <1>14. Sound(d)
    BY <1>10, <1>12, <1>13 DEF Sound, WellValued
  <1>15. \A t \in Named(c) : IsMarked(c.index[t], d.index[t])
    BY <1>7 DEF IsMarked
  <1>16. Keeps(c, d)
    BY <1>7, <1>11, <1>15 DEF Keeps, IsEngines
  <1>17. /\ d.index[s].name = n /\ d.index[s].flags = flags
         /\ d.index[s].latchedString = Null
    BY <1>4, <1>9
  <1>. QED  BY <1>2, <1>6, <1>11, <1>14, <1>16, <1>17 DEF s

\* Cvar_Unset.
LEMMA UnsetFacts ==
    ASSUME NEW c, Sound(c), NEW s \in Named(c), NEW d, d = Unset(c, s)
    PROVE  /\ Sound(d) /\ d.error = c.error
           /\ Named(d) = Named(c) \ {s}
           /\ \A t \in Named(d) :
                  /\ d.index[t].name = c.index[t].name
                  /\ d.index[t].flags = c.index[t].flags
                  /\ IsMarked(c.index[t], d.index[t])
           /\ Nexts(c)[s] \in Named(d) \cup {0}
           /\ \A t \in Slots \ {s} : \/ Nexts(d)[t] = Nexts(c)[t]
                                     \/ Nexts(c)[t] = s
  <1>. DEFINE v == c.index[s]  h == Hash(v.name)
  <1>1. /\ c \in Tables /\ s \in Slots /\ v \in Variable /\ h \in Buckets
        /\ WellThreaded(c)
    <2>1. /\ c \in Tables /\ s \in Slots /\ WellThreaded(c)
          /\ v \in Variable
      BY TableFacts DEF Sound, Named
    <2>2. v.name \in Names
      BY <2>1 DEF Variable
    <2>. QED  BY <2>1, <2>2, HashFacts
  <1>2. /\ Named(c) \in SUBSET Slots /\ Hashed(c, h) \in SUBSET Slots
        /\ c.vars \in {0} \cup Slots /\ c.hash[h] \in {0} \cup Slots
        /\ s \in Hashed(c, h) /\ Hashed(c, h) \subseteq Named(c)
    BY <1>1, TableFacts DEF Hashed
  <1>3. /\ Nexts(c) \in Links /\ Prevs(c) \in Links
        /\ HashNexts(c) \in Links /\ HashPrevs(c) \in Links
    BY <1>1, TableFacts
  <1>4. Threads(Named(c), c.vars, Nexts(c), Prevs(c))
    BY <1>1 DEF WellThreaded
  <1>5. Threads(Hashed(c, h), c.hash[h], HashNexts(c), HashPrevs(c))
    BY <1>1 DEF WellThreaded
  <1>6. /\ c.vars \in Named(c) \cup {0}
        /\ v.next \in Named(c) \cup {0} /\ v.next # s
        /\ v.prev \in Named(c) \cup {0} /\ v.prev # s
        /\ v.prev # 0 => Nexts(c)[v.prev] = s
    <2>1. Nexts(c)[s] = v.next /\ Prevs(c)[s] = v.prev
      BY <1>1 DEF Nexts, Prevs
    <2>2. /\ c.vars \in Named(c) \cup {0}
          /\ Nexts(c)[s] \in Named(c) \cup {0} /\ Nexts(c)[s] # s
          /\ Prevs(c)[s] \in Named(c) \cup {0} /\ Prevs(c)[s] # s
          /\ Prevs(c)[s] # 0 => Nexts(c)[Prevs(c)[s]] = s
      BY <1>1, TableLists, ThreadedFacts
    <2>. QED  BY <2>1, <2>2
  <1>7. /\ c.hash[h] \in Hashed(c, h) \cup {0}
        /\ v.hashNext \in Hashed(c, h) \cup {0} /\ v.hashNext # s
        /\ v.hashPrev \in Hashed(c, h) \cup {0} /\ v.hashPrev # s
    <2>1. HashNexts(c)[s] = v.hashNext /\ HashPrevs(c)[s] = v.hashPrev
      BY <1>1 DEF HashNexts, HashPrevs
    <2>2. /\ c.hash[h] \in Hashed(c, h) \cup {0}
          /\ HashNexts(c)[s] \in Hashed(c, h) \cup {0} /\ HashNexts(c)[s] # s
          /\ HashPrevs(c)[s] \in Hashed(c, h) \cup {0} /\ HashPrevs(c)[s] # s
      <3>1. IsList(Hashed(c, h), c.hash[h], HashNexts(c), HashPrevs(c))
        BY <1>1, TableLists
      <3>. QED  BY <3>1, <1>2, ThreadedFacts
    <2>. QED  BY <2>1, <2>2
  <1>8. /\ d.index = [i \in Slots |-> IF i = s THEN Free ELSE Joined(c, v, i)]
        /\ d.vars = IF v.prev = 0 THEN v.next ELSE c.vars
        /\ d.hash = [c.hash EXCEPT ![h] = IF v.hashPrev = 0 THEN v.hashNext ELSE @]
        /\ d.error = c.error /\ c.error \in BOOLEAN
        /\ d = [index |-> d.index, vars |-> d.vars, hash |-> d.hash,
                error |-> d.error]
    <2>1. d = [c EXCEPT
                !.index = [i \in Slots |-> IF i = s THEN Free ELSE Joined(c, v, i)],
                !.vars = IF v.prev = 0 THEN v.next ELSE @,
                !.hash[h] = IF v.hashPrev = 0 THEN v.hashNext ELSE @]
      BY DEF Unset, Zeroed
    <2>. HIDE DEF v, h
    <2>2. c = [index |-> c.index, vars |-> c.vars, hash |-> c.hash,
               error |-> c.error]
      BY <1>1, TableFacts
    <2>3. c.error \in BOOLEAN
      BY <1>1 DEF Tables
    <2>. QED  BY <2>1, <2>2, <2>3
  <1>9. ASSUME NEW i \in Named(c), i # s
        PROVE  LET u == c.index[i]  w == d.index[i]
               IN  /\ w \in Variable /\ w.name = u.name /\ w.flags = u.flags
                   /\ w.string = u.string /\ w.latchedString = u.latchedString
                   /\ w.next = IF i = v.prev THEN v.next ELSE u.next
                   /\ w.prev = IF i = v.next THEN v.prev ELSE u.prev
                   /\ w.hashNext = IF i = v.hashPrev THEN v.hashNext ELSE u.hashNext
                   /\ w.hashPrev = IF i = v.hashNext THEN v.hashPrev ELSE u.hashPrev
                   /\ w.modified = u.modified /\ w.validate = u.validate
    <2>1. i \in Slots /\ c.index[i] \in Variable
      BY <1>1, TableFacts
    <2>2. d.index[i] = Joined(c, v, i)
      BY <2>1, <1>8, <1>9
    <2>3. /\ v.next \in {0} \cup Slots /\ v.prev \in {0} \cup Slots
          /\ v.hashNext \in {0} \cup Slots /\ v.hashPrev \in {0} \cup Slots
      BY <1>1, RecordFacts
    <2>. HIDE DEF v
    <2>. DEFINE u == c.index[i]
                next == IF i = v.prev THEN v.next ELSE u.next
                prev == IF i = v.next THEN v.prev ELSE u.prev
                hashNext == IF i = v.hashPrev THEN v.hashNext ELSE u.hashNext
                hashPrev == IF i = v.hashNext THEN v.hashPrev ELSE u.hashPrev
    <2>4. d.index[i] = Relinked(u, next, prev, hashNext, hashPrev)
      BY <2>2 DEF Joined, Relinked
    <2>5. /\ u.next \in {0} \cup Slots /\ u.prev \in {0} \cup Slots
          /\ u.hashNext \in {0} \cup Slots /\ u.hashPrev \in {0} \cup Slots
      BY <2>1, RecordFacts
    <2>6. /\ next \in {0} \cup Slots /\ prev \in {0} \cup Slots
          /\ hashNext \in {0} \cup Slots /\ hashPrev \in {0} \cup Slots
      BY <2>3, <2>5
    <2>7. IsRelinked(u, d.index[i], next, prev, hashNext, hashPrev)
      <3>1. u \in Variable
        BY <2>1
      <3>. HIDE DEF u, next, prev, hashNext, hashPrev
      <3>2. IsRelinked(u, Relinked(u, next, prev, hashNext, hashPrev),
                       next, prev, hashNext, hashPrev)
        BY <3>1, <2>6, RelinkedFacts
      <3>. QED  BY <3>2, <2>4
    <2>. QED  BY <2>7 DEF IsRelinked
  <1>10. ASSUME NEW i \in Slots, i \notin Named(c)
         PROVE  d.index[i] = Free
    <2>1. /\ i # 0 /\ i # s /\ c.index[i] = Free
          /\ i # v.next /\ i # v.prev /\ i # v.hashNext /\ i # v.hashPrev
      BY <1>1, <1>2, <1>6, <1>7, <1>10, TableFacts, SlotFacts
    <2>2. d.index[i] = Joined(c, v, i)
      BY <2>1, <1>8
    <2>3. d.index[i] = Relinked(Free, Free.next, Free.prev,
                                Free.hashNext, Free.hashPrev)
      BY <2>1, <2>2 DEF Joined, Relinked
    <2>. QED  BY <2>3, RelinkedFacts
  <1>11. d.index[s] = Free
    BY <1>1, <1>8
  <1>12. d \in Tables
    <2>1. \A i \in Slots : d.index[i] \in Variable \cup {Free}
      BY <1>9, <1>10, <1>11
    <2>2. d.index \in [Slots -> Variable \cup {Free}]
      BY <2>1, <1>8
    <2>3. /\ v.next \in {0} \cup Slots /\ v.hashNext \in {0} \cup Slots
          /\ c.hash \in [Buckets -> {0} \cup Slots]
      BY <1>1, RecordFacts, TableFacts
    <2>. HIDE DEF v, h
    <2>4. d.vars \in {0} \cup Slots /\ d.hash \in [Buckets -> {0} \cup Slots]
      BY <2>3, <1>2, <1>8
    <2>. QED  BY <2>2, <2>4, <1>8 DEF Tables
  <1>13. Named(d) = Named(c) \ {s}
    <2>1. \A i \in Slots : i \in Named(d) <=> i \in Named(c) \ {s}
      BY <1>9, <1>10, <1>11, RecordFacts, NamesAssumption DEF Named
    <2>. QED  BY <2>1 DEF Named
  <1>14. /\ Nexts(d) \in Links /\ Prevs(d) \in Links
         /\ HashNexts(d) \in Links /\ HashPrevs(d) \in Links
    BY <1>12, TableFacts
  <1>15. Threads(Named(d), d.vars, Nexts(d), Prevs(d))
    <2>. DEFINE head == c.vars
                head2 == IF Prevs(c)[s] = 0 THEN Nexts(c)[s] ELSE head
    <2>1. head2 = d.vars /\ head \in {0} \cup Slots
          /\ Threads(Named(c), head, Nexts(c), Prevs(c))
      BY <1>1, <1>2, <1>4, <1>8 DEF Nexts, Prevs
    <2>2. \A t \in Named(c) \ {s} :
              /\ Nexts(d)[t] = IF t = Prevs(c)[s] THEN Nexts(c)[s] ELSE Nexts(c)[t]
              /\ Prevs(d)[t] = IF t = Nexts(c)[s] THEN Prevs(c)[s] ELSE Prevs(c)[t]
      BY <1>1, <1>2, <1>9 DEF Nexts, Prevs
    <2>3. /\ Nexts(c) \in Links /\ Prevs(c) \in Links
          /\ Nexts(d) \in Links /\ Prevs(d) \in Links
          /\ Named(c) \in SUBSET Slots
      BY <1>2, <1>3, <1>14
    <2>. DEFINE slots == Named(c)  next == Nexts(c)  prev == Prevs(c)
                next2 == Nexts(d)  prev2 == Prevs(d)
    <2>4. /\ slots \in SUBSET Slots /\ head \in {0} \cup Slots /\ s \in slots
          /\ next \in Links /\ prev \in Links /\ next2 \in Links /\ prev2 \in Links
          /\ Threads(slots, head, next, prev)
          /\ head2 = IF prev[s] = 0 THEN next[s] ELSE head
          /\ \A t \in slots \ {s} :
                /\ next2[t] = IF t = prev[s] THEN next[s] ELSE next[t]
                /\ prev2[t] = IF t = next[s] THEN prev[s] ELSE prev[t]
      BY <2>1, <2>2, <2>3
    <2>. HIDE DEF head, head2, slots, next, prev, next2, prev2
    <2>5. /\ IsList(slots, head, next, prev)
          /\ IsWithout(slots, head, next, prev, s, head2, next2, prev2)
      BY <2>4 DEF IsList, IsWithout
    <2>6. Threads(slots \ {s}, head2, next2, prev2)
      BY <2>5, ThreadsWithout
    <2>. QED  BY <2>1, <2>6, <1>13 DEF slots, next2, prev2
  <1>16. ASSUME NEW b \in Buckets
         PROVE  Threads(Hashed(d, b), d.hash[b], HashNexts(d), HashPrevs(d))
    <2>1. CASE b = h
      <3>. DEFINE head == c.hash[h]
                  head2 == IF HashPrevs(c)[s] = 0 THEN HashNexts(c)[s] ELSE head
      <3>1. head2 = d.hash[b] /\ head \in {0} \cup Slots
            /\ Threads(Hashed(c, h), head, HashNexts(c), HashPrevs(c))
        BY <2>1, <1>1, <1>2, <1>5, <1>8, TableFacts DEF HashNexts, HashPrevs
      <3>2. \A t \in Hashed(c, h) \ {s} :
                /\ HashNexts(d)[t] = IF t = HashPrevs(c)[s] THEN HashNexts(c)[s]
                                     ELSE HashNexts(c)[t]
                /\ HashPrevs(d)[t] = IF t = HashNexts(c)[s] THEN HashPrevs(c)[s]
                                     ELSE HashPrevs(c)[t]
        BY <1>1, <1>2, <1>9 DEF HashNexts, HashPrevs
      <3>3. /\ HashNexts(c) \in Links /\ HashPrevs(c) \in Links
            /\ HashNexts(d) \in Links /\ HashPrevs(d) \in Links
            /\ Hashed(c, h) \in SUBSET Slots /\ s \in Hashed(c, h)
        BY <1>2, <1>3, <1>14
      <3>4. Hashed(d, b) = Hashed(c, h) \ {s}
        BY <2>1, <1>9, <1>13 DEF Hashed
      <3>. DEFINE slots == Hashed(c, h)
                  next == HashNexts(c)  prev == HashPrevs(c)
                  next2 == HashNexts(d)  prev2 == HashPrevs(d)
      <3>5. /\ slots \in SUBSET Slots /\ head \in {0} \cup Slots /\ s \in slots
            /\ next \in Links /\ prev \in Links /\ next2 \in Links /\ prev2 \in Links
            /\ Threads(slots, head, next, prev)
            /\ head2 = IF prev[s] = 0 THEN next[s] ELSE head
            /\ \A t \in slots \ {s} :
                  /\ next2[t] = IF t = prev[s] THEN next[s] ELSE next[t]
                  /\ prev2[t] = IF t = next[s] THEN prev[s] ELSE prev[t]
        BY <3>1, <3>2, <3>3
      <3>. HIDE DEF head, head2, slots, next, prev, next2, prev2
      <3>6. /\ IsList(slots, head, next, prev)
            /\ IsWithout(slots, head, next, prev, s, head2, next2, prev2)
        BY <3>5 DEF IsList, IsWithout
      <3>7. Threads(slots \ {s}, head2, next2, prev2)
        BY <3>6, ThreadsWithout
      <3>8. head2 = d.hash[b]
        BY <3>1
      <3>9. Threads(Hashed(c, h) \ {s}, head2, HashNexts(d), HashPrevs(d))
        BY <3>7 DEF slots, next2, prev2
      <3>. QED  BY <3>4, <3>8, <3>9, Zenon
    <2>2. CASE b # h
      <3>1. Hashed(d, b) = Hashed(c, b)
        <4>1. \A i \in Named(c) \ {s} : d.index[i].name = c.index[i].name
          BY <1>9
        <4>2. s \notin Hashed(c, b)
          BY <2>2 DEF Hashed
        <4>. QED  BY <4>1, <4>2, <1>13 DEF Hashed
      <3>2. d.hash[b] = c.hash[b] /\ c.hash[b] \in {0} \cup Slots
        BY <2>2, <1>1, <1>8, TableFacts
      <3>3. v.hashPrev \notin Hashed(c, b) /\ v.hashNext \notin Hashed(c, b)
            /\ s \notin Hashed(c, b)
        BY <2>2, <1>7, SlotFacts DEF Hashed, Named
      <3>4. \A t \in Hashed(c, b) : HashNexts(d)[t] = HashNexts(c)[t]
                                    /\ HashPrevs(d)[t] = HashPrevs(c)[t]
        BY <3>3, <1>2, <1>9 DEF HashNexts, HashPrevs, Hashed
      <3>5. Threads(Hashed(c, b), c.hash[b], HashNexts(c), HashPrevs(c))
        BY <1>1 DEF WellThreaded
      <3>6. Hashed(c, b) \in SUBSET Slots
        BY <1>1, TableFacts
      <3>. DEFINE slots == Hashed(c, b)  first == c.hash[b]
                  next == HashNexts(c)  prev == HashPrevs(c)
                  next2 == HashNexts(d)  prev2 == HashPrevs(d)
      <3>7. /\ slots \in SUBSET Slots /\ first \in {0} \cup Slots
            /\ next \in Links /\ prev \in Links /\ next2 \in Links /\ prev2 \in Links
            /\ Threads(slots, first, next, prev)
            /\ \A t \in slots : next2[t] = next[t] /\ prev2[t] = prev[t]
        BY <3>2, <3>4, <3>5, <3>6, <1>3, <1>14
      <3>. HIDE DEF slots, first, next, prev, next2, prev2
      <3>8. Threads(slots, first, next2, prev2)
        <4>1. /\ IsList(slots, first, next, prev)
              /\ IsAlike(slots, next, prev, next2, prev2)
          BY <3>7 DEF IsList, IsAlike
        <4>. QED  BY <4>1, ThreadsOfOthers
      <3>. QED  BY <3>1, <3>2, <3>8 DEF slots, first, next2, prev2
    <2>. QED  BY <2>1, <2>2
  <1>17. \A t, u \in Named(d) : d.index[t].name = d.index[u].name => t = u
    <2>1. \A t, u \in Named(c) : c.index[t].name = c.index[u].name => t = u
      BY <1>1 DEF WellThreaded
    <2>. QED  BY <2>1, <1>9, <1>13
  <1>18. \A t \in Named(d) : ValueIsSound(d.index[t]) /\ Unranged(d.index[t])
    <2>1. ASSUME NEW t \in Named(c), t # s
          PROVE  ValueIsSound(d.index[t]) /\ Unranged(d.index[t])
      <3>1. ValueIsSound(c.index[t]) /\ Unranged(c.index[t])
        BY DEF Sound, WellValued
      <3>2. ValueIsSound(d.index[t])
        BY <3>1, <2>1, <1>9 DEF ValueIsSound
      <3>3. Unranged(d.index[t])
        BY <3>1, <2>1, <1>9 DEF Unranged
      <3>. QED  BY <3>2, <3>3
    <2>. QED  BY <2>1, <1>13
  <1>19. Sound(d)
    BY <1>12, <1>15, <1>16, <1>17, <1>18 DEF Sound, WellThreaded, WellValued
  <1>20. \A t \in Named(d) : IsMarked(c.index[t], d.index[t])
    BY <1>9, <1>13 DEF IsMarked
  <1>21. \A t \in Named(d) : /\ d.index[t].name = c.index[t].name
                             /\ d.index[t].flags = c.index[t].flags
    BY <1>9, <1>13
  <1>22. Nexts(c)[s] \in Named(d) \cup {0}
    BY <1>1, <1>6, <1>13 DEF Nexts
  <1>23. ASSUME NEW t \in Slots \ {s}
         PROVE  Nexts(d)[t] = Nexts(c)[t] \/ Nexts(c)[t] = s
    <2>1. CASE t \in Named(c)
      BY <2>1, <1>2, <1>6, <1>9, SlotFacts DEF Nexts
    <2>2. CASE t \notin Named(c)
      BY <2>2, <1>1, <1>10, TableFacts DEF Nexts
    <2>. QED  BY <2>1, <2>2
  <1>. QED  BY <1>8, <1>13, <1>19, <1>20, <1>21, <1>22, <1>23

LEMMA SetFacts ==
    ASSUME NEW c, NEW v \in Variable, NEW wanted \in Values,
           v.latchedString = Null, v.validate = FALSE
    PROVE  Changed(c, v, wanted, TRUE).string = wanted
  <1>1. Cvar_Validate(v, wanted) = wanted
    BY ValidateFacts
  <1>2. CASE wanted = v.string
    <2>1. Changed(c, v, wanted, TRUE) = v
      BY <1>1, <1>2 DEF Changed
    <2>. QED  BY <2>1, <1>2
  <1>3. CASE wanted # v.string
    <2>1. Changed(c, v, wanted, TRUE) =
              Assigned([v EXCEPT !.latchedString = Null], wanted)
      BY <1>1, <1>3 DEF Changed
    <2>. QED  BY <2>1 DEF Assigned, Variable
  <1>. QED  BY <1>2, <1>3

(***************************************************************************)
(* The operations of the table.                                            *)
(***************************************************************************)

LEMMA KeepsItself ==
    ASSUME NEW c, Sound(c), NEW d \in Tables, d.index = c.index, d.vars = c.vars,
           d.hash = c.hash
    PROVE  Sound(d) /\ Keeps(c, d) /\ Named(d) = Named(c) /\ Nexts(d) = Nexts(c)
  <1>1. Sound(d) /\ Named(d) = Named(c) /\ Nexts(d) = Nexts(c)
    BY RevaluedFacts DEF Sound, WellValued, SameLinks
  <1>. QED  BY <1>1 DEF Keeps, IsMarked

LEMMA KeepsTransitive ==
    ASSUME NEW c, NEW d, NEW e, Keeps(c, d), Keeps(d, e)
    PROVE  Keeps(c, e)
  <1>1. \A u, v, w : IsMarked(u, v) /\ IsMarked(v, w) => IsMarked(u, w)
    BY DEF IsMarked
  <1>2. ASSUME NEW s \in Named(c), IsEngines(c.index[s])
        PROVE  /\ s \in Named(e) /\ e.index[s].name = c.index[s].name
               /\ IsEngines(e.index[s]) /\ IsMarked(c.index[s], e.index[s])
    <2>1. /\ s \in Named(d) /\ d.index[s].name = c.index[s].name
          /\ IsEngines(d.index[s]) /\ IsMarked(c.index[s], d.index[s])
      BY <1>2 DEF Keeps
    <2>2. /\ s \in Named(e) /\ e.index[s].name = d.index[s].name
          /\ IsEngines(e.index[s]) /\ IsMarked(d.index[s], e.index[s])
      BY <2>1 DEF Keeps
    <2>. QED  BY <2>1, <2>2, <1>1
  <1>. QED  BY <1>2 DEF Keeps

\* Too many variables: the table stays as it is.
LEMMA ErrorFacts ==
    ASSUME NEW c, Sound(c), NEW d, d = [c EXCEPT !.error = TRUE]
    PROVE  /\ Sound(d) /\ Keeps(c, d) /\ Named(d) = Named(c)
           /\ d.index = c.index /\ d.error = TRUE
  <1>1. c \in Tables
    BY DEF Sound
  <1>2. /\ d \in Tables /\ d.index = c.index /\ d.vars = c.vars
        /\ d.hash = c.hash /\ d.error = TRUE
    BY <1>1 DEF Tables
  <1>. QED  BY <1>2, KeepsItself

LEMMA SlotKept ==
    ASSUME NEW c, Sound(c), NEW s \in Named(c),
           NEW w \in Variable, SameLinks(c.index[s], w), ValueIsSound(w),
           Unranged(w), NEW d, d = WithSlot(c, s, w),
           IsEngines(c.index[s]) => IsEngines(w) /\ IsMarked(c.index[s], w)
    PROVE  /\ Sound(d) /\ Keeps(c, d) /\ d.error = c.error
           /\ Named(d) = Named(c) /\ Nexts(d) = Nexts(c)
           /\ d.index[s] = w /\ \A t \in Slots \ {s} : d.index[t] = c.index[t]
  <1>1. /\ Sound(d) /\ Named(d) = Named(c) /\ Nexts(d) = Nexts(c)
        /\ d.index[s] = w /\ d.error = c.error
        /\ \A t \in Slots \ {s} : d.index[t] = c.index[t]
    BY SlotRevaluedFacts
  <1>2. \A v : IsMarked(v, v)
    BY DEF IsMarked
  <1>3. ASSUME NEW t \in Named(c), IsEngines(c.index[t])
        PROVE  /\ d.index[t].name = c.index[t].name /\ IsEngines(d.index[t])
               /\ IsMarked(c.index[t], d.index[t])
    <2>1. CASE t = s
      BY <2>1, <1>1, <1>3 DEF SameLinks
    <2>2. CASE t # s
      BY <2>2, <1>1, <1>2, <1>3 DEF Named
    <2>. QED  BY <2>1, <2>2
  <1>4. Keeps(c, d)
    BY <1>1, <1>3 DEF Keeps
  <1>. QED  BY <1>1, <1>4

\* A variable is created, or there is no room for it.
IsMade(c, d, n, flags) ==
    LET s == Cvar_FindVar(d, n)
    IN  \/ d.error = TRUE /\ FreeSlots(c) = {} /\ s = 0
        \/ /\ d.error = c.error /\ s = Min(FreeSlots(c)) /\ s \in Slots
           /\ Named(d) = Named(c) \cup {s}
           /\ d.index[s].flags = flags /\ d.index[s].latchedString = Null

LEMMA MadeFacts ==
    ASSUME NEW c, Sound(c), NEW n \in Names, NEW value \in Values,
           NEW flags \in SUBSET Flags, Cvar_FindVar(c, n) = 0,
           NEW d, d = Created(c, n, value, flags)
    PROVE  /\ Sound(d) /\ Keeps(c, d)
           /\ IsMade(c, d, n, flags)
  <1>1. c \in Tables /\ WellThreaded(c)
    BY DEF Sound
  <1>2. \A t \in Named(c) : c.index[t].name # n
    <2>1. \A t \in Named(c) : c.index[t].name = n => Cvar_FindVar(c, n) = t
      BY <1>1, FindFacts
    <2>. QED  BY <2>1, SlotFacts DEF Named
  <1>3. CASE FreeSlots(c) = {}
    <2>1. d = [c EXCEPT !.error = TRUE]
      BY <1>3 DEF Created
    <2>2. /\ Sound(d) /\ Keeps(c, d) /\ Named(d) = Named(c)
          /\ d.index = c.index /\ d.error = TRUE
      BY <2>1, ErrorFacts
    <2>3. Cvar_FindVar(d, n) = 0
      BY <2>2, <1>2, FindFacts DEF Sound
    <2>. QED  BY <2>2, <2>3, <1>3 DEF IsMade
  <1>4. CASE FreeSlots(c) # {}
    <2>. DEFINE s == Min(FreeSlots(c))
    <2>0. Sound(d) /\ Keeps(c, d)
      BY <1>2, <1>4, CreatedFacts
    <2>1. s \in Slots \ Named(c) /\ Named(d) = Named(c) \cup {s}
      BY <1>2, <1>4, CreatedFacts
    <2>2. d.index[s].name = n
      BY <1>2, <1>4, CreatedFacts
    <2>3. d.index[s].flags = flags
      BY <1>2, <1>4, CreatedFacts
    <2>4. d.index[s].latchedString = Null /\ d.error = c.error
      BY <1>2, <1>4, CreatedFacts
    <2>. HIDE DEF s
    <2>5. Cvar_FindVar(d, n) = s
      BY <2>0, <2>1, <2>2, FindFacts DEF Sound
    <2>6. s = Min(FreeSlots(c))
      BY DEF s
    <2>. QED  BY <2>0, <2>1, <2>3, <2>4, <2>5, <2>6 DEF IsMade
  <1>. QED  BY <1>3, <1>4

SameFlags(c, d) == \A t \in Named(c) : d.index[t].flags = c.index[t].flags

SameButFor(c, d, s) == \A t \in Named(c) \ {s} : d.index[t] = c.index[t]

LEMMA Set2Facts ==
    ASSUME NEW c, Sound(c), NEW n \in Names, NEW value \in Values,
           NEW flags \in SUBSET Flags, NEW force \in BOOLEAN,
           NEW d, d = Cvar_Set2(c, n, value, flags, force)
    PROVE  /\ Sound(d) /\ Keeps(c, d)
           /\ Cvar_FindVar(c, n) # 0 =>
                  /\ Named(d) = Named(c) /\ Nexts(d) = Nexts(c)
                  /\ d.error = c.error
                  /\ SameFlags(c, d)
                  /\ SameButFor(c, d, Cvar_FindVar(c, n))
                  /\ d.index[Cvar_FindVar(c, n)] =
                         Changed(c, c.index[Cvar_FindVar(c, n)], value, force)
  <1>. DEFINE s == Cvar_FindVar(c, n)
  <1>1. c \in Tables /\ WellThreaded(c) /\ (s = 0 \/ s \in Named(c))
    BY FindFacts DEF Sound
  <1>. HIDE DEF s
  <1>2. CASE s = 0
    <2>1. d = Created(c, n, value, flags)
      BY <1>2 DEF Cvar_Set2, s
    <2>2. Cvar_FindVar(c, n) = 0
      BY <1>2 DEF s
    <2>3. Sound(d) /\ Keeps(c, d)
      BY <2>1, <2>2, MadeFacts
    <2>. QED  BY <2>2, <2>3
  <1>3. CASE s # 0
    <2>. DEFINE v == c.index[s]  w == Changed(c, v, value, force)
    <2>1. s \in Named(c) /\ v \in Variable /\ ValueIsSound(v) /\ Unranged(v)
      BY <1>1, <1>3, TableFacts DEF Sound, WellValued
    <2>2. d = WithSlot(c, s, w)
      BY <1>3 DEF Cvar_Set2, s, WithSlot
    <2>. HIDE DEF v, w
    <2>. HIDE DEF v
    <2>0. IsSoundChange(v, w)
      BY <2>1, ChangedFacts DEF w
    <2>3. /\ w \in Variable /\ ValueIsSound(w) /\ SameLinks(v, w)
          /\ w.flags = v.flags /\ w.validate = v.validate /\ IsMarked(v, w)
      BY <2>0 DEF IsSoundChange
    <2>4. Unranged(w)
      BY <2>1, <2>3 DEF Unranged, SameLinks
    <2>5. IsEngines(v) => IsEngines(w)
      BY <2>3 DEF IsEngines
    <2>6. v = c.index[s]
      BY DEF v
    <2>7. /\ Sound(d) /\ Keeps(c, d) /\ d.error = c.error
          /\ Named(d) = Named(c) /\ Nexts(d) = Nexts(c)
          /\ d.index[s] = w /\ \A t \in Slots \ {s} : d.index[t] = c.index[t]
      BY <2>1, <2>2, <2>3, <2>4, <2>5, <2>6, SlotKept
    <2>8. SameFlags(c, d)
      BY <2>3, <2>6, <2>7 DEF Named, SameFlags
    <2>9. SameButFor(c, d, s)
      BY <2>7 DEF Named, SameButFor
    <2>. QED  BY <2>7, <2>8, <2>9 DEF s, w, v
  <1>. QED  BY <1>2, <1>3

\* Cvar_Set, Cvar_User_Set, Cvar_Reset, Cvar_Toggle_f and Cvar_Server_Set.
LEMMA SettersFacts ==
    ASSUME NEW c, Sound(c), NEW n \in Names, NEW value \in Values
    PROVE  /\ Sound(Cvar_Set(c, n, value)) /\ Keeps(c, Cvar_Set(c, n, value))
           /\ Sound(Cvar_User_Set(c, n, value)) /\ Keeps(c, Cvar_User_Set(c, n, value))
           /\ Sound(Cvar_Server_Set(c, n, value))
           /\ Keeps(c, Cvar_Server_Set(c, n, value))
  <1>1. \A flags \in SUBSET Flags, force \in BOOLEAN :
            /\ Sound(Cvar_Set2(c, n, value, flags, force))
            /\ Keeps(c, Cvar_Set2(c, n, value, flags, force))
    BY Set2Facts
  <1>2. {} \in SUBSET Flags /\ {"USER_CREATED"} \in SUBSET Flags
        /\ {"SERVER_CREATED"} \in SUBSET Flags
    BY DEF Flags
  <1>3. Keeps(c, c)
    BY KeepsItself DEF Sound
  <1>4. /\ Cvar_Set(c, n, value) = Cvar_Set2(c, n, value, {}, TRUE)
        /\ Cvar_User_Set(c, n, value) = Cvar_Set2(c, n, value, {"USER_CREATED"}, FALSE)
        /\ Cvar_Server_Set(c, n, value) \in
               {c, Cvar_Set2(c, n, value, {"SERVER_CREATED"}, TRUE)}
    BY DEF Cvar_Set, Cvar_User_Set, Cvar_Server_Set
  <1>. QED  BY <1>1, <1>2, <1>3, <1>4

LEMMA ResetFacts ==
    ASSUME NEW c, Sound(c), NEW n \in Names, NEW force \in BOOLEAN
    PROVE  Sound(Cvar_Reset(c, n, force)) /\ Keeps(c, Cvar_Reset(c, n, force))
  <1>. DEFINE s == Cvar_FindVar(c, n)
  <1>1. Keeps(c, c) /\ c \in Tables /\ WellThreaded(c)
    BY KeepsItself DEF Sound
  <1>2. CASE s = 0
    BY <1>1, <1>2 DEF Cvar_Reset
  <1>3. CASE s # 0
    <2>1. s \in Named(c)
      BY <1>1, <1>3, FindFacts
    <2>2. c.index[s].resetString \in Values
      BY <1>1, <2>1, TableFacts, RecordFacts
    <2>3. {} \in SUBSET Flags
      OBVIOUS
    <2>4. Cvar_Reset(c, n, force) = Cvar_Set2(c, n, c.index[s].resetString, {}, force)
      BY <1>3 DEF Cvar_Reset
    <2>5. \A value \in Values, flags \in SUBSET Flags :
              /\ Sound(Cvar_Set2(c, n, value, flags, force))
              /\ Keeps(c, Cvar_Set2(c, n, value, flags, force))
      BY Set2Facts
    <2>. QED  BY <2>2, <2>3, <2>4, <2>5
  <1>. QED  BY <1>2, <1>3

LEMMA ToggleFacts ==
    ASSUME NEW c, Sound(c), NEW n \in Names
    PROVE  Sound(Cvar_Toggle(c, n)) /\ Keeps(c, Cvar_Toggle(c, n))
  <1>1. Cvar_Toggle(c, n) \in {Cvar_User_Set(c, n, 0), Cvar_User_Set(c, n, 1)}
    BY DEF Cvar_Toggle
  <1>2. \A v \in Values : Sound(Cvar_User_Set(c, n, v)) /\ Keeps(c, Cvar_User_Set(c, n, v))
    BY SettersFacts
  <1>. QED  BY <1>1, <1>2, SlotFacts

\* Cvar_Get, on a variable that is there: the flags it keeps and gets.
LEMMA FlagFacts ==
    ASSUME NEW v \in Variable, NEW flags \in SUBSET (Flags \ {"USER_CREATED"}),
           NEW result, result = KeptFlags(v, flags) \cup GivenFlags(v, flags)
    PROVE  /\ result \in SUBSET Flags
           /\ IsEngines(v) => result \cap {"USER_CREATED", "VM_CREATED"} = {}
           /\ "VM_CREATED" \notin flags =>
                  result \cap {"USER_CREATED", "VM_CREATED"} = {}
  <1>1. v.flags \in SUBSET Flags
    BY RecordFacts
  <1>2. /\ KeptFlags(v, flags) =
               v.flags \ ({"USER_CREATED"} \cup ({"VM_CREATED", "SERVER_CREATED"} \ flags))
        /\ GivenFlags(v, flags) \subseteq flags
        /\ IsEngines(v) => "VM_CREATED" \notin GivenFlags(v, flags)
    <2>1. KeptFlags(v, flags) =
               v.flags \ ({"USER_CREATED"} \cup ({"VM_CREATED", "SERVER_CREATED"} \ flags))
      BY DEF KeptFlags
    <2>2. GivenFlags(v, flags) \subseteq flags
      BY DEF GivenFlags
    <2>3. ASSUME IsEngines(v) PROVE "VM_CREATED" \notin GivenFlags(v, flags)
      <3>1. v.flags \cap {"VM_CREATED", "USER_CREATED"} = {}
        BY <2>3 DEF IsEngines
      <3>. QED  BY <3>1 DEF GivenFlags
    <2>. QED  BY <2>1, <2>2, <2>3
  <1>3. result \in SUBSET Flags
    BY <1>1, <1>2
  <1>4. "USER_CREATED" \notin result
    BY <1>2
  <1>5. IsEngines(v) => "VM_CREATED" \notin result
    BY <1>2 DEF IsEngines
  <1>6. "VM_CREATED" \notin flags => "VM_CREATED" \notin result
    BY <1>2
  <1>. QED  BY <1>3, <1>4, <1>5, <1>6

IsGot(c, d, n, flags) ==
    LET s == Cvar_FindVar(d, n)
    IN  /\ s = 0 => /\ d.error = TRUE /\ FreeSlots(c) = {}
                    /\ Cvar_FindVar(c, n) = 0
        /\ s # 0 =>
            /\ s \in Named(d) /\ d.error = c.error
            /\ d.index[s].latchedString = Null
            /\ "VM_CREATED" \notin flags => IsEngines(d.index[s])
            /\ \/ Cvar_FindVar(c, n) = s /\ Named(d) = Named(c)
               \/ /\ Cvar_FindVar(c, n) = 0 /\ s = Min(FreeSlots(c))
                  /\ Named(d) = Named(c) \cup {s}

LEMMA GetFacts ==
    ASSUME NEW c, Sound(c), NEW n \in Names, NEW value \in Values,
           NEW flags \in SUBSET (Flags \ {"USER_CREATED"}),
           NEW d, d = Cvar_Get(c, n, value, flags)
    PROVE  Sound(d) /\ Keeps(c, d) /\ IsGot(c, d, n, flags)
  <1>. DEFINE s == Cvar_FindVar(c, n)
              v == c.index[s]
  <1>1. c \in Tables /\ WellThreaded(c) /\ (s = 0 \/ s \in Named(c))
    BY FindFacts DEF Sound
  <1>2. CASE s = 0
    <2>1. d = Created(c, n, value, flags) /\ flags \in SUBSET Flags
      BY <1>2 DEF Cvar_Get
    <2>. HIDE DEF s
    <2>2. Cvar_FindVar(c, n) = 0
      BY <1>2 DEF s
    <2>3. Sound(d) /\ Keeps(c, d) /\ IsMade(c, d, n, flags)
      BY <2>1, <2>2, MadeFacts
    <2>4. IsGot(c, d, n, flags)
      BY <2>2, <2>3, SlotFacts DEF IsGot, IsMade, IsEngines
    <2>. QED  BY <2>3, <2>4
  <1>3. CASE s # 0
    <2>. DEFINE byUser == "USER_CREATED" \in v.flags
                given == Cvar_Validate(v, value)
                latched == IF byUser /\ "ROM" \in flags THEN given ELSE v.latchedString
                result == KeptFlags(v, flags) \cup GivenFlags(v, flags)
                reset == IF byUser THEN given ELSE v.resetString
                got == [v EXCEPT !.flags = result, !.resetString = reset,
                                 !.latchedString = Null]
                w == IF latched = Null THEN got ELSE Changed(c, got, latched, TRUE)
    <2>1. s \in Named(c) /\ v \in Variable /\ ValueIsSound(v) /\ Unranged(v)
      BY <1>1, <1>3, TableFacts DEF Sound, WellValued
    <2>2. d = WithSlot(c, s, w)
      BY <1>3 DEF Cvar_Get, WithSlot
    <2>3. /\ result \in SUBSET Flags
          /\ IsEngines(v) => result \cap {"USER_CREATED", "VM_CREATED"} = {}
          /\ "VM_CREATED" \notin flags =>
                 result \cap {"USER_CREATED", "VM_CREATED"} = {}
      <3>1. v \in Variable
        BY <2>1
      <3>2. result = KeptFlags(v, flags) \cup GivenFlags(v, flags)
        OBVIOUS
      <3>. HIDE DEF v, result
      <3>. QED  BY <3>1, <3>2, FlagFacts
    <2>4. given \in Values /\ v.latchedString \in Values \cup {Null}
          /\ v.resetString \in Values
      BY <2>1, ValidateFacts, RecordFacts
    <2>5. latched \in Values \cup {Null} /\ reset \in Values
      BY <2>4
    <2>. HIDE DEF s, v, given, latched, result, reset, got
    <2>6. got \in Variable
      BY <2>1, <2>3, <2>5 DEF got, Variable
    <2>7. /\ got.latchedString = Null /\ got.string = v.string
          /\ got.flags = result /\ got.validate = v.validate
          /\ got.modified = v.modified /\ SameLinks(v, got)
      BY <2>1 DEF got, Variable, SameLinks
    <2>8. ValueIsSound(got)
      BY <2>1, <2>7, SoundValue
    <2>9. /\ w \in Variable /\ ValueIsSound(w) /\ SameLinks(got, w)
          /\ w.flags = result /\ w.validate = v.validate
          /\ IsMarked(got, w) /\ w.latchedString = Null
      <3>1. CASE latched = Null
        <4>1. w = got
          BY <3>1
        <4>. QED  BY <4>1, <2>6, <2>7, <2>8 DEF SameLinks, IsMarked
      <3>2. CASE latched # Null
        <4>1. w = Changed(c, got, latched, TRUE) /\ latched \in Values
          BY <3>2, <2>5
        <4>. HIDE DEF w
        <4>2. IsSoundChange(got, w)
          BY <4>1, <2>6, <2>8, ChangedFacts
        <4>3. w.latchedString \in {Null, got.latchedString}
          BY <4>1, <2>6, <2>8, ChangedFacts
        <4>. QED  BY <4>2, <4>3, <2>7 DEF IsSoundChange
      <3>. QED  BY <3>1, <3>2
    <2>. HIDE DEF w
    <2>10. SameLinks(v, w)
      BY <2>7, <2>9 DEF SameLinks
    <2>11. IsMarked(v, w)
      BY <2>7, <2>9 DEF IsMarked
    <2>12. Unranged(w)
      BY <2>1, <2>9, <2>10 DEF Unranged, SameLinks
    <2>13. IsEngines(v) => IsEngines(w)
      BY <2>3, <2>9 DEF IsEngines
    <2>14. v = c.index[s]
      BY DEF v
    <2>15. /\ Sound(d) /\ Keeps(c, d) /\ d.error = c.error
           /\ Named(d) = Named(c) /\ d.index[s] = w
      BY <2>1, <2>2, <2>9, <2>10, <2>11, <2>12, <2>13, <2>14, SlotKept
    <2>16. c.index[s].name = n
      BY <1>1, <2>1, FindFacts, SlotFacts DEF s, Named
    <2>17. Cvar_FindVar(d, n) = s
      <3>1. d.index[s].name = n /\ s \in Named(d) /\ d \in Tables /\ WellThreaded(d)
        BY <2>1, <2>10, <2>14, <2>15, <2>16 DEF SameLinks, Sound
      <3>. QED  BY <3>1, FindFacts
    <2>18. "VM_CREATED" \notin flags => IsEngines(w)
      BY <2>3, <2>9 DEF IsEngines
    <2>19. s = Cvar_FindVar(c, n)
      BY DEF s
    <2>20. IsGot(c, d, n, flags)
      BY <1>3, <2>1, <2>9, <2>15, <2>17, <2>18, <2>19 DEF IsGot
    <2>. QED  BY <2>15, <2>20
  <1>. QED  BY <1>2, <1>3

\* Cvar_Register.
LEMMA RegisterFacts ==
    ASSUME NEW c, Sound(c), NEW n \in Names, NEW value \in Values,
           NEW flags \in VMFlags
    PROVE  /\ Sound(Cvar_Register(c, n, value, flags))
           /\ Keeps(c, Cvar_Register(c, n, value, flags))
  <1>. DEFINE asked == {"VM_CREATED"} \cup (IF {"ARCHIVE", "ROM"} \subseteq flags
                                            THEN flags \ {"ROM"} ELSE flags)
  <1>1. flags \in SUBSET (Flags \ {"USER_CREATED"})
    BY FlagsAssumption
  <1>2. asked \in SUBSET (Flags \ {"USER_CREATED"})
    BY <1>1 DEF Flags
  <1>3. Cvar_Register(c, n, value, flags) = Cvar_Get(c, n, value, asked)
    BY DEF Cvar_Register
  <1>. HIDE DEF asked
  <1>4. Sound(Cvar_Get(c, n, value, asked)) /\ Keeps(c, Cvar_Get(c, n, value, asked))
    BY <1>2, GetFacts
  <1>. QED  BY <1>3, <1>4

LEMMA UnsetsFacts ==
    ASSUME NEW c, Sound(c), NEW n \in Names
    PROVE  Sound(Cvar_Unset_f(c, n)) /\ Keeps(c, Cvar_Unset_f(c, n))
  <1>. DEFINE s == Cvar_FindVar(c, n)
  <1>1. c \in Tables /\ WellThreaded(c) /\ Keeps(c, c) /\ (s = 0 \/ s \in Named(c))
    BY FindFacts, KeepsItself DEF Sound
  <1>2. CASE ~(s # 0 /\ Unsettable(c, s))
    BY <1>1, <1>2 DEF Cvar_Unset_f
  <1>3. CASE s # 0 /\ Unsettable(c, s)
    <2>. DEFINE d == Unset(c, s)
    <2>1. Cvar_Unset_f(c, n) = d
      BY <1>3 DEF Cvar_Unset_f
    <2>2. s \in Named(c) /\ ~IsEngines(c.index[s])
      BY <1>1, <1>3 DEF Unsettable, IsEngines
    <2>. HIDE DEF s
    <2>3. d = Unset(c, s)
      OBVIOUS
    <2>. HIDE DEF d
    <2>4. /\ Sound(d) /\ Named(d) = Named(c) \ {s}
          /\ \A t \in Named(d) :
                 /\ d.index[t].name = c.index[t].name
                 /\ d.index[t].flags = c.index[t].flags
                 /\ IsMarked(c.index[t], d.index[t])
      BY <2>2, <2>3, UnsetFacts
    <2>5. Keeps(c, d)
      BY <2>2, <2>4 DEF Keeps, IsEngines
    <2>. QED  BY <2>1, <2>4, <2>5
  <1>. QED  BY <1>2, <1>3

\* A variable's own range, as it is registered.
LEMMA RangeFacts ==
    ASSUME NEW c, Sound(c), NEW n \in Names \ NetNames,
           Cvar_FindVar(c, n) # 0,
           c.index[Cvar_FindVar(c, n)].latchedString = Null
    PROVE  /\ Sound(Cvar_CheckRange(c, n)) /\ Keeps(c, Cvar_CheckRange(c, n))
           /\ Named(Cvar_CheckRange(c, n)) = Named(c)
           /\ LET s == Cvar_FindVar(c, n)
              IN  /\ Cvar_CheckRange(c, n).index[s].name = n
                  /\ Cvar_CheckRange(c, n).index[s].flags = c.index[s].flags
  <1>. DEFINE s == Cvar_FindVar(c, n)
              v == c.index[s]
              ranged == [v EXCEPT !.validate = TRUE]
              w == Changed(c, ranged, v.string, TRUE)
              d == Cvar_CheckRange(c, n)
  <1>1. c \in Tables /\ WellThreaded(c) /\ s \in Named(c) /\ v.name = n
    BY FindFacts, SlotFacts DEF Sound, Named
  <1>2. v \in Variable /\ v.string \in Values /\ v.latchedString = Null
    BY <1>1, TableFacts, RecordFacts DEF Named
  <1>3. d = WithSlot(c, s, w)
    BY DEF Cvar_CheckRange, WithSlot
  <1>. HIDE DEF d, s, v
  <1>4. ranged \in Variable
    BY <1>2 DEF Variable
  <1>5. /\ ranged.latchedString = Null /\ SameLinks(v, ranged)
        /\ ranged.flags = v.flags /\ ranged.string = v.string
        /\ ranged.modified = v.modified
    BY <1>2 DEF Variable, SameLinks
  <1>6. w = Changed(c, ranged, v.string, TRUE)
    OBVIOUS
  <1>. HIDE DEF ranged, w
  <1>7. IsSoundChange(ranged, w)
    BY <1>2, <1>4, <1>5, <1>6, ChangedFacts
  <1>8. w \in Variable /\ ValueIsSound(w) /\ SameLinks(v, w) /\ w.flags = v.flags
    BY <1>5, <1>7 DEF IsSoundChange, SameLinks
  <1>9. IsMarked(v, w)
    BY <1>2, <1>5, <1>7 DEF IsSoundChange, IsMarked
  <1>10. Unranged(w) /\ w.name = n
    BY <1>1, <1>8 DEF Unranged, SameLinks
  <1>11. IsEngines(v) => IsEngines(w)
    BY <1>8 DEF IsEngines
  <1>12. v = c.index[s]
    BY DEF v
  <1>13. /\ Sound(d) /\ Keeps(c, d) /\ Named(d) = Named(c) /\ d.index[s] = w
    BY <1>1, <1>3, <1>8, <1>9, <1>10, <1>11, <1>12, SlotKept
  <1>. QED  BY <1>8, <1>10, <1>12, <1>13 DEF s, d

LEMMA CheatFacts ==
    ASSUME NEW c, Sound(c)
    PROVE  Sound(Cvar_SetCheatState(c)) /\ Keeps(c, Cvar_SetCheatState(c))
  <1>. DEFINE d == Cvar_SetCheatState(c)
              Uncheated(u) == [u EXCEPT !.latchedString = Null]
              Turned(u) == IF "CHEAT" \notin u.flags THEN u
                           ELSE IF u.string = u.resetString THEN Uncheated(u)
                           ELSE Changed(c, Uncheated(u), u.resetString, TRUE)
  <1>1. c \in Tables /\ c = [index |-> c.index, vars |-> c.vars, hash |-> c.hash,
                             error |-> c.error]
        /\ c.error \in BOOLEAN
    BY TableFacts DEF Sound, Tables
  <1>2. ASSUME NEW v \in Variable, ValueIsSound(v)
        PROVE  IsSoundChange(v, Turned(v))
    <2>. DEFINE u == Uncheated(v)
    <2>1. u \in Variable /\ v.resetString \in Values
      BY DEF Variable
    <2>2. /\ u.latchedString = Null /\ SameLinks(v, u) /\ u.flags = v.flags
          /\ u.string = v.string /\ u.validate = v.validate
          /\ u.modified = v.modified
      BY DEF Variable, SameLinks
    <2>3. ValueIsSound(u)
      BY <1>2, <2>2, SoundValue
    <2>4. IsSoundChange(v, u)
      BY <2>1, <2>2, <2>3 DEF IsSoundChange, IsMarked
    <2>5. IsSoundChange(v, v)
      BY <1>2 DEF IsSoundChange, IsMarked, SameLinks
    <2>. DEFINE w == Changed(c, u, v.resetString, TRUE)
    <2>6. IsSoundChange(v, w)
      <3>. HIDE DEF u
      <3>1. IsSoundChange(u, w)
        BY <2>1, <2>3, ChangedFacts
      <3>. HIDE DEF w
      <3>2. w \in Variable /\ ValueIsSound(w) /\ SameLinks(v, w)
            /\ w.flags = v.flags /\ w.validate = v.validate
        BY <2>2, <3>1 DEF IsSoundChange, SameLinks
      <3>3. IsMarked(v, w)
        BY <2>2, <3>1 DEF IsSoundChange, IsMarked
      <3>. QED  BY <3>2, <3>3 DEF IsSoundChange
    <2>7. Turned(v) = v \/ Turned(v) = u \/ Turned(v) = w
      OBVIOUS
    <2>. QED  BY <2>4, <2>5, <2>6, <2>7
  <1>3. Turned(Free) = Free
    BY DEF Free
  <1>4. d = [c EXCEPT !.index = [s \in Slots |-> Turned(c.index[s])]]
    <2>1. \A u : [u EXCEPT !.latchedString = Null].flags = u.flags
                 /\ [u EXCEPT !.latchedString = Null].string = u.string
                 /\ [u EXCEPT !.latchedString = Null].resetString = u.resetString
      OBVIOUS
    <2>. QED  BY <2>1 DEF Cvar_SetCheatState
  <1>. HIDE DEF d, Turned, Uncheated
  <1>5. /\ d.index = [s \in Slots |-> Turned(c.index[s])]
        /\ d.vars = c.vars /\ d.hash = c.hash /\ d.error = c.error
        /\ d = [index |-> d.index, vars |-> d.vars, hash |-> d.hash,
                error |-> d.error]
    BY <1>1, <1>4
  <1>6. \A s \in Named(c) : IsSoundChange(c.index[s], d.index[s])
    <2>1. \A s \in Named(c) : s \in Slots /\ c.index[s] \in Variable
      BY <1>1, TableFacts
    <2>2. \A s \in Named(c) : ValueIsSound(c.index[s])
      BY DEF Sound, WellValued
    <2>. QED  BY <2>1, <2>2, <1>2, <1>5
  <1>7. \A s \in Slots : s \notin Named(c) => d.index[s] = Free /\ c.index[s] = Free
    BY <1>1, <1>3, <1>5, TableFacts
  <1>8. d \in Tables
    <2>1. \A s \in Slots : d.index[s] \in Variable \cup {Free}
      BY <1>6, <1>7 DEF IsSoundChange
    <2>2. d.index \in [Slots -> Variable \cup {Free}]
      BY <2>1, <1>5
    <2>3. c.vars \in {0} \cup Slots /\ c.hash \in [Buckets -> {0} \cup Slots]
      BY <1>1, TableFacts
    <2>. QED  BY <2>2, <2>3, <1>1, <1>5 DEF Tables
  <1>9. \A s \in Slots : SameLinks(c.index[s], d.index[s])
    BY <1>6, <1>7 DEF IsSoundChange, SameLinks
  <1>10. \A s \in Named(c) : ValueIsSound(d.index[s]) /\ Unranged(d.index[s])
    <2>1. \A s \in Named(c) : Unranged(c.index[s])
      BY DEF Sound
    <2>. QED  BY <2>1, <1>6 DEF IsSoundChange, Unranged, SameLinks
  <1>11. Sound(d) /\ Named(d) = Named(c)
    BY <1>5, <1>8, <1>9, <1>10, RevaluedFacts
  <1>12. Keeps(c, d)
    BY <1>6, <1>11 DEF Keeps, IsSoundChange, IsEngines, SameLinks
  <1>. QED  BY <1>11, <1>12 DEF d

\* What a restart has to take away and has not yet looked at.
Behind(c, s, unsetVM) ==
    \A t \in Named(c) : Outgoing(c.index[t], unsetVM) => t \in Chain(s, Nexts(c))

\* Cvar_Restart, one turn of its loop.
LEMMA TurnFacts ==
    ASSUME NEW c, Sound(c), NEW s \in Named(c), NEW unsetVM \in BOOLEAN,
           Behind(c, s, unsetVM),
           NEW d, d = Cvar_RestartTurn(c, s, unsetVM)
    PROVE  /\ Sound(d) /\ Keeps(c, d)
           /\ c.index[s].next \in Named(d) \cup {0}
           /\ Behind(d, c.index[s].next, unsetVM)
  <1>. DEFINE v == c.index[s]  u == v.next
  <1>1. /\ c \in Tables /\ WellThreaded(c) /\ s \in Slots /\ v \in Variable
        /\ v.name \in Names /\ v.resetString \in Values
    BY TableFacts, RecordFacts DEF Sound
  <1>2. Nexts(c) \in Links /\ Nexts(c)[s] = u
    BY <1>1, TableFacts DEF Nexts
  <1>. HIDE DEF v
  <1>3. CASE Outgoing(v, unsetVM)
    <2>1. d = Unset(c, s)
      BY <1>3 DEF Cvar_RestartTurn, v
    <2>2. /\ Sound(d) /\ Named(d) = Named(c) \ {s}
          /\ \A t \in Named(d) :
                 /\ d.index[t].name = c.index[t].name
                 /\ d.index[t].flags = c.index[t].flags
                 /\ IsMarked(c.index[t], d.index[t])
          /\ Nexts(c)[s] \in Named(d) \cup {0}
          /\ \A t \in Slots \ {s} : \/ Nexts(d)[t] = Nexts(c)[t]
                                    \/ Nexts(c)[t] = s
      BY <2>1, UnsetFacts
    <2>3. ~IsEngines(v)
      BY <1>3 DEF Outgoing, IsEngines
    <2>4. Keeps(c, d)
      BY <2>2, <2>3 DEF Keeps, IsEngines, v
    <2>5. Nexts(d) \in Links
      BY <2>2, TableFacts DEF Sound
    <2>6. Chain(s, Nexts(c)) \subseteq {s} \cup Chain(u, Nexts(d))
      BY <1>1, <1>2, <2>2, <2>5, ChainBehindRemoved
    <2>7. Behind(d, u, unsetVM)
      BY <2>2, <2>6 DEF Behind, Outgoing
    <2>. QED  BY <1>2, <2>2, <2>4, <2>7 DEF v
  <1>4. CASE ~Outgoing(v, unsetVM)
    <2>1. /\ Sound(d) /\ Keeps(c, d) /\ Named(d) = Named(c) /\ Nexts(d) = Nexts(c)
          /\ \A t \in Named(c) : d.index[t].flags = c.index[t].flags
      <3>1. CASE d = c
        <4>1. Keeps(c, c)
          BY KeepsItself DEF Sound
        <4>. QED  BY <3>1, <4>1
      <3>2. CASE d = Cvar_Set2(c, v.name, v.resetString, {}, FALSE)
        <4>1. Cvar_FindVar(c, v.name) = s
          BY <1>1, FindFacts DEF v
        <4>2. s # 0
          BY <1>1, SlotFacts
        <4>. DEFINE n == v.name  value == v.resetString
        <4>3. n \in Names /\ value \in Values /\ Cvar_FindVar(c, n) # 0
              /\ {} \in SUBSET Flags
          BY <1>1, <4>1, <4>2
        <4>. HIDE DEF n, value
        <4>4. d = Cvar_Set2(c, n, value, {}, FALSE)
          BY <3>2 DEF n, value
        <4>. DEFINE none == {}  force == FALSE
        <4>5. d = Cvar_Set2(c, n, value, none, force)
              /\ none \in SUBSET Flags /\ force \in BOOLEAN
          BY <4>4
        <4>. HIDE DEF none, force
        <4>6. Sound(d) /\ Keeps(c, d)
          BY <4>3, <4>5, Set2Facts
        <4>7. Named(d) = Named(c) /\ Nexts(d) = Nexts(c)
          BY <4>3, <4>5, Set2Facts
        <4>8. SameFlags(c, d)
          BY <4>3, <4>5, Set2Facts
        <4>. QED  BY <4>6, <4>7, <4>8 DEF SameFlags
      <3>. QED  BY <3>1, <3>2, <1>4 DEF Cvar_RestartTurn, v
    <2>2. u \in Named(c) \cup {0}
      <3>1. \A t \in Named(c) : Nexts(c)[t] \in Named(c) \cup {0}
        BY <1>1, TableLists, ThreadedFacts
      <3>. QED  BY <3>1, <1>2
    <2>3. Chain(s, Nexts(c)) \subseteq {s} \cup Chain(u, Nexts(c))
      BY <1>1, <1>2, ChainBehind
    <2>4. Behind(d, u, unsetVM)
      <3>1. ASSUME NEW t \in Named(d), Outgoing(d.index[t], unsetVM)
            PROVE  t \in Chain(u, Nexts(d))
        <4>1. t \in Named(c) /\ Outgoing(c.index[t], unsetVM) /\ t # s
          BY <2>1, <3>1, <1>4 DEF Outgoing, v
        <4>2. t \in Chain(s, Nexts(c))
          BY <4>1 DEF Behind
        <4>. QED  BY <4>1, <4>2, <2>1, <2>3
      <3>. QED  BY <3>1 DEF Behind
    <2>. QED  BY <2>1, <2>2, <2>4 DEF v
  <1>. QED  BY <1>3, <1>4

(***************************************************************************)
(* The inductive invariant.                                                *)
(***************************************************************************)
IsHeld(c, n, s) ==
    /\ s \in Named(c)
    /\ c.index[s].name = n
    /\ IsEngines(c.index[s])

\* The engine made, or made its own, each variable it holds a pointer to.
PointersAreEngines ==
    \A n \in Names : pointer[n] # 0 => IsHeld(cvars, n, pointer[n])

LoopIsSound ==
    /\ restarting = "no" => curvar = 0
    /\ curvar # 0 => curvar \in Named(cvars)
    /\ restarting # "no" => Behind(cvars, curvar, restarting = "vm")

\* Before NET_Init net_port is there, with room for the others.
NetVariablesAreThere ==
    /\ pointer[Port] = 0 <=> pointer[Enabled] = 0
    /\ pointer[Port] = 0 =>
           /\ networkingEnabled = FALSE
           /\ restarting = "no"
           /\ IsHeld(cvars, Port, Cvar_FindVar(cvars, Port))
           /\ FreeSlots(cvars) # {}

AsAsked(c, s, t, socket) ==
    \/ c.index[s].modified = TRUE
    \/ c.index[t].modified = TRUE
    \/ /\ c.index[s].string # 0
       /\ socket \in {Invalid, c.index[t].string}

SocketFollows ==
    /\ networkingEnabled = TRUE =>
           AsAsked(cvars, pointer[Enabled], pointer[Port], ip_socket)
    /\ networkingEnabled = FALSE => ip_socket = Invalid

IInv ==
    /\ TypeOK
    /\ Sound(cvars)
    /\ PointersAreEngines
    /\ LoopIsSound
    /\ NetVariablesAreThere
    /\ SocketFollows

LEMMA NetNamesFacts ==
    /\ Enabled \in Names /\ Port \in Names /\ Enabled # Port
    /\ Enabled \in NetNames /\ Port \in NetNames /\ NetNames \subseteq Names
    /\ EngineNames \subseteq Names \ NetNames
    /\ ConsoleNames \subseteq Names /\ ModuleNames \subseteq Names
    /\ SystemNames \subseteq Names
    /\ {"LATCH"} \in SUBSET (Flags \ {"USER_CREATED"})
    /\ "VM_CREATED" \notin {"LATCH"}
  BY NetNamesAssumption DEF NetNames, Flags

LEMMA ValuesOfFacts == \A n : ValuesOf(n) \subseteq Values
  BY SlotFacts DEF ValuesOf

LEMMA HeldFacts ==
    ASSUME NEW c, NEW d, Keeps(c, d), NEW n, NEW s, IsHeld(c, n, s)
    PROVE  IsHeld(d, n, s)
  BY DEF IsHeld, Keeps

LEMMA HeldIsFound ==
    ASSUME NEW c, Sound(c), NEW n \in Names, NEW s, IsHeld(c, n, s)
    PROVE  Cvar_FindVar(c, n) = s /\ s # 0 /\ s \in Slots
  BY FindFacts, SlotFacts DEF IsHeld, Sound, Named

LEMMA AskedFacts ==
    ASSUME NEW c, Sound(c), NEW d, Sound(d), Keeps(c, d),
           NEW s, IsHeld(c, Enabled, s), NEW t, IsHeld(c, Port, t),
           NEW socket, AsAsked(c, s, t, socket)
    PROVE  AsAsked(d, s, t, socket)
  <1>1. IsMarked(c.index[s], d.index[s]) /\ IsMarked(c.index[t], d.index[t])
    BY DEF IsHeld, Keeps
  <1>2. CASE c.index[s].modified = TRUE
    BY <1>1, <1>2 DEF IsMarked, AsAsked
  <1>3. CASE c.index[t].modified = TRUE
    BY <1>1, <1>3 DEF IsMarked, AsAsked
  <1>4. CASE /\ c.index[s].string # 0
             /\ socket \in {Invalid, c.index[t].string}
    <2>1. d.index[s].modified = TRUE \/ d.index[s].string # 0
      BY <1>1, <1>4 DEF IsMarked
    <2>2. d.index[t].modified = TRUE \/ d.index[t].string = c.index[t].string
      BY <1>1 DEF IsMarked
    <2>3. CASE d.index[t].string = c.index[t].string
      BY <1>4, <2>1, <2>3 DEF AsAsked
    <2>. QED  BY <2>2, <2>3 DEF AsAsked
  <1>. QED  BY <1>2, <1>3, <1>4 DEF AsAsked

\* NET_GetCvars.
LEMMA GotFacts ==
    ASSUME IInv
    PROVE  /\ Sound(Got) /\ Keeps(cvars, Got)
           /\ \A n \in NetNames :
                  /\ IsHeld(Got, n, Cvar_FindVar(Got, n))
                  /\ pointer[n] # 0 => pointer[n] = Cvar_FindVar(Got, n)
           /\ Got.index[Cvar_FindVar(Got, Port)].latchedString = Null
  <1>. DEFINE c == Cvar_Get(cvars, Enabled, 1, {"LATCH"})
              flags == {"LATCH"}
  <1>0. flags \in SUBSET (Flags \ {"USER_CREATED"}) /\ "VM_CREATED" \notin flags
    BY NetNamesFacts
  <1>1. c = Cvar_Get(cvars, Enabled, 1, flags) /\ Got = Cvar_Get(c, Port, 1, flags)
    BY DEF Got
  <1>. HIDE DEF c, flags
  <1>2. Sound(cvars) /\ 1 \in Values /\ Enabled \in Names /\ Port \in Names
    BY SlotFacts, NetNamesFacts DEF IInv
  <1>3. Sound(c) /\ Keeps(cvars, c) /\ IsGot(cvars, c, Enabled, flags)
    BY <1>0, <1>1, <1>2, GetFacts
  <1>4. Sound(Got) /\ Keeps(c, Got) /\ IsGot(c, Got, Port, flags)
    BY <1>0, <1>1, <1>2, <1>3, GetFacts
  <1>5. Keeps(cvars, Got)
    BY <1>3, <1>4, KeepsTransitive
  <1>6. \A n \in NetNames : pointer[n] # 0 =>
            IsHeld(cvars, n, pointer[n]) /\ Cvar_FindVar(cvars, n) # 0
    BY <1>2, NetNamesFacts, HeldIsFound DEF IInv, PointersAreEngines
  <1>7. Cvar_FindVar(c, Enabled) # 0
    BY <1>3, <1>6, NetNamesFacts DEF IInv, NetVariablesAreThere, IsGot
  <1>8. IsHeld(c, Enabled, Cvar_FindVar(c, Enabled))
    <2>1. c.index[Cvar_FindVar(c, Enabled)].name = Enabled
      BY <1>2, <1>3, <1>7, FindFacts DEF Sound
    <2>. QED  BY <1>0, <1>3, <1>7, <2>1 DEF IsGot, IsHeld
  <1>9. \E s : IsHeld(cvars, Port, s)
    BY <1>6, NetNamesFacts DEF IInv, NetVariablesAreThere
  <1>10. Cvar_FindVar(c, Port) # 0
    BY <1>2, <1>3, <1>9, HeldFacts, HeldIsFound
  <1>11. Cvar_FindVar(Got, Port) # 0
    BY <1>4, <1>10 DEF IsGot
  <1>12. IsHeld(Got, Port, Cvar_FindVar(Got, Port))
    <2>1. Got.index[Cvar_FindVar(Got, Port)].name = Port
      BY <1>2, <1>4, <1>11, FindFacts DEF Sound
    <2>. QED  BY <1>0, <1>4, <1>11, <2>1 DEF IsGot, IsHeld
  <1>13. IsHeld(Got, Enabled, Cvar_FindVar(Got, Enabled))
    <2>1. IsHeld(Got, Enabled, Cvar_FindVar(c, Enabled))
      BY <1>4, <1>8, HeldFacts
    <2>. QED  BY <1>2, <1>4, <2>1, HeldIsFound
  <1>14. Got.index[Cvar_FindVar(Got, Port)].latchedString = Null
    BY <1>4, <1>11 DEF IsGot
  <1>15. ASSUME NEW n \in NetNames, pointer[n] # 0
         PROVE  pointer[n] = Cvar_FindVar(Got, n)
    <2>1. IsHeld(Got, n, pointer[n])
      BY <1>5, <1>6, <1>15, HeldFacts
    <2>. QED  BY <1>4, <2>1, NetNamesFacts, HeldIsFound
  <1>. QED  BY <1>4, <1>5, <1>12, <1>13, <1>14, <1>15 DEF NetNames

\* The end of NET_GetCvars.
LEMMA UnmodifiedFacts ==
    ASSUME NEW c, Sound(c), NEW d, d = Unmodified(c)
    PROVE  /\ Sound(d) /\ Named(d) = Named(c)
           /\ \A s \in Named(c) :
                  /\ d.index[s].name = c.index[s].name
                  /\ d.index[s].flags = c.index[s].flags
                  /\ d.index[s].string = c.index[s].string
                  /\ d.index[s].latchedString = c.index[s].latchedString
  <1>. DEFINE Turned(u) == IF u.name \in NetNames
                           THEN [u EXCEPT !.modified = FALSE] ELSE u
  <1>1. c \in Tables /\ c = [index |-> c.index, vars |-> c.vars, hash |-> c.hash,
                             error |-> c.error]
        /\ c.error \in BOOLEAN
    BY TableFacts DEF Sound, Tables
  <1>2. ASSUME NEW v \in Variable
        PROVE  /\ Turned(v) \in Variable /\ SameLinks(v, Turned(v))
               /\ Turned(v).flags = v.flags /\ Turned(v).string = v.string
               /\ Turned(v).latchedString = v.latchedString
               /\ Turned(v).validate = v.validate
    BY DEF Variable, SameLinks
  <1>3. Turned(Free) = Free
    BY NamesAssumption, NetNamesFacts DEF Free
  <1>4. d = [c EXCEPT !.index = [s \in Slots |-> Turned(c.index[s])]]
    BY DEF Unmodified
  <1>. HIDE DEF Turned
  <1>5. /\ d.index = [s \in Slots |-> Turned(c.index[s])]
        /\ d.vars = c.vars /\ d.hash = c.hash /\ d.error = c.error
        /\ d = [index |-> d.index, vars |-> d.vars, hash |-> d.hash,
                error |-> d.error]
    BY <1>1, <1>4
  <1>6. ASSUME NEW s \in Named(c)
        PROVE  LET v == c.index[s]  w == d.index[s]
               IN  /\ w \in Variable /\ SameLinks(v, w) /\ w.flags = v.flags
                   /\ w.string = v.string /\ w.latchedString = v.latchedString
                   /\ w.validate = v.validate
    <2>1. s \in Slots /\ c.index[s] \in Variable
      BY <1>1, TableFacts
    <2>. QED  BY <2>1, <1>2, <1>5
  <1>7. \A s \in Slots : s \notin Named(c) => d.index[s] = Free /\ c.index[s] = Free
    BY <1>1, <1>3, <1>5, TableFacts
  <1>8. d \in Tables
    <2>1. \A s \in Slots : d.index[s] \in Variable \cup {Free}
      BY <1>6, <1>7
    <2>2. d.index \in [Slots -> Variable \cup {Free}]
      BY <2>1, <1>5
    <2>3. c.vars \in {0} \cup Slots /\ c.hash \in [Buckets -> {0} \cup Slots]
      BY <1>1, TableFacts
    <2>. QED  BY <2>2, <2>3, <1>1, <1>5 DEF Tables
  <1>9. \A s \in Slots : SameLinks(c.index[s], d.index[s])
    BY <1>6, <1>7 DEF SameLinks
  <1>10. \A s \in Named(c) : ValueIsSound(d.index[s]) /\ Unranged(d.index[s])
    <2>1. \A s \in Named(c) : Unranged(c.index[s]) /\ ValueIsSound(c.index[s])
      BY DEF Sound, WellValued
    <2>2. \A s \in Named(c) : ValueIsSound(d.index[s])
      BY <2>1, <1>6 DEF ValueIsSound
    <2>3. \A s \in Named(c) : Unranged(d.index[s])
      BY <2>1, <1>6 DEF Unranged, SameLinks
    <2>. QED  BY <2>2, <2>3
  <1>11. Sound(d) /\ Named(d) = Named(c)
    BY <1>5, <1>8, <1>9, <1>10, RevaluedFacts
  <1>. QED  BY <1>6, <1>11 DEF SameLinks

\* What NET_Config leaves to be shown of the table: nothing of the engine's is
\* lost, and the socket is what the variables ask for.
IsConfigured(c, d, socket) ==
    /\ Sound(d)
    /\ \A n \in Names, s \in Slots : IsHeld(c, n, s) => IsHeld(d, n, s)
    /\ \A n \in NetNames : Cvar_FindVar(d, n) = Cvar_FindVar(c, n)
    /\ socket \in Values \cup {Invalid}
    /\ d.index[Cvar_FindVar(c, Enabled)].string
           = c.index[Cvar_FindVar(c, Enabled)].string
    /\ socket \in {Invalid, d.index[Cvar_FindVar(c, Port)].string}

\* NET_OpenIP.
LEMMA OpenFacts ==
    ASSUME IInv, OpenIP(Unmodified(Got))
    PROVE  IsConfigured(Got, cvars', ip_socket')
  <1>. DEFINE c == Unmodified(Got)  s == Cvar_FindVar(Got, Enabled)
              t == Cvar_FindVar(Got, Port)
  <1>1. Sound(Got) /\ IsHeld(Got, Enabled, s) /\ IsHeld(Got, Port, t)
        /\ Got.index[t].latchedString = Null
    BY GotFacts, NetNamesFacts
  <1>2. /\ Sound(c) /\ Named(c) = Named(Got)
        /\ \A u \in Named(Got) :
               /\ c.index[u].name = Got.index[u].name
               /\ c.index[u].flags = Got.index[u].flags
               /\ c.index[u].string = Got.index[u].string
               /\ c.index[u].latchedString = Got.index[u].latchedString
    BY <1>1, UnmodifiedFacts
  <1>3. \A n \in Names, u \in Slots : IsHeld(Got, n, u) => IsHeld(c, n, u)
    BY <1>2 DEF IsHeld, IsEngines
  <1>. HIDE DEF c, s, t
  <1>4. s \in Slots /\ t \in Slots /\ s # t
    BY <1>1, NetNamesFacts, HeldIsFound DEF IsHeld
  <1>5. IsHeld(c, Enabled, s) /\ IsHeld(c, Port, t)
    BY <1>1, <1>3, <1>4, NetNamesFacts
  <1>6. Cvar_FindVar(c, Enabled) = s /\ Cvar_FindVar(c, Port) = t /\ t # 0
    BY <1>2, <1>5, NetNamesFacts, HeldIsFound
  <1>7. CASE cvars' = c /\ ip_socket' = Invalid
    BY <1>1, <1>2, <1>3, <1>6, <1>7 DEF IsConfigured, IsHeld, NetNames, s, t
  <1>8. ASSUME NEW i \in 0 .. Tries - 1,
               LET port == Var(c, Port).string + i
               IN  /\ port <= MaxValue
                   /\ cvars' = Cvar_Set(c, Port, port)
                   /\ ip_socket' = port
        PROVE  IsConfigured(Got, cvars', ip_socket')
    <2>. DEFINE port == c.index[t].string + i  d == cvars'
    <2>1. d = Cvar_Set2(c, Port, port, {}, TRUE) /\ port <= MaxValue
          /\ ip_socket' = port
      BY <1>6, <1>8 DEF Var, Cvar_Set
    <2>2. /\ c \in Tables /\ c.index[t] \in Variable /\ c.index[t].string \in Values
          /\ c.index[t].latchedString = Null /\ Unranged(c.index[t])
      <3>1. c \in Tables /\ t \in Named(c) /\ Unranged(c.index[t])
        BY <1>2, <1>5 DEF IsHeld, Sound
      <3>2. c.index[t] \in Variable
        BY <3>1, TableFacts
      <3>. QED  BY <3>1, <3>2, RecordFacts, <1>1, <1>2 DEF IsHeld
    <2>3. port \in Values
      BY <2>1, <2>2, TriesAssumption, RangeAssumption DEF Values
    <2>4. c.index[t].validate = FALSE
      BY <2>2, <1>5, NetNamesFacts DEF Unranged, IsHeld
    <2>. HIDE DEF port, d
    <2>. DEFINE none == {}  force == TRUE
    <2>5. d = Cvar_Set2(c, Port, port, none, force) /\ none \in SUBSET Flags
          /\ force \in BOOLEAN /\ force = TRUE
      BY <2>1
    <2>. HIDE DEF none, force
    <2>6. /\ Sound(d) /\ Keeps(c, d) /\ SameButFor(c, d, t)
          /\ d.index[t] = Changed(c, c.index[t], port, force)
      <3>1. Port \in Names /\ Cvar_FindVar(c, Port) # 0
        BY <1>6, NetNamesFacts
      <3>2. /\ Sound(d) /\ Keeps(c, d) /\ SameButFor(c, d, Cvar_FindVar(c, Port))
            /\ d.index[Cvar_FindVar(c, Port)] =
                   Changed(c, c.index[Cvar_FindVar(c, Port)], port, force)
        BY <1>2, <2>3, <2>5, <3>1, Set2Facts
      <3>. QED  BY <3>2, <1>6
    <2>7. d.index[t].string = port
      <3>1. Changed(c, c.index[t], port, TRUE).string = port
        BY <2>2, <2>3, <2>4, SetFacts
      <3>. QED  BY <3>1, <2>5, <2>6
    <2>8. d.index[s].string = Got.index[s].string
      BY <2>6, <1>1, <1>2, <1>4 DEF IsHeld, SameButFor
    <2>9. \A n \in Names, u \in Slots : IsHeld(Got, n, u) => IsHeld(d, n, u)
      BY <1>3, <2>6, HeldFacts
    <2>10. Cvar_FindVar(d, Enabled) = s /\ Cvar_FindVar(d, Port) = t
      BY <1>1, <1>4, <2>6, <2>9, NetNamesFacts, HeldIsFound
    <2>. QED  BY <2>1, <2>3, <2>6, <2>7, <2>8, <2>9, <2>10
              DEF IsConfigured, NetNames, s, t, d
  <1>. QED  BY <1>7, <1>8 DEF OpenIP, c

(***************************************************************************)
(* The initial states.                                                     *)
(***************************************************************************)
LEMMA EmptyFacts == Sound(Empty) /\ Named(Empty) = {}
  <1>1. /\ Empty.index = [s \in Slots |-> Free] /\ Empty.vars = 0
        /\ Empty.hash = [b \in Buckets |-> 0]
    BY DEF Empty
  <1>2. Empty \in Tables
    BY DEF Empty, Tables
  <1>3. Named(Empty) = {}
    BY <1>1, RecordFacts DEF Named
  <1>4. \A next, prev : Threads({}, 0, next, prev)
    BY DEF Threads, Chain, OnChain
  <1>5. \A b \in Buckets : Hashed(Empty, b) = {} /\ Empty.hash[b] = 0
    BY <1>1, <1>3 DEF Hashed
  <1>6. WellThreaded(Empty)
    BY <1>1, <1>3, <1>4, <1>5 DEF WellThreaded
  <1>. QED  BY <1>2, <1>3, <1>6 DEF Sound, WellValued

LEMMA FirstFacts ==
    ASSUME NEW c, c \in {Empty, Cvar_Init}
    PROVE  /\ Sound(c) /\ Cvar_FindVar(c, Port) = 0
           /\ \E s \in Slots : Named(c) \subseteq {s}
           /\ \/ Named(c) = {}
              \/ \E s \in Slots : IsHeld(c, Cheats, s)
  <1>1. /\ Cheats \in Names /\ Port \in Names /\ Port # Cheats
        /\ {"ROM", "SYSTEMINFO"} \in SUBSET Flags
        /\ {"ROM", "SYSTEMINFO"} \cap {"USER_CREATED", "VM_CREATED"} = {}
    BY NamesAssumption, NetNamesAssumption DEF Flags, NetNames
  <1>2. \A n \in Names : Cvar_FindVar(Empty, n) = 0
    BY EmptyFacts, FindFacts DEF Sound
  <1>3. CASE c = Empty
    BY <1>1, <1>2, <1>3, EmptyFacts, SlotFacts
  <1>4. CASE c = Cvar_Init
    <2>. DEFINE flags == {"ROM", "SYSTEMINFO"}  s == Cvar_FindVar(c, Cheats)
    <2>1. c = Created(Empty, Cheats, 1, flags) /\ flags \in SUBSET Flags
      BY <1>1, <1>4 DEF Cvar_Init
    <2>2. flags \cap {"USER_CREATED", "VM_CREATED"} = {}
      BY <1>1
    <2>. HIDE DEF flags
    <2>3. Sound(c) /\ IsMade(Empty, c, Cheats, flags)
      BY <1>1, <1>2, <2>1, EmptyFacts, SlotFacts, MadeFacts
    <2>4. FreeSlots(Empty) = Slots
      BY DEF Empty, Free, FreeSlots
    <2>5. s \in Slots /\ Named(c) = {s} /\ c.index[s].flags = flags /\ s # 0
      BY <2>3, <2>4, SlotFacts, EmptyFacts DEF IsMade
    <2>6. c.index[s].name = Cheats
      BY <1>1, <2>3, <2>5, FindFacts DEF Sound
    <2>7. IsHeld(c, Cheats, s)
      BY <2>2, <2>5, <2>6 DEF IsHeld, IsEngines
    <2>8. Cvar_FindVar(c, Port) = 0
      BY <1>1, <2>3, <2>5, <2>6, FindFacts DEF Sound
    <2>. QED  BY <2>3, <2>5, <2>7, <2>8
  <1>. QED  BY <1>3, <1>4

LEMMA InitFacts == Init => IInv
  <1>. SUFFICES ASSUME Init PROVE IInv
    OBVIOUS
  <1>1. PICK c \in {Empty, Cvar_Init}, port \in ValuesOf(Port) :
            cvars = Cvar_Set(c, Port, port)
    BY DEF Init
  <1>2. /\ Sound(c) /\ Cvar_FindVar(c, Port) = 0
        /\ \E s \in Slots : Named(c) \subseteq {s}
        /\ \/ Named(c) = {}
           \/ \E s \in Slots : IsHeld(c, Cheats, s)
    BY FirstFacts
  <1>3. /\ Cheats \in Names /\ Port \in Names /\ Enabled \in Names
        /\ Port # Cheats /\ Enabled # Cheats
    BY NamesAssumption, NetNamesAssumption DEF NetNames
  <1>. DEFINE none == {}  t == Cvar_FindVar(cvars, Port)
  <1>4. /\ cvars = Created(c, Port, port, none) /\ none \in SUBSET Flags
        /\ none \cap {"USER_CREATED", "VM_CREATED"} = {}
    BY <1>1, <1>2 DEF Cvar_Set, Cvar_Set2
  <1>. HIDE DEF none
  <1>5. Sound(cvars) /\ Keeps(c, cvars) /\ IsMade(c, cvars, Port, none)
    BY <1>2, <1>3, <1>4, ValuesOfFacts, MadeFacts
  <1>6. PICK s \in Slots : Named(c) \subseteq {s}
    BY <1>2
  <1>7. 1 \in Slots /\ 2 \in Slots /\ 3 \in Slots
    BY FitAssumption, SlotsAssumption DEF Slots
  <1>8. \A u \in Slots : u \in FreeSlots(c) <=> u \notin Named(c)
    BY DEF FreeSlots, Named
  <1>9. FreeSlots(c) # {}
    BY <1>6, <1>7, <1>8
  <1>10. /\ t \in Slots /\ t # 0 /\ Named(cvars) = Named(c) \cup {t}
         /\ cvars.index[t].flags = none
    BY <1>5, <1>9, SlotFacts DEF IsMade
  <1>11. cvars.index[t].name = Port
    BY <1>3, <1>5, <1>10, FindFacts DEF Sound
  <1>12. IsHeld(cvars, Port, t)
    BY <1>4, <1>10, <1>11 DEF IsHeld, IsEngines
  <1>13. FreeSlots(cvars) # {}
    <2>1. \A u \in Slots : u \in FreeSlots(cvars) <=> u \notin Named(cvars)
      BY DEF FreeSlots, Named
    <2>2. Named(cvars) \subseteq {s, t}
      BY <1>6, <1>10
    <2>. QED  BY <1>7, <2>1, <2>2
  <1>14. \/ Cvar_FindVar(cvars, Cheats) = 0
         \/ IsHeld(cvars, Cheats, Cvar_FindVar(cvars, Cheats))
    <2>1. CASE Named(c) = {}
      <3>1. \A u \in Named(cvars) : cvars.index[u].name # Cheats
        BY <1>3, <1>10, <1>11, <2>1
      <3>. QED  BY <1>3, <1>5, <3>1, FindFacts DEF Sound
    <2>2. CASE \E u \in Slots : IsHeld(c, Cheats, u)
      BY <2>2, <1>3, <1>5, HeldFacts, HeldIsFound
    <2>. QED  BY <1>2, <2>1, <2>2
  <1>15. /\ networkingEnabled = FALSE /\ ip_socket = Invalid
         /\ pointer = [n \in Names |-> IF n = Cheats
                                       THEN Cvar_FindVar(cvars, n) ELSE 0]
         /\ restarting = "no" /\ curvar = 0
    BY DEF Init
  <1>16. TypeOK
    <2>1. Cvar_FindVar(cvars, Cheats) \in {0} \cup Slots
      BY <1>14 DEF IsHeld, Named
    <2>2. pointer \in [Names -> {0} \cup Slots]
      BY <1>15, <2>1
    <2>. QED  BY <1>5, <1>15, <2>2 DEF TypeOK, Sound
  <1>17. PointersAreEngines
    BY <1>14, <1>15 DEF PointersAreEngines
  <1>18. LoopIsSound
    BY <1>15 DEF LoopIsSound
  <1>19. NetVariablesAreThere
    BY <1>3, <1>12, <1>13, <1>15 DEF NetVariablesAreThere
  <1>20. SocketFollows
    BY <1>15 DEF SocketFollows
  <1>. QED  BY <1>5, <1>16, <1>17, <1>18, <1>19, <1>20 DEF IInv

(***************************************************************************)
(* The steps.                                                              *)
(***************************************************************************)
LEMMA StepFacts ==
    ASSUME IInv, pointer[Port] # 0,
           Sound(cvars'), Keeps(cvars, cvars'),
           pointer' \in [Names -> {0} \cup Slots],
           \A n \in Names : \/ pointer'[n] = pointer[n]
                            \/ /\ n \notin NetNames
                               /\ \/ pointer'[n] = 0
                                  \/ IsHeld(cvars', n, pointer'[n]),
           restarting' \in {"no", "user", "vm"}, curvar' \in {0} \cup Slots,
           LoopIsSound', UNCHANGED <<networkingEnabled, ip_socket>>
    PROVE  IInv'
  <1>1. /\ pointer'[Port] = pointer[Port] /\ pointer'[Enabled] = pointer[Enabled]
        /\ pointer[Enabled] # 0
    BY NetNamesFacts DEF IInv, NetVariablesAreThere
  <1>2. TypeOK'
    <2>1. cvars' \in Tables
      BY DEF Sound
    <2>2. networkingEnabled' \in BOOLEAN /\ ip_socket' \in Values \cup {Invalid}
      BY DEF IInv, TypeOK
    <2>. QED  BY <2>1, <2>2 DEF TypeOK
  <1>3. \A n \in Names : pointer[n] # 0 => IsHeld(cvars', n, pointer[n])
    BY HeldFacts DEF IInv, PointersAreEngines
  <1>4. PointersAreEngines'
    BY <1>3 DEF PointersAreEngines
  <1>5. NetVariablesAreThere'
    BY <1>1 DEF NetVariablesAreThere
  <1>6. SocketFollows'
    <2>1. /\ IsHeld(cvars, Enabled, pointer[Enabled])
          /\ IsHeld(cvars, Port, pointer[Port])
      BY <1>1, NetNamesFacts DEF IInv, PointersAreEngines
    <2>2. ASSUME networkingEnabled = TRUE
          PROVE  AsAsked(cvars', pointer[Enabled], pointer[Port], ip_socket)
      BY <2>1, <2>2, AskedFacts DEF IInv, SocketFollows
    <2>. QED  BY <1>1, <2>2 DEF IInv, SocketFollows
  <1>. QED  BY <1>2, <1>4, <1>5, <1>6 DEF IInv

\* Whatever sets, resets or takes away variables between restarts.
LEMMA SetsFacts ==
    ASSUME IInv, restarting = "no", UNCHANGED loop,
           NEW c, Sets(c), Sound(c), Keeps(cvars, c)
    PROVE  IInv'
  <1>1. /\ pointer[Port] # 0 /\ cvars' = c
        /\ UNCHANGED <<networkingEnabled, ip_socket, pointer>>
    BY DEF Sets
  <1>2. restarting' = "no" /\ curvar' = 0 /\ 0 \in {0} \cup Slots
    BY DEF loop, IInv, LoopIsSound
  <1>3. LoopIsSound'
    BY <1>2 DEF LoopIsSound
  <1>4. pointer' \in [Names -> {0} \cup Slots]
    BY <1>1 DEF IInv, TypeOK
  <1>. QED  BY <1>1, <1>2, <1>3, <1>4, StepFacts

LEMMA EngineFacts ==
    ASSUME IInv, restarting = "no", UNCHANGED loop, Engine
    PROVE  IInv'
  <1>1. PICK n \in EngineNames, flags \in EngineFlags, ranged \in BOOLEAN :
            \E v \in ValuesOf(n) :
                LET c == Cvar_Get(cvars, n, v, flags)
                IN  /\ pointer[Port] # 0
                    /\ cvars' = IF ranged /\ ~c.error THEN Cvar_CheckRange(c, n)
                                ELSE c
                    /\ pointer' = [pointer EXCEPT ![n] = Cvar_FindVar(c, n)]
                    /\ UNCHANGED <<networkingEnabled, ip_socket>>
    BY DEF Engine
  <1>2. PICK v \in ValuesOf(n) :
                LET c == Cvar_Get(cvars, n, v, flags)
                IN  /\ pointer[Port] # 0
                    /\ cvars' = IF ranged /\ ~c.error THEN Cvar_CheckRange(c, n)
                                ELSE c
                    /\ pointer' = [pointer EXCEPT ![n] = Cvar_FindVar(c, n)]
                    /\ UNCHANGED <<networkingEnabled, ip_socket>>
    BY <1>1
  <1>. DEFINE c == Cvar_Get(cvars, n, v, flags)
              s == Cvar_FindVar(c, n)
              d == cvars'
  <1>3. /\ n \in Names \ NetNames /\ v \in Values /\ Sound(cvars)
        /\ flags \in SUBSET (Flags \ {"USER_CREATED"}) /\ "VM_CREATED" \notin flags
    BY NetNamesFacts, ValuesOfFacts, FlagsAssumption DEF IInv
  <1>4. c = Cvar_Get(cvars, n, v, flags) /\ s = Cvar_FindVar(c, n)
    OBVIOUS
  <1>5. /\ pointer[Port] # 0
        /\ (d = Cvar_CheckRange(c, n) /\ c.error # TRUE) \/ d = c
        /\ pointer' = [pointer EXCEPT ![n] = s]
        /\ UNCHANGED <<networkingEnabled, ip_socket>>
    <2>1. ~c.error => c.error # TRUE
      OBVIOUS
    <2>. HIDE DEF c, s
    <2>. QED  BY <1>2, <2>1 DEF c, s
  <1>. HIDE DEF c, s, d
  <1>6. Sound(c) /\ Keeps(cvars, c) /\ IsGot(cvars, c, n, flags)
    BY <1>3, <1>4, GetFacts
  <1>7. /\ s = 0 => c.error = TRUE
        /\ s # 0 => IsHeld(c, n, s) /\ c.index[s].latchedString = Null
    <2>1. s # 0 => c.index[s].name = n
      BY <1>3, <1>4, <1>6, FindFacts DEF Sound
    <2>. QED  BY <1>3, <1>4, <1>6, <2>1 DEF IsGot, IsHeld
  <1>8. /\ Sound(d) /\ Keeps(cvars, d)
        /\ s # 0 => IsHeld(d, n, s)
    <2>1. CASE d = c
      BY <2>1, <1>6, <1>7
    <2>2. CASE d = Cvar_CheckRange(c, n) /\ c.error # TRUE
      <3>1. s # 0 /\ c.index[s].latchedString = Null
        BY <1>7, <2>2
      <3>2. Sound(d) /\ Keeps(c, d)
        BY <1>3, <1>4, <1>6, <2>2, <3>1, RangeFacts
      <3>3. Keeps(cvars, d)
        BY <1>6, <3>2, KeepsTransitive
      <3>. QED  BY <1>7, <3>2, <3>3, HeldFacts
    <2>. QED  BY <1>5, <2>1, <2>2
  <1>9. restarting' = "no" /\ curvar' = 0 /\ LoopIsSound'
    BY DEF loop, IInv, LoopIsSound
  <1>10. s \in {0} \cup Slots
    BY <1>7 DEF IsHeld, Named
  <1>11. pointer \in [Names -> {0} \cup Slots]
    BY DEF IInv, TypeOK
  <1>12. pointer' \in [Names -> {0} \cup Slots]
    BY <1>3, <1>5, <1>10, <1>11
  <1>13. \A m \in Names : \/ pointer'[m] = pointer[m]
                          \/ /\ m \notin NetNames
                             /\ \/ pointer'[m] = 0
                                \/ IsHeld(d, m, pointer'[m])
    BY <1>3, <1>5, <1>8, <1>11
  <1>. QED  BY <1>5, <1>8, <1>9, <1>12, <1>13, StepFacts DEF d

LEMMA ConfigFacts ==
    ASSUME IInv, restarting = "no", UNCHANGED loop,
           NEW enableNetworking \in BOOLEAN, NET_Config(enableNetworking)
    PROVE  IInv'
  <1>. DEFINE s == Cvar_FindVar(Got, Enabled)  t == Cvar_FindVar(Got, Port)
  <1>1. /\ Sound(Got) /\ Keeps(cvars, Got)
        /\ IsHeld(Got, Enabled, s) /\ IsHeld(Got, Port, t)
        /\ pointer[Enabled] # 0 => pointer[Enabled] = s
        /\ pointer[Port] # 0 => pointer[Port] = t
    BY GotFacts, NetNamesFacts
  <1>2. s \in Slots /\ t \in Slots /\ s # 0 /\ t # 0
    BY <1>1, NetNamesFacts, HeldIsFound
  <1>3. /\ pointer' = [n \in Names |-> IF n \in NetNames
                                       THEN Cvar_FindVar(Got, n) ELSE pointer[n]]
        /\ networkingEnabled' =
               (enableNetworking /\ Var(Got, Enabled).string # 0)
        /\ IF /\ (enableNetworking /\ Var(Got, Enabled).string # 0)
              /\ (Modified(Got) \/ ~networkingEnabled)
           THEN OpenIP(Unmodified(Got))
           ELSE /\ cvars' = Unmodified(Got)
                /\ ip_socket' = IF enableNetworking /\ Var(Got, Enabled).string # 0
                                THEN ip_socket ELSE Invalid
    BY DEF NET_Config
  <1>. DEFINE enable == enableNetworking /\ Got.index[s].string # 0
  <1>4. /\ networkingEnabled' \in BOOLEAN
        /\ networkingEnabled' = TRUE => Got.index[s].string # 0
        /\ networkingEnabled' = FALSE => ~enable
    BY <1>3 DEF Var
  <1>5. /\ IsConfigured(Got, cvars', ip_socket')
        /\ ~enable => ip_socket' = Invalid
    <2>1. CASE OpenIP(Unmodified(Got)) /\ enable
      BY <2>1, OpenFacts
    <2>2. CASE /\ cvars' = Unmodified(Got)
               /\ IF enable THEN ip_socket' = ip_socket
                                 /\ ~Modified(Got) /\ networkingEnabled
                  ELSE ip_socket' = Invalid
      <3>. DEFINE d == cvars'
      <3>1. /\ Sound(d) /\ Named(d) = Named(Got)
            /\ \A u \in Named(Got) :
                   /\ d.index[u].name = Got.index[u].name
                   /\ d.index[u].flags = Got.index[u].flags
                   /\ d.index[u].string = Got.index[u].string
                   /\ d.index[u].latchedString = Got.index[u].latchedString
        BY <1>1, <2>2, UnmodifiedFacts
      <3>. HIDE DEF d, s, t
      <3>2. \A n \in Names, u \in Slots : IsHeld(Got, n, u) => IsHeld(d, n, u)
        BY <3>1 DEF IsHeld, IsEngines
      <3>3. Cvar_FindVar(d, Enabled) = s /\ Cvar_FindVar(d, Port) = t
        BY <1>1, <1>2, <3>1, <3>2, NetNamesFacts, HeldIsFound
      <3>4. d.index[s].string = Got.index[s].string
            /\ d.index[t].string = Got.index[t].string
        BY <1>1, <3>1 DEF IsHeld
      <3>5. ip_socket' \in {Invalid, Got.index[t].string}
        <4>1. CASE enable
          <5>1. networkingEnabled = TRUE /\ pointer[Enabled] = s /\ pointer[Port] = t
            <6>1. networkingEnabled = TRUE
              BY <2>2, <4>1 DEF IInv, TypeOK
            <6>. QED  BY <6>1, <1>1 DEF IInv, NetVariablesAreThere
          <5>2. AsAsked(cvars, s, t, ip_socket)
            BY <5>1 DEF IInv, SocketFollows
          <5>3. IsHeld(cvars, Enabled, s) /\ IsHeld(cvars, Port, t)
            BY <5>1, <1>2, NetNamesFacts DEF IInv, PointersAreEngines
          <5>4. AsAsked(Got, s, t, ip_socket)
            BY <1>1, <5>2, <5>3, AskedFacts DEF IInv
          <5>5. Got.index[s].modified # TRUE /\ Got.index[t].modified # TRUE
            <6>1. ~Modified(Got)
              BY <2>2, <4>1
            <6>2. ~Var(Got, Enabled).modified /\ ~Var(Got, Port).modified
              BY <6>1, NetNamesFacts DEF Modified
            <6>. QED  BY <6>2 DEF Var, s, t
          <5>. QED  BY <2>2, <4>1, <5>4, <5>5 DEF AsAsked
        <4>2. CASE ~enable
          BY <2>2, <4>2
        <4>. QED  BY <4>1, <4>2
      <3>6. ip_socket' \in Values \cup {Invalid}
        BY <2>2 DEF IInv, TypeOK
      <3>7. IsConfigured(Got, d, ip_socket')
        BY <3>1, <3>2, <3>3, <3>4, <3>5, <3>6 DEF IsConfigured, NetNames, s, t
      <3>. QED  BY <2>2, <3>7 DEF d
    <2>. QED  BY <2>1, <2>2, <1>3 DEF Var
  <1>. HIDE DEF s, t, enable
  <1>6. pointer'[Enabled] = s /\ pointer'[Port] = t
    BY <1>3, NetNamesFacts DEF s, t
  <1>7. IsHeld(cvars', Enabled, s) /\ IsHeld(cvars', Port, t)
    BY <1>1, <1>2, <1>5, NetNamesFacts DEF IsConfigured
  <1>8. pointer \in [Names -> {0} \cup Slots]
    BY DEF IInv, TypeOK
  <1>9. restarting' = "no" /\ curvar' = 0 /\ LoopIsSound'
    BY DEF loop, IInv, LoopIsSound
  <1>10. \A n \in Names : n \notin NetNames => pointer'[n] = pointer[n]
    BY <1>3
  <1>11. TypeOK'
    <2>1. pointer' \in [Names -> {0} \cup Slots]
      BY <1>2, <1>3, <1>8 DEF NetNames, s, t
    <2>2. cvars' \in Tables /\ ip_socket' \in Values \cup {Invalid}
      BY <1>5 DEF IsConfigured, Sound
    <2>. QED  BY <1>4, <1>9, <2>1, <2>2 DEF TypeOK
  <1>12. PointersAreEngines'
    <2>1. ASSUME NEW n \in Names, pointer'[n] # 0
          PROVE  IsHeld(cvars', n, pointer'[n])
      <3>1. CASE n \in NetNames
        BY <1>6, <1>7, <3>1 DEF NetNames
      <3>2. CASE n \notin NetNames
        <4>1. pointer'[n] = pointer[n] /\ pointer[n] \in Slots
          BY <1>8, <1>10, <2>1, <3>2
        <4>2. IsHeld(Got, n, pointer[n])
          BY <1>1, <2>1, <4>1, HeldFacts DEF IInv, PointersAreEngines
        <4>. QED  BY <1>5, <4>1, <4>2 DEF IsConfigured
      <3>. QED  BY <3>1, <3>2
    <2>. QED  BY <2>1 DEF PointersAreEngines
  <1>13. NetVariablesAreThere'
    BY <1>2, <1>6 DEF NetVariablesAreThere
  <1>14. SocketFollows'
    <2>1. ASSUME networkingEnabled' = TRUE
          PROVE  AsAsked(cvars', s, t, ip_socket')
      BY <1>4, <1>5, <2>1 DEF AsAsked, IsConfigured, s, t
    <2>2. networkingEnabled' = FALSE => ip_socket' = Invalid
      BY <1>4, <1>5
    <2>. QED  BY <1>6, <2>1, <2>2 DEF SocketFollows
  <1>15. Sound(cvars')
    BY <1>5 DEF IsConfigured
  <1>. QED  BY <1>9, <1>11, <1>12, <1>13, <1>14, <1>15 DEF IInv

LEMMA CallFacts ==
    ASSUME IInv, restarting = "no", Call, UNCHANGED loop
    PROVE  IInv'
  <1>. DEFINE Safe(c) == Sound(c) /\ Keeps(cvars, c)
  <1>1. /\ Sound(cvars)
        /\ \A n : ValuesOf(n) \subseteq Values
        /\ ConsoleNames \subseteq Names /\ ModuleNames \subseteq Names
        /\ SystemNames \subseteq Names /\ EngineNames \subseteq Names
    BY NetNamesFacts, ValuesOfFacts DEF IInv
  <1>2. ASSUME NEW c, Sets(c), Safe(c) PROVE IInv'
    BY <1>2, SetsFacts
  <1>3. CASE NET_Init
    BY <1>3, ConfigFacts DEF NET_Init
  <1>4. CASE NET_Shutdown
    BY <1>4, ConfigFacts DEF NET_Shutdown
  <1>5. CASE SystemInfo
    <2>1. PICK n \in SystemNames :
              \E v \in ValuesOf(n) : Sets(Cvar_Set(cvars, n, v))
      BY <1>5 DEF SystemInfo
    <2>2. \A v \in ValuesOf(n) : Safe(Cvar_Set(cvars, n, v))
      BY <1>1, <2>1, SettersFacts
    <2>. HIDE DEF Safe
    <2>. QED  BY <1>2, <2>1, <2>2
  <1>6. CASE Server
    <2>1. PICK n \in ModuleNames :
              \E v \in ValuesOf(n) : Sets(Cvar_Server_Set(cvars, n, v))
      BY <1>6 DEF Server
    <2>2. \A v \in ValuesOf(n) : Safe(Cvar_Server_Set(cvars, n, v))
      BY <1>1, <2>1, SettersFacts
    <2>. HIDE DEF Safe
    <2>. QED  BY <1>2, <2>1, <2>2
  <1>7. CASE Console
    <2>1. PICK n \in ConsoleNames :
              \/ \E v \in ValuesOf(n) : Sets(Cvar_User_Set(cvars, n, v))
              \/ Sets(Cvar_Toggle(cvars, n))
              \/ Sets(Cvar_Reset(cvars, n, FALSE))
              \/ Sets(Cvar_Unset_f(cvars, n))
      BY <1>7 DEF Console
    <2>2. \A v \in ValuesOf(n) : Safe(Cvar_User_Set(cvars, n, v))
      BY <1>1, <2>1, SettersFacts
    <2>3. Safe(Cvar_Toggle(cvars, n))
      BY <1>1, <2>1, ToggleFacts
    <2>4. Safe(Cvar_Reset(cvars, n, FALSE))
      BY <1>1, <2>1, ResetFacts
    <2>5. Safe(Cvar_Unset_f(cvars, n))
      BY <1>1, <2>1, UnsetsFacts
    <2>. HIDE DEF Safe
    <2>. QED  BY <1>2, <2>1, <2>2, <2>3, <2>4, <2>5
  <1>8. CASE Module
    <2>1. PICK n \in ModuleNames, flags \in VMFlags :
              \E v \in ValuesOf(n) : Sets(Cvar_Register(cvars, n, v, flags))
      BY <1>8 DEF Module
    <2>2. \A v \in ValuesOf(n) : Safe(Cvar_Register(cvars, n, v, flags))
      BY <1>1, <2>1, RegisterFacts
    <2>. HIDE DEF Safe
    <2>. QED  BY <1>2, <2>1, <2>2
  <1>9. CASE Engine
    BY <1>9, EngineFacts
  <1>10. CASE EngineResets
    <2>1. PICK n \in EngineNames : Sets(Cvar_Reset(cvars, n, TRUE))
      BY <1>10 DEF EngineResets
    <2>2. Safe(Cvar_Reset(cvars, n, TRUE))
      BY <1>1, <2>1, ResetFacts
    <2>. QED  BY <1>2, <2>1, <2>2
  <1>11. CASE Cheating
    <2>1. Sets(Cvar_SetCheatState(cvars))
      BY <1>11 DEF Cheating
    <2>2. Safe(Cvar_SetCheatState(cvars))
      BY <1>1, CheatFacts
    <2>. QED  BY <1>2, <2>1, <2>2
  <1>. QED  BY <1>3, <1>4, <1>5, <1>6, <1>7, <1>8, <1>9, <1>10, <1>11 DEF Call

\* A restart begins at the first variable: all are behind it.
LEMMA RestartFacts ==
    ASSUME IInv, restarting = "no", Restart
    PROVE  IInv'
  <1>1. /\ pointer[Port] # 0 /\ cvars' = cvars /\ curvar' = cvars.vars
        /\ restarting' \in {"user", "vm"}
        /\ UNCHANGED <<networkingEnabled, ip_socket, pointer>>
    BY DEF Restart, Sets
  <1>2. Sound(cvars) /\ Keeps(cvars, cvars)
    BY KeepsItself DEF IInv, Sound
  <1>3. /\ Chain(cvars.vars, Nexts(cvars)) = Named(cvars)
        /\ cvars.vars \in Named(cvars) \cup {0}
        /\ cvars.vars \in {0} \cup Slots
    <2>1. /\ Named(cvars) \in SUBSET Slots /\ cvars.vars \in {0} \cup Slots
          /\ Nexts(cvars) \in Links /\ Prevs(cvars) \in Links
      BY <1>2, TableFacts DEF Sound
    <2>2. Threads(Named(cvars), cvars.vars, Nexts(cvars), Prevs(cvars))
      BY <1>2 DEF Sound, WellThreaded
    <2>3. Chain(cvars.vars, Nexts(cvars)) = Named(cvars)
      BY <2>2 DEF Threads
    <2>4. cvars.vars \in Chain(cvars.vars, Nexts(cvars)) \cup {0}
      BY <2>1, ChainIsClosed
    <2>. QED  BY <2>1, <2>3, <2>4
  <1>4. LoopIsSound'
    BY <1>1, <1>3 DEF LoopIsSound, Behind
  <1>5. pointer' \in [Names -> {0} \cup Slots]
    BY <1>1 DEF IInv, TypeOK
  <1>. QED  BY <1>1, <1>2, <1>3, <1>4, <1>5, StepFacts

LEMMA RestartTurnFacts ==
    ASSUME IInv, RestartTurn
    PROVE  IInv'
  <1>. DEFINE unsetVM == restarting = "vm"
  <1>1. /\ restarting # "no" /\ curvar # 0
        /\ cvars' = Cvar_RestartTurn(cvars, curvar, unsetVM)
        /\ curvar' = cvars.index[curvar].next
        /\ UNCHANGED <<networkingEnabled, ip_socket, pointer, restarting>>
    BY DEF RestartTurn
  <1>2. /\ Sound(cvars) /\ curvar \in Named(cvars)
        /\ Behind(cvars, curvar, unsetVM) /\ unsetVM \in BOOLEAN
    BY <1>1 DEF IInv, LoopIsSound
  <1>3. pointer[Port] # 0
    BY <1>1 DEF IInv, NetVariablesAreThere
  <1>. HIDE DEF unsetVM
  <1>4. /\ Sound(cvars') /\ Keeps(cvars, cvars')
        /\ curvar' \in Named(cvars') \cup {0}
        /\ Behind(cvars', curvar', unsetVM)
    BY <1>1, <1>2, TurnFacts
  <1>5. LoopIsSound'
    BY <1>1, <1>4 DEF LoopIsSound, unsetVM
  <1>6. /\ pointer' \in [Names -> {0} \cup Slots]
        /\ restarting' \in {"no", "user", "vm"}
    BY <1>1 DEF IInv, TypeOK
  <1>7. curvar' \in {0} \cup Slots
    BY <1>4 DEF Named
  <1>. QED  BY <1>1, <1>3, <1>4, <1>5, <1>6, <1>7, StepFacts

LEMMA RestartEndsFacts ==
    ASSUME IInv, RestartEnds
    PROVE  IInv'
  <1>1. /\ restarting # "no" /\ curvar = 0 /\ restarting' = "no"
        /\ UNCHANGED <<cvars, networkingEnabled, ip_socket, pointer, curvar>>
    BY DEF RestartEnds
  <1>2. Sound(cvars) /\ Keeps(cvars, cvars)
    BY KeepsItself DEF IInv, Sound
  <1>3. pointer[Port] # 0
    BY <1>1 DEF IInv, NetVariablesAreThere
  <1>4. LoopIsSound'
    BY <1>1 DEF LoopIsSound
  <1>5. pointer' \in [Names -> {0} \cup Slots] /\ curvar' \in {0} \cup Slots
    BY <1>1 DEF IInv, TypeOK
  <1>. QED  BY <1>1, <1>2, <1>3, <1>4, <1>5, StepFacts

LEMMA UnchangedFacts ==
    ASSUME IInv, UNCHANGED vars
    PROVE  IInv'
  <1>. USE DEF vars
  <1>1. TypeOK'
    BY DEF IInv, TypeOK
  <1>2. Sound(cvars')
    BY DEF IInv
  <1>3. PointersAreEngines'
    BY DEF IInv, PointersAreEngines
  <1>4. LoopIsSound'
    BY DEF IInv, LoopIsSound
  <1>5. NetVariablesAreThere'
    BY DEF IInv, NetVariablesAreThere
  <1>6. SocketFollows'
    BY DEF IInv, SocketFollows
  <1>. QED  BY <1>1, <1>2, <1>3, <1>4, <1>5, <1>6 DEF IInv

LEMMA IsInvariant == Spec => []IInv
  <1>1. IInv /\ [Next]_vars => IInv'
    <2>. SUFFICES ASSUME IInv, [Next]_vars PROVE IInv'
      OBVIOUS
    <2>1. CASE restarting = "no" /\ Call /\ UNCHANGED loop
      BY <2>1, CallFacts
    <2>2. CASE restarting = "no" /\ Restart
      BY <2>2, RestartFacts
    <2>3. CASE RestartTurn
      BY <2>3, RestartTurnFacts
    <2>4. CASE RestartEnds
      BY <2>4, RestartEndsFacts
    <2>5. CASE UNCHANGED vars
      BY <2>5, UnchangedFacts
    <2>. QED  BY <2>1, <2>2, <2>3, <2>4, <2>5 DEF Next
  <1>. QED  BY InitFacts, <1>1, PTL DEF Spec

(***************************************************************************)
(* The theorems.                                                           *)
(***************************************************************************)

\* The variables of NET_Config and Cvar_Restart, and the records of the table,
\* always have their types, the links among them.
THEOREM TypeCorrect == Spec => []TypeOK
  <1>1. IInv => TypeOK
    BY DEF IInv
  <1>. QED  BY IsInvariant, <1>1, PTL

\* Cvar_Get, Cvar_Set2, Cvar_Unset, Cvar_Restart and their callers leave the
\* list and the hash chains threading exactly the variables in use, both ways,
\* with no name twice, and no value outside its range or waiting unlatched.
THEOREM TablesAreSound == Spec => []TableIsSound
  <1>1. IInv => TableIsSound
    BY DEF IInv, Sound, TableIsSound
  <1>. QED  BY IsInvariant, <1>1, PTL

\* No operation takes away or renames a variable to which the engine holds a
\* pointer, and the loop of Cvar_Restart neither looks at a slot it has freed
\* nor passes over a variable that is to go.
THEOREM AllPointersHold == Spec => []PointersHold
  <1>1. ASSUME IInv PROVE PointersHold
    <2>1. \A n \in Names : pointer[n] # 0 => cvars.index[pointer[n]].name = n
      BY <1>1 DEF IInv, PointersAreEngines, IsHeld
    <2>2. curvar # 0 => curvar \in Named(cvars)
      BY <1>1 DEF IInv, LoopIsSound
    <2>3. restarting # "no" =>
              \A s \in Named(cvars) :
                  Outgoing(cvars.index[s], restarting = "vm")
                      => s \in Chain(curvar, Nexts(cvars))
      BY <1>1 DEF IInv, LoopIsSound, Behind
    <2>. QED  BY <2>1, <2>2, <2>3 DEF PointersHold
  <1>. QED  BY IsInvariant, <1>1, PTL

\* After NET_Config the socket is the one net_enabled and net_port ask for, or
\* one of them is marked as modified by the time NET_GetCvars looks again,
\* whoever set, latched, reset, registered or restarted it in between.
THEOREM SocketsAreCurrent == Spec => []SocketIsCurrent
  <1>1. ASSUME IInv PROVE SocketIsCurrent
    <2>1. CASE networkingEnabled = TRUE
      <3>. DEFINE s == pointer[Enabled]  t == pointer[Port]
      <3>1. s # 0 /\ t # 0 /\ AsAsked(cvars, s, t, ip_socket)
        BY <1>1, <2>1 DEF IInv, NetVariablesAreThere, SocketFollows
      <3>. HIDE DEF s, t
      <3>2. IsHeld(cvars, Enabled, s) /\ IsHeld(cvars, Port, t) /\ Sound(cvars)
        BY <1>1, <3>1, NetNamesFacts DEF IInv, PointersAreEngines, s, t
      <3>3. Cvar_FindVar(cvars, Enabled) = s /\ Cvar_FindVar(cvars, Port) = t
        BY <3>2, NetNamesFacts, HeldIsFound
      <3>4. /\ Sound(Got) /\ Keeps(cvars, Got)
            /\ Cvar_FindVar(Got, Enabled) = s /\ Cvar_FindVar(Got, Port) = t
        BY <1>1, <3>1, GotFacts, NetNamesFacts DEF s, t
      <3>5. ASSUME cvars.index[s].modified = TRUE \/ cvars.index[t].modified = TRUE
            PROVE  Modified(Got)
        <4>1. IsMarked(cvars.index[s], Got.index[s])
              /\ IsMarked(cvars.index[t], Got.index[t])
          BY <3>2, <3>4 DEF Keeps, IsHeld
        <4>2. Var(Got, Enabled).modified = TRUE \/ Var(Got, Port).modified = TRUE
          BY <3>4, <3>5, <4>1 DEF IsMarked, Var
        <4>. QED  BY <4>2, NetNamesFacts DEF Modified
      <3>6. CASE /\ cvars.index[s].string # 0
                 /\ ip_socket \in {Invalid, cvars.index[t].string}
        BY <2>1, <3>3, <3>6 DEF SocketIsCurrent, Var
      <3>. QED  BY <2>1, <3>1, <3>5, <3>6 DEF AsAsked, SocketIsCurrent
    <2>2. CASE networkingEnabled = FALSE
      BY <1>1, <2>2 DEF IInv, SocketFollows, SocketIsCurrent
    <2>. QED  BY <1>1, <2>1, <2>2 DEF IInv, TypeOK
  <1>. QED  BY IsInvariant, <1>1, PTL
=============================================================================
