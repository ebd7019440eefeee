-------------------------- MODULE DemoRecorderProofs --------------------------
(***************************************************************************)
(* The invariants of DemoRecorder hold for any number of messages, for     *)
(* uploads that break at any write and refusals of any of them.            *)
(***************************************************************************)
EXTENDS DemoRecorder, SequenceTheorems, TLAPS

(***************************************************************************)
(* The inductive invariant, of a recorder state r when n messages were     *)
(* read: the operations of the recorder are shown to keep it one by one,   *)
(* and the messages, which compose them, by that.                          *)
(***************************************************************************)
States ==
    [recording : BOOLEAN, waiting : BOOLEAN, uploads : Seq(Bodies),
     handles : {0, 1}, index : Nat \cup {NoDemo},
     stored : SUBSET Bodies, indexed : SUBSET Nat]

\* A demo that plays, of a message that was read.
Known(body, n) == DemoPlays(body) /\ (body # << >> => Demo(body) <= n)

\* No two demos are the same, on their way or stored, and what is indexed is
\* stored with its trailer.
Kept(r, n) ==
    /\ r \in States
    /\ \A i \in 1 .. Len(r.uploads) : Known(r.uploads[i], n)
    /\ \A i, j \in 1 .. Len(r.uploads) :
           /\ r.uploads[i] # << >> /\ r.uploads[j] # << >>
           /\ Demo(r.uploads[i]) = Demo(r.uploads[j])
           => i = j
    /\ \A body \in r.stored :
           /\ Known(body, n) /\ Ended(body)
           /\ \A i \in 1 .. Len(r.uploads) :
                  r.uploads[i] # << >> => Demo(body) # Demo(r.uploads[i])
    /\ \A demo \in r.indexed : \E body \in r.stored : Demo(body) = demo

\* The body of a transfer that runs: it has its gamestate, no trailer, and
\* behind the gamestate every message up to the last one.
Open(body, n) ==
    /\ Len(body) >= 1
    /\ \A i \in 1 .. Len(body) : body[i].kind # "trailer"
    /\ Len(body) >= 2 => body[Len(body)].num = n

Writing(r, n) ==
    /\ r.handles = 1 => r.recording /\ Open(Last(r.uploads), n)
    /\ r.recording => r.uploads # << >>
    /\ r.recording /\ Last(r.uploads) # << >> => ~Ended(Last(r.uploads))

Sound(r, n) == Kept(r, n) /\ Writing(r, n)

\* A demo waits for its full snapshot as long as it has its gamestate only.
Waits(r) == r.handles = 1 => (r.waiting <=> Len(Last(r.uploads)) = 1)

IInv ==
    /\ gone \in BOOLEAN
    /\ timeBelieved \in BOOLEAN
    /\ nRead \in Nat
    /\ Sound(Recorder, nRead)
    /\ ~gone => Waits(Recorder)

(***************************************************************************)
(* Bodies and uploads.                                                     *)
(***************************************************************************)

\* What the last upload sends is behind what it has sent.
Sent(ups, entry) == [ups EXCEPT ![Len(ups)] = Append(@, entry)]

LEMMA BodyFacts ==
    ASSUME NEW b \in Bodies
    PROVE  /\ Len(b) \in Nat
           /\ b # << >> <=> Len(b) >= 1
           /\ \A i \in 1 .. Len(b) : b[i] \in Entries
           /\ b # << >> => Demo(b) \in Nat /\ Last(b) = b[Len(b)]
  <1>1. Len(b) \in Nat /\ (b # << >> <=> Len(b) >= 1)
    BY EmptySeq, LenProperties DEF Bodies
  <1>2. \A i \in 1 .. Len(b) : b[i] \in Entries
    BY ElementOfSeq DEF Bodies
  <1>3. \A e \in Entries : e.num \in Nat
    BY DEF Entries
  <1>4. b # << >> => b[1] \in Entries
    BY <1>1, <1>2
  <1>. QED
    BY <1>1, <1>2, <1>3, <1>4 DEF Demo, Last

LEMMA AppendedFacts ==
    ASSUME NEW b \in Bodies, NEW e \in Entries
    PROVE  /\ Append(b, e) \in Bodies
           /\ Len(Append(b, e)) = Len(b) + 1
           /\ Append(b, e) # << >>
           /\ \A i \in 1 .. Len(b) : Append(b, e)[i] = b[i]
           /\ Append(b, e)[Len(b) + 1] = e
           /\ Last(Append(b, e)) = e
           /\ Demo(Append(b, e)) = IF b = << >> THEN e.num ELSE Demo(b)
  <1>1. /\ Append(b, e) \in Bodies
        /\ Len(Append(b, e)) = Len(b) + 1
        /\ \A i \in 1 .. Len(b) : Append(b, e)[i] = b[i]
        /\ Append(b, e)[Len(b) + 1] = e
    BY AppendProperties DEF Bodies
  <1>2. Len(b) \in Nat /\ (b # << >> <=> Len(b) >= 1)
    BY BodyFacts
  <1>3. Append(b, e) # << >>
    BY <1>1, <1>2, BodyFacts
  <1>4. Last(Append(b, e)) = e
    BY <1>1 DEF Last
  <1>5. Demo(Append(b, e)) = IF b = << >> THEN e.num ELSE Demo(b)
    BY <1>1, <1>2 DEF Demo
  <1>. QED
    BY <1>1, <1>3, <1>4, <1>5

LEMMA UploadFacts ==
    ASSUME NEW u \in Seq(Bodies)
    PROVE  /\ Len(u) \in Nat
           /\ u # << >> <=> Len(u) >= 1
           /\ \A i \in 1 .. Len(u) : u[i] \in Bodies
           /\ u # << >> => Last(u) \in Bodies /\ Last(u) = u[Len(u)]
  <1>1. Len(u) \in Nat /\ (u # << >> <=> Len(u) >= 1)
    BY EmptySeq, LenProperties
  <1>2. \A i \in 1 .. Len(u) : u[i] \in Bodies
    BY ElementOfSeq
  <1>. QED
    BY <1>1, <1>2 DEF Last

LEMMA SentFacts ==
    ASSUME NEW u \in Seq(Bodies), u # << >>, NEW e \in Entries
    PROVE  /\ Sent(u, e) \in Seq(Bodies)
           /\ Sent(u, e) # << >>
           /\ Len(Sent(u, e)) = Len(u)
           /\ \A i \in 1 .. Len(u) :
                  Sent(u, e)[i] = IF i = Len(u) THEN Append(Last(u), e) ELSE u[i]
           /\ Last(Sent(u, e)) = Append(Last(u), e)
  <1>1. Len(u) \in Nat /\ Len(u) >= 1 /\ Last(u) = u[Len(u)] /\ Last(u) \in Bodies
    BY UploadFacts
  <1>2. Append(Last(u), e) \in Bodies
    BY <1>1, AppendedFacts
  <1>3. Sent(u, e) = [u EXCEPT ![Len(u)] = Append(Last(u), e)]
    BY <1>1 DEF Sent
  <1>4. /\ Sent(u, e) \in Seq(Bodies)
        /\ Len(Sent(u, e)) = Len(u)
        /\ \A i \in 1 .. Len(u) :
               Sent(u, e)[i] = IF i = Len(u) THEN Append(Last(u), e) ELSE u[i]
    BY <1>1, <1>2, <1>3, ExceptSeq
  <1>5. Sent(u, e) # << >>
    BY <1>1, <1>4, UploadFacts
  <1>6. Last(Sent(u, e)) = Append(Last(u), e)
    <2>1. Last(Sent(u, e)) = Sent(u, e)[Len(Sent(u, e))]
      BY <1>4, <1>5, UploadFacts
    <2>2. Len(u) \in 1 .. Len(u)
      BY <1>1
    <2>3. Sent(u, e)[Len(u)] = Append(Last(u), e)
      BY <1>4, <2>2
    <2>. QED
      BY <1>4, <2>1, <2>3
  <1>. QED
    BY <1>4, <1>5, <1>6

(***************************************************************************)
(* What is appended to a demo that plays.                                  *)
(***************************************************************************)

\* CL_Record_f: the gamestate comes first.
LEMMA PlaysGamestate ==
    ASSUME NEW n \in Nat, NEW e \in Entries, e.kind = "gamestate"
    PROVE  /\ DemoPlays(Append(<< >>, e)) /\ Open(Append(<< >>, e), n)
           /\ Len(Append(<< >>, e)) = 1 /\ ~Ended(Append(<< >>, e))
  <1>1. << >> \in Bodies /\ Len(<< >>) = 0
    BY EmptySeq DEF Bodies
  <1>. DEFINE b == Append(<< >>, e)
  <1>2. Len(b) = 1 /\ b[1] = e
    BY <1>1, AppendedFacts
  <1>. HIDE DEF b
  <1>3. DemoPlays(b) /\ Open(b, n) /\ ~Ended(b)
    BY <1>2 DEF DemoPlays, Open, Ended, Last
  <1>. QED
    BY <1>2, <1>3 DEF b

\* CL_PacketEvent: then a full snapshot, then every message.
LEMMA PlaysMore ==
    ASSUME NEW n \in Nat, NEW b \in Bodies, DemoPlays(b), Open(b, n),
           NEW e \in Entries, e.kind \in {"full", "delta", "commands"},
           e.num = n + 1, Len(b) = 1 => e.kind = "full"
    PROVE  DemoPlays(Append(b, e)) /\ Open(Append(b, e), n + 1)
  <1>. DEFINE c == Append(b, e)
  <1>1. Len(b) \in Nat /\ Len(b) >= 1
    BY BodyFacts DEF Open
  <1>2. /\ Len(c) = Len(b) + 1
        /\ \A i \in 1 .. Len(b) : c[i] = b[i]
        /\ c[Len(b) + 1] = e
    BY AppendedFacts
  <1>. HIDE DEF c
  <1>3. Open(c, n + 1)
    BY <1>1, <1>2 DEF Open
  <1>4. ASSUME NEW i \in 1 .. Len(c)
        PROVE  /\ c[i].kind = "gamestate" <=> i = 1
               /\ c[i].kind = "trailer" => i = Len(c)
    <2>1. CASE i = Len(b) + 1
      BY <1>1, <1>2, <2>1
    <2>2. CASE i # Len(b) + 1
      <3>1. i \in 1 .. Len(b) /\ c[i] = b[i]
        BY <1>1, <1>2, <2>2
      <3>. QED
        BY <3>1 DEF DemoPlays, Open
    <2>. QED
      BY <2>1, <2>2
  <1>5. Len(c) >= 2 => c[2].kind \in {"full", "trailer"}
    <2>1. CASE Len(b) = 1
      BY <1>2, <2>1
    <2>2. CASE Len(b) >= 2
      BY <1>1, <1>2, <2>2 DEF DemoPlays
    <2>3. \A k \in Nat : k >= 1 => k = 1 \/ k >= 2
      OBVIOUS
    <2>4. Len(b) = 1 \/ Len(b) >= 2
      BY <1>1, <2>3
    <2>. QED
      BY <2>1, <2>2, <2>4
  <1>6. ASSUME NEW i \in 3 .. Len(c)
        PROVE  c[i].num = IF c[i].kind = "trailer" THEN c[i - 1].num
                          ELSE c[i - 1].num + 1
    <2>1. CASE i = Len(b) + 1
      <3>1. c[i] = e /\ c[i - 1] = b[Len(b)] /\ Len(b) >= 2
        BY <1>1, <1>2, <2>1
      <3>. QED
        BY <3>1 DEF Open
    <2>2. CASE i # Len(b) + 1
      <3>1. i \in 3 .. Len(b) /\ c[i] = b[i] /\ c[i - 1] = b[i - 1]
        BY <1>1, <1>2, <2>2
      <3>. QED
        BY <3>1 DEF DemoPlays
    <2>. QED
      BY <2>1, <2>2
  <1>7. DemoPlays(c)
    BY <1>4, <1>5, <1>6 DEF DemoPlays
  <1>. QED
    BY <1>3, <1>7 DEF c

\* CL_StopRecord_f: the trailer comes last.
LEMMA PlaysTrailer ==
    ASSUME NEW n \in Nat, NEW b \in Bodies, DemoPlays(b), Open(b, n),
           NEW e \in Entries, e.kind = "trailer", e.num = n
    PROVE  DemoPlays(Append(b, e)) /\ Ended(Append(b, e))
  <1>. DEFINE c == Append(b, e)
  <1>1. Len(b) \in Nat /\ Len(b) >= 1
    BY BodyFacts DEF Open
  <1>2. /\ Len(c) = Len(b) + 1
        /\ \A i \in 1 .. Len(b) : c[i] = b[i]
        /\ c[Len(b) + 1] = e
    BY AppendedFacts
  <1>3. Ended(c)
    BY AppendedFacts DEF Ended
  <1>. HIDE DEF c
  <1>4. ASSUME NEW i \in 1 .. Len(c)
        PROVE  /\ c[i].kind = "gamestate" <=> i = 1
               /\ c[i].kind = "trailer" => i = Len(c)
    <2>1. CASE i = Len(b) + 1
      BY <1>1, <1>2, <2>1
    <2>2. CASE i # Len(b) + 1
      <3>1. i \in 1 .. Len(b) /\ c[i] = b[i]
        BY <1>1, <1>2, <2>2
      <3>. QED
        BY <3>1 DEF DemoPlays, Open
    <2>. QED
      BY <2>1, <2>2
  <1>5. Len(c) >= 2 => c[2].kind \in {"full", "trailer"}
    <2>1. CASE Len(b) = 1
      BY <1>2, <2>1
    <2>2. CASE Len(b) >= 2
      BY <1>1, <1>2, <2>2 DEF DemoPlays
    <2>3. \A k \in Nat : k >= 1 => k = 1 \/ k >= 2
      OBVIOUS
    <2>4. Len(b) = 1 \/ Len(b) >= 2
      BY <1>1, <2>3
    <2>. QED
      BY <2>1, <2>2, <2>4
  <1>6. ASSUME NEW i \in 3 .. Len(c)
        PROVE  c[i].num = IF c[i].kind = "trailer" THEN c[i - 1].num
                          ELSE c[i - 1].num + 1
    <2>1. CASE i = Len(b) + 1
      <3>1. c[i] = e /\ c[i - 1] = b[Len(b)] /\ Len(b) >= 2
        BY <1>1, <1>2, <2>1
      <3>. QED
        BY <3>1 DEF Open
    <2>2. CASE i # Len(b) + 1
      <3>1. i \in 3 .. Len(b) /\ c[i] = b[i] /\ c[i - 1] = b[i - 1]
        BY <1>1, <1>2, <2>2
      <3>. QED
        BY <3>1 DEF DemoPlays
    <2>. QED
      BY <2>1, <2>2
  <1>7. DemoPlays(c)
    BY <1>4, <1>5, <1>6 DEF DemoPlays
  <1>. QED
    BY <1>3, <1>7 DEF c

(***************************************************************************)
(* What the operations keep.                                               *)
(***************************************************************************)

\* What is kept is about the bodies only, and stays so as messages are read.
LEMMA KeptSame ==
    ASSUME NEW n \in Nat, NEW m \in Nat, n <= m,
           NEW r, Kept(r, n), NEW s \in States, s.uploads = r.uploads,
           s.stored = r.stored, s.indexed = r.indexed
    PROVE  Kept(s, m)
  <1>1. \A body \in Bodies : Known(body, n) => Known(body, m)
    <2>1. \A body \in Bodies : body # << >> => Demo(body) \in Nat
      BY BodyFacts
    <2>. QED
      BY <2>1 DEF Known
  <1>2. \A i \in 1 .. Len(s.uploads) : s.uploads[i] \in Bodies
    BY UploadFacts DEF States
  <1>3. s.stored \subseteq Bodies
    BY DEF States
  <1>. QED
    BY <1>1, <1>2, <1>3 DEF Kept

\* So it is when the last upload sends more of its demo.
LEMMA KeptSent ==
    ASSUME NEW n \in Nat, NEW m \in Nat, n <= m,
           NEW r, Kept(r, n), r.uploads # << >>, NEW e \in Entries,
           DemoPlays(Append(Last(r.uploads), e)),
           Last(r.uploads) = << >> => e.num = m /\ n < m,
           NEW s \in States, s.uploads = Sent(r.uploads, e),
           s.stored = r.stored, s.indexed = r.indexed
    PROVE  Kept(s, m)
  <1>. DEFINE u == r.uploads  v == s.uploads  b == Append(Last(u), e)
  <1>1. r \in States /\ u \in Seq(Bodies) /\ r.stored \subseteq Bodies
    BY DEF Kept, States
  <1>2. /\ Len(u) \in Nat /\ Len(u) >= 1
        /\ \A i \in 1 .. Len(u) : u[i] \in Bodies
        /\ Last(u) \in Bodies /\ Last(u) = u[Len(u)]
    BY <1>1, UploadFacts
  <1>3. /\ Len(v) = Len(u)
        /\ \A i \in 1 .. Len(u) : v[i] = IF i = Len(u) THEN b ELSE u[i]
    BY <1>1, SentFacts
  <1>4. b \in Bodies /\ b # << >>
        /\ Demo(b) = IF Last(u) = << >> THEN m ELSE Demo(Last(u))
    BY <1>2, AppendedFacts
  <1>5. \A body \in Bodies : body # << >> => Demo(body) \in Nat
    BY BodyFacts
  <1>6. /\ \A i \in 1 .. Len(u) : Known(u[i], n)
        /\ \A i, j \in 1 .. Len(u) :
               u[i] # << >> /\ u[j] # << >> /\ Demo(u[i]) = Demo(u[j]) => i = j
        /\ \A body \in r.stored :
               /\ Known(body, n) /\ Ended(body)
               /\ \A i \in 1 .. Len(u) : u[i] # << >> => Demo(body) # Demo(u[i])
        /\ \A demo \in r.indexed : \E body \in r.stored : Demo(body) = demo
    BY DEF Kept
  <1>. HIDE DEF u, v, b
  <1>7. Known(b, m)
    <2>1. DemoPlays(b)
      BY DEF b, u
    <2>2. Demo(b) <= m
      <3>1. CASE Last(u) = << >>
        BY <1>4, <3>1
      <3>2. CASE Last(u) # << >>
        <4>1. Len(u) \in 1 .. Len(u)
          BY <1>2
        <4>2. Known(Last(u), n)
          BY <1>2, <1>6, <4>1
        <4>3. Demo(Last(u)) \in Nat /\ Demo(Last(u)) <= n
          BY <1>2, <1>5, <3>2, <4>2 DEF Known
        <4>. QED
          BY <1>4, <3>2, <4>3
      <3>. QED
        BY <3>1, <3>2
    <2>. QED
      BY <2>1, <2>2 DEF Known
  <1>8. \A body \in Bodies : Known(body, n) => Known(body, m)
    BY <1>5 DEF Known
  <1>9. \A body \in Bodies :
            /\ Known(body, n) /\ body # << >> /\ Last(u) = << >>
            => Demo(body) # Demo(b)
    <2>. SUFFICES ASSUME NEW body \in Bodies, Known(body, n), body # << >>,
                         Last(u) = << >>
                  PROVE  Demo(body) # Demo(b)
      OBVIOUS
    <2>1. Demo(body) \in Nat /\ Demo(body) <= n
      BY <1>5 DEF Known
    <2>2. Demo(b) = m /\ n < m
      BY <1>4 DEF u
    <2>. QED
      BY <2>1, <2>2
  <1>10. \A i \in 1 .. Len(v) : Known(v[i], m)
    BY <1>2, <1>3, <1>6, <1>7, <1>8
  <1>11. \A i \in 1 .. Len(u) : i # Len(u) /\ u[i] # << >> => Demo(u[i]) # Demo(b)
    <2>. SUFFICES ASSUME NEW i \in 1 .. Len(u), i # Len(u), u[i] # << >>
                  PROVE  Demo(u[i]) # Demo(b)
      OBVIOUS
    <2>1. CASE Last(u) = << >>
      BY <1>2, <1>6, <1>9, <2>1
    <2>2. CASE Last(u) # << >>
      <3>1. Len(u) \in 1 .. Len(u)
        BY <1>2
      <3>. QED
        BY <1>2, <1>4, <1>6, <2>2, <3>1
    <2>. QED
      BY <2>1, <2>2
  <1>12. ASSUME NEW i \in 1 .. Len(v), NEW j \in 1 .. Len(v),
                v[i] # << >>, v[j] # << >>, Demo(v[i]) = Demo(v[j])
         PROVE  i = j
    <2>1. CASE i = Len(u) /\ j # Len(u)
      BY <1>3, <1>11, <1>12, <2>1
    <2>2. CASE i # Len(u) /\ j = Len(u)
      BY <1>3, <1>11, <1>12, <2>2
    <2>3. CASE i # Len(u) /\ j # Len(u)
      BY <1>3, <1>6, <1>12, <2>3
    <2>. QED
      BY <2>1, <2>2, <2>3
  <1>13. ASSUME NEW body \in s.stored
         PROVE  /\ Known(body, m) /\ Ended(body)
                /\ \A i \in 1 .. Len(v) : v[i] # << >> => Demo(body) # Demo(v[i])
    <2>1. body \in r.stored /\ body \in Bodies
      BY <1>1
    <2>2. Known(body, n) /\ Known(body, m) /\ Ended(body) /\ body # << >>
      BY <1>6, <1>8, <2>1 DEF Ended
    <2>3. Demo(body) # Demo(b)
      <3>1. CASE Last(u) = << >>
        BY <1>9, <2>1, <2>2, <3>1
      <3>2. CASE Last(u) # << >>
        <4>1. Len(u) \in 1 .. Len(u)
          BY <1>2
        <4>. QED
          BY <1>2, <1>4, <1>6, <2>1, <3>2, <4>1
      <3>. QED
        BY <3>1, <3>2
    <2>. QED
      BY <1>3, <1>6, <2>1, <2>2, <2>3
  <1>14. \A demo \in s.indexed : \E body \in s.stored : Demo(body) = demo
    BY <1>6
  <1>. QED
    BY <1>10, <1>12, <1>13, <1>14 DEF Kept, v

\* CG_WriteDemoPacket: the body grows, or the transfer is over.
LEMMA WrittenFacts ==
    ASSUME NEW r \in States, r.uploads # << >>, NEW e \in Entries,
           NEW w \in Written(r, e)
    PROVE  /\ w \in States
           /\ w.recording = r.recording /\ w.waiting = r.waiting
           /\ w.index = r.index /\ w.stored = r.stored /\ w.indexed = r.indexed
           /\ \/ w.handles = 0 /\ w.uploads = r.uploads
              \/ r.handles = 1 /\ w.handles = 1 /\ w.uploads = Sent(r.uploads, e)
  <1>1. r.uploads \in Seq(Bodies) /\ r.handles \in {0, 1}
    BY DEF States
  <1>2. CASE r.handles = 0
    BY <1>2 DEF Written
  <1>3. CASE r.handles = 1 /\ w = [r EXCEPT !.handles = 0]
    BY <1>3 DEF States
  <1>4. CASE /\ r.handles = 1
             /\ w = [r EXCEPT !.uploads[Len(r.uploads)] = Append(@, e)]
    <2>1. w = [r EXCEPT !.uploads = Sent(r.uploads, e)]
      BY <1>4 DEF Sent
    <2>2. Sent(r.uploads, e) \in Seq(Bodies)
      BY <1>1, SentFacts
    <2>. QED
      BY <1>4, <2>1, <2>2 DEF States
  <1>. QED
    BY <1>1, <1>2, <1>3, <1>4 DEF Written

LEMMA FrontFacts ==
    ASSUME NEW u \in Seq(Bodies), u # << >>
    PROVE  /\ Front(u) \in Seq(Bodies)
           /\ Len(Front(u)) = Len(u) - 1
           /\ \A i \in 1 .. Len(u) - 1 : Front(u)[i] = u[i]
  <1>1. Len(u) \in Nat /\ Len(u) >= 1 /\ \A i \in 1 .. Len(u) : u[i] \in Bodies
    BY UploadFacts
  <1>2. \A i \in 1 .. Len(u) - 1 : u[i] \in Bodies
    BY <1>1
  <1>3. Len(u) - 1 \in Int /\ 1 \in Int
    BY <1>1
  <1>4. /\ SubSeq(u, 1, Len(u) - 1) \in Seq(Bodies)
        /\ Len(SubSeq(u, 1, Len(u) - 1)) =
               IF 1 <= Len(u) - 1 THEN (Len(u) - 1) - 1 + 1 ELSE 0
        /\ \A i \in 1 .. (Len(u) - 1) - 1 + 1 :
               SubSeq(u, 1, Len(u) - 1)[i] = u[1 + i - 1]
    BY <1>2, <1>3, SubSeqProperties
  <1>5. /\ (Len(u) - 1) - 1 + 1 = Len(u) - 1
        /\ (IF 1 <= Len(u) - 1 THEN (Len(u) - 1) - 1 + 1 ELSE 0) = Len(u) - 1
        /\ \A i \in 1 .. Len(u) - 1 : 1 + i - 1 = i
    <2>1. \A k \in Nat :
              k >= 1 => /\ (k - 1) - 1 + 1 = k - 1
                        /\ (IF 1 <= k - 1 THEN (k - 1) - 1 + 1 ELSE 0) = k - 1
      OBVIOUS
    <2>. QED
      BY <1>1, <2>1
  <1>6. /\ Len(Front(u)) = Len(u) - 1
        /\ \A i \in 1 .. Len(u) - 1 : Front(u)[i] = u[i]
    BY <1>4, <1>5 DEF Front
  <1>. QED
    BY <1>4, <1>6 DEF Front

\* A demo that is taken with its trailer moves from the uploads to the stored.
LEMMA KeptTaken ==
    ASSUME NEW n \in Nat, NEW r, Kept(r, n), r.uploads # << >>,
           Ended(Last(r.uploads)),
           NEW s \in States, s.uploads = Front(r.uploads),
           s.stored = r.stored \cup {Last(r.uploads)},
           s.indexed \subseteq r.indexed \cup {Demo(Last(r.uploads))}
    PROVE  Kept(s, n)
  <1>. DEFINE u == r.uploads  v == s.uploads  b == Last(u)
  <1>1. r \in States /\ u \in Seq(Bodies)
    BY DEF Kept, States
  <1>2. /\ Len(u) \in Nat /\ Len(u) >= 1
        /\ b = u[Len(u)]
    BY <1>1, UploadFacts
  <1>3. /\ Len(v) = Len(u) - 1
        /\ \A i \in 1 .. Len(u) - 1 : v[i] = u[i]
    BY <1>1, FrontFacts
  <1>4. /\ \A i \in 1 .. Len(u) : Known(u[i], n)
        /\ \A i, j \in 1 .. Len(u) :
               u[i] # << >> /\ u[j] # << >> /\ Demo(u[i]) = Demo(u[j]) => i = j
        /\ \A body \in r.stored :
               /\ Known(body, n) /\ Ended(body)
               /\ \A i \in 1 .. Len(u) : u[i] # << >> => Demo(body) # Demo(u[i])
        /\ \A demo \in r.indexed : \E body \in r.stored : Demo(body) = demo
    BY DEF Kept
  <1>5. /\ Ended(b) /\ b # << >>
        /\ s.stored = r.stored \cup {b}
        /\ s.indexed \subseteq r.indexed \cup {Demo(b)}
    BY DEF Ended
  <1>. HIDE DEF u, v, b
  <1>6. \A i \in 1 .. Len(v) : i \in 1 .. Len(u) /\ i # Len(u) /\ v[i] = u[i]
    BY <1>2, <1>3
  <1>7. Len(u) \in 1 .. Len(u)
    BY <1>2
  <1>8. \A i \in 1 .. Len(v) : Known(v[i], n)
    BY <1>4, <1>6
  <1>9. \A i, j \in 1 .. Len(v) :
            v[i] # << >> /\ v[j] # << >> /\ Demo(v[i]) = Demo(v[j]) => i = j
    BY <1>4, <1>6
  <1>10. ASSUME NEW body \in s.stored
         PROVE  /\ Known(body, n) /\ Ended(body)
                /\ \A i \in 1 .. Len(v) : v[i] # << >> => Demo(body) # Demo(v[i])
    <2>1. CASE body \in r.stored
      BY <1>4, <1>6, <2>1
    <2>2. CASE body = b
      <3>1. Known(body, n) /\ Ended(body)
        BY <1>2, <1>4, <1>5, <1>7, <2>2
      <3>2. \A i \in 1 .. Len(v) : v[i] # << >> => Demo(body) # Demo(v[i])
        BY <1>2, <1>4, <1>5, <1>6, <1>7, <2>2
      <3>. QED
        BY <3>1, <3>2
    <2>. QED
      BY <1>5, <2>1, <2>2
  <1>11. \A demo \in s.indexed : \E body \in s.stored : Demo(body) = demo
    BY <1>4, <1>5
  <1>. QED
    BY <1>8, <1>9, <1>10, <1>11 DEF Kept, v

\* CG_FinishSendingDemo, of an upload that has ended with its trailer.
LEMMA FinishedFacts ==
    ASSUME NEW n \in Nat, NEW w, Kept(w, n), w.uploads # << >>,
           w.handles = 1 => Ended(Last(w.uploads)),
           NEW f \in Finished(w)
    PROVE  Kept(f, n) /\ f.handles = 0 /\ f.recording = w.recording
  <1>1. /\ w \in States /\ w.uploads \in Seq(Bodies) /\ w.stored \subseteq Bodies
        /\ w.indexed \subseteq Nat /\ w.handles \in {0, 1}
        /\ w.index \in Nat \cup {NoDemo}
    BY DEF Kept, States
  <1>2. Last(w.uploads) \in Bodies /\ Front(w.uploads) \in Seq(Bodies)
    BY <1>1, UploadFacts, FrontFacts
  <1>3. CASE w.handles = 0
    BY <1>3 DEF Finished
  <1>4. CASE w.handles = 1 /\ f = [w EXCEPT !.handles = 0]
    <2>1. /\ f \in States /\ f.uploads = w.uploads /\ f.stored = w.stored
          /\ f.indexed = w.indexed /\ f.handles = 0 /\ f.recording = w.recording
      BY <1>1, <1>4 DEF States
    <2>. QED
      BY <2>1, KeptSame
  <1>5. /\ Taken(w) \in States
        /\ Taken(w).uploads = Front(w.uploads) /\ Taken(w).handles = 0
        /\ Taken(w).stored = w.stored \cup {Last(w.uploads)}
        /\ Taken(w).indexed = w.indexed /\ Taken(w).index = w.index
        /\ Taken(w).recording = w.recording
    BY <1>1, <1>2 DEF Taken, States
  <1>6. CASE w.handles = 1 /\ f = Taken(w)
    BY <1>5, <1>6, KeptTaken
  <1>7. CASE w.handles = 1 /\ f = Indexing(w)
    <2>1. Demo(Last(w.uploads)) \in Nat
      BY <1>2, <1>7, BodyFacts DEF Ended
    <2>2. /\ f \in States /\ f.uploads = Front(w.uploads) /\ f.handles = 0
          /\ f.stored = w.stored \cup {Last(w.uploads)}
          /\ f.indexed \subseteq w.indexed \cup {Demo(Last(w.uploads))}
          /\ f.recording = w.recording
      <3>1. CASE Taken(w).index # NoDemo
        BY <1>5, <1>7, <3>1 DEF Indexing, OnDemoFinish
      <3>2. CASE Taken(w).index = NoDemo
        <4>1. f = [Taken(w) EXCEPT !.index = Demo(Last(w.uploads)),
                                   !.indexed = @ \cup {Demo(Last(w.uploads))}]
          BY <1>7, <3>2 DEF Indexing, OnDemoFinish
        <4>. QED
          BY <1>1, <1>5, <2>1, <4>1 DEF States
      <3>. QED
        BY <3>1, <3>2
    <2>. QED
      BY <1>7, <2>2, KeptTaken
  <1>. QED
    BY <1>1, <1>3, <1>4, <1>6, <1>7 DEF Finished

\* CL_StopRecord_f: afterwards no demo is recorded and no transfer runs.
LEMMA StopRecordFacts ==
    ASSUME NEW n \in Nat, NEW r, Sound(r, n), NEW f \in StopRecord(r, n)
    PROVE  Kept(f, n) /\ f.recording = FALSE /\ f.handles = 0
  <1>. DEFINE e == [kind |-> "trailer", num |-> n]
  <1>1. /\ r \in States /\ Kept(r, n) /\ Writing(r, n)
        /\ r.handles \in {0, 1} /\ r.recording \in BOOLEAN
    BY DEF Sound, Kept, States
  <1>2. e \in Entries /\ e.kind = "trailer" /\ e.num = n
    BY DEF Entries, Kinds
  <1>. HIDE DEF e
  <1>3. CASE ~r.recording
    BY <1>1, <1>3 DEF StopRecord, Writing
  <1>4. CASE r.recording
    <2>0. PICK g \in UNION {Finished(w) : w \in Written(r, e)} :
              f = [g EXCEPT !.recording = FALSE]
      BY <1>4 DEF StopRecord, e
    <2>1. PICK w \in Written(r, e) : g \in Finished(w)
      BY <2>0
    <2>2. r.uploads # << >> /\ r.uploads \in Seq(Bodies)
      BY <1>1, <1>4 DEF Writing, States
    <2>3. Kept(w, n) /\ w.uploads # << >>
          /\ (w.handles = 1 => Ended(Last(w.uploads)))
      <3>1. CASE w.handles = 0 /\ w.uploads = r.uploads
        BY <1>1, <1>2, <2>2, <3>1, WrittenFacts, KeptSame
      <3>2. CASE r.handles = 1 /\ w.handles = 1 /\ w.uploads = Sent(r.uploads, e)
        <4>1. /\ Len(r.uploads) \in Nat /\ Len(r.uploads) >= 1
              /\ Last(r.uploads) \in Bodies
              /\ Last(r.uploads) = r.uploads[Len(r.uploads)]
          BY <2>2, UploadFacts
        <4>2. Len(r.uploads) \in 1 .. Len(r.uploads)
          BY <4>1
        <4>3. DemoPlays(Last(r.uploads)) /\ Open(Last(r.uploads), n)
          BY <1>1, <3>2, <4>1, <4>2 DEF Kept, Known, Writing
        <4>4. Last(r.uploads) # << >>
          BY <4>1, <4>3, BodyFacts DEF Open
        <4>5. DemoPlays(Append(Last(r.uploads), e)) /\ Ended(Append(Last(r.uploads), e))
          BY <1>2, <4>1, <4>3, PlaysTrailer
        <4>6. w \in States /\ w.stored = r.stored /\ w.indexed = r.indexed
          BY <1>1, <1>2, <2>2, WrittenFacts
        <4>7. Kept(w, n)
          BY <1>1, <1>2, <2>2, <3>2, <4>4, <4>5, <4>6, KeptSent
        <4>8. /\ Sent(r.uploads, e) # << >>
              /\ Last(Sent(r.uploads, e)) = Append(Last(r.uploads), e)
          BY <1>2, <2>2, <4>1, SentFacts
        <4>. QED
          BY <3>2, <4>5, <4>7, <4>8
      <3>3. \/ w.handles = 0 /\ w.uploads = r.uploads
            \/ r.handles = 1 /\ w.handles = 1 /\ w.uploads = Sent(r.uploads, e)
        BY <1>1, <1>2, <2>2, WrittenFacts
      <3>. QED
        BY <3>1, <3>2, <3>3
    <2>4. Kept(g, n) /\ g.handles = 0
      BY <2>1, <2>3, FinishedFacts
    <2>5. g \in States
      BY <2>4 DEF Kept
    <2>6. /\ f \in States /\ f.uploads = g.uploads /\ f.stored = g.stored
          /\ f.indexed = g.indexed /\ f.handles = g.handles /\ f.recording = FALSE
      BY <2>0, <2>5 DEF States
    <2>. QED
      BY <2>4, <2>6, KeptSame
  <1>. QED
    BY <1>1, <1>3, <1>4

\* CG_StartDemo has given the new demo an upload without a body.
LEMMA KeptRecord ==
    ASSUME NEW n \in Nat, NEW r, Kept(r, n), r.handles = 0
    PROVE  /\ Record(r) \in States /\ Kept(Record(r), n)
           /\ Record(r).recording = TRUE /\ Record(r).waiting = TRUE
           /\ Record(r).handles = 1
           /\ Record(r).uploads # << >> /\ Last(Record(r).uploads) = << >>
  <1>. DEFINE u == r.uploads  v == Append(r.uploads, << >>)
  <1>1. r \in States /\ u \in Seq(Bodies) /\ << >> \in Bodies /\ Len(<< >>) = 0
    BY EmptySeq DEF Kept, States, Bodies
  <1>2. Len(u) \in Nat
    BY <1>1, UploadFacts
  <1>3. /\ v \in Seq(Bodies) /\ Len(v) = Len(u) + 1
        /\ \A i \in 1 .. Len(u) : v[i] = u[i]
        /\ v[Len(u) + 1] = << >>
    BY <1>1, AppendProperties
  <1>4. /\ Record(r) \in States
        /\ Record(r).recording = TRUE /\ Record(r).waiting = TRUE
        /\ Record(r).handles = 1 /\ Record(r).uploads = v
        /\ Record(r).stored = r.stored /\ Record(r).indexed = r.indexed
    <2>1. Record(r) = [r EXCEPT !.recording = TRUE, !.waiting = TRUE,
                                !.uploads = v, !.handles = 1]
      BY <1>1 DEF Record
    <2>. QED
      BY <1>1, <1>3, <2>1 DEF States
  <1>5. /\ \A i \in 1 .. Len(u) : Known(u[i], n)
        /\ \A i, j \in 1 .. Len(u) :
               u[i] # << >> /\ u[j] # << >> /\ Demo(u[i]) = Demo(u[j]) => i = j
        /\ \A body \in r.stored :
               /\ Known(body, n) /\ Ended(body)
               /\ \A i \in 1 .. Len(u) : u[i] # << >> => Demo(body) # Demo(u[i])
        /\ \A demo \in r.indexed : \E body \in r.stored : Demo(body) = demo
    BY DEF Kept
  <1>. HIDE DEF u, v
  <1>6. v # << >> /\ Last(v) = << >>
    <2>1. v # << >> /\ Last(v) = v[Len(v)]
      BY <1>2, <1>3, UploadFacts
    <2>. QED
      BY <1>3, <2>1
  <1>7. Known(<< >>, n)
    BY <1>1 DEF Known, DemoPlays
  <1>8. \A i \in 1 .. Len(v) : v[i] = << >> \/ (i \in 1 .. Len(u) /\ v[i] = u[i])
    <2>. SUFFICES ASSUME NEW i \in 1 .. Len(v)
                  PROVE  v[i] = << >> \/ (i \in 1 .. Len(u) /\ v[i] = u[i])
      OBVIOUS
    <2>1. CASE i = Len(u) + 1
      BY <1>3, <2>1
    <2>2. CASE i \in 1 .. Len(u)
      BY <1>3, <2>2
    <2>. QED
      BY <1>2, <1>3, <2>1, <2>2
  <1>9. \A i \in 1 .. Len(v) : Known(v[i], n)
    BY <1>5, <1>7, <1>8
  <1>10. \A i, j \in 1 .. Len(v) :
             v[i] # << >> /\ v[j] # << >> /\ Demo(v[i]) = Demo(v[j]) => i = j
    BY <1>5, <1>8
  <1>11. \A body \in r.stored :
             /\ Known(body, n) /\ Ended(body)
             /\ \A i \in 1 .. Len(v) : v[i] # << >> => Demo(body) # Demo(v[i])
    BY <1>5, <1>8
  <1>12. Kept(Record(r), n)
    BY <1>4, <1>5, <1>9, <1>10, <1>11 DEF Kept
  <1>. QED
    BY <1>4, <1>6, <1>12

\* CL_Record_f: the gamestate is written at once.
LEMMA GamestateFacts ==
    ASSUME NEW n \in Nat, NEW s, Kept(s, n), s.handles = 0,
           NEW r \in Written(Record(s), [kind |-> "gamestate", num |-> n + 1])
    PROVE  Sound(r, n + 1) /\ Waits(r)
  <1>. DEFINE e == [kind |-> "gamestate", num |-> n + 1]  q == Record(s)
  <1>1. /\ q \in States /\ Kept(q, n) /\ q.recording = TRUE /\ q.waiting = TRUE
        /\ q.handles = 1 /\ q.uploads # << >> /\ Last(q.uploads) = << >>
        /\ q.uploads \in Seq(Bodies)
    BY KeptRecord DEF States
  <1>2. e \in Entries /\ e.kind = "gamestate" /\ e.num = n + 1
    BY DEF Entries, Kinds
  <1>3. r \in Written(q, e)
    OBVIOUS
  <1>. HIDE DEF e, q
  <1>4. /\ r \in States /\ r.recording = TRUE /\ r.waiting = TRUE
        /\ r.stored = q.stored /\ r.indexed = q.indexed
        /\ \/ r.handles = 0 /\ r.uploads = q.uploads
           \/ r.handles = 1 /\ r.uploads = Sent(q.uploads, e)
    BY <1>1, <1>2, <1>3, WrittenFacts
  <1>5. n + 1 \in Nat /\ n <= n + 1 /\ n < n + 1
    OBVIOUS
  <1>6. CASE r.handles = 0 /\ r.uploads = q.uploads
    <2>1. Kept(r, n + 1)
      BY <1>1, <1>4, <1>5, <1>6, KeptSame
    <2>. QED
      BY <1>1, <1>6, <2>1 DEF Sound, Writing, Waits
  <1>7. CASE r.handles = 1 /\ r.uploads = Sent(q.uploads, e)
    <2>. DEFINE b == Append(<< >>, e)
    <2>1. DemoPlays(b) /\ Open(b, n + 1)
      BY <1>2, <1>5, PlaysGamestate
    <2>2. Last(r.uploads) = b /\ r.uploads # << >>
      <3>1. /\ Last(Sent(q.uploads, e)) = Append(Last(q.uploads), e)
            /\ Sent(q.uploads, e) # << >>
        BY <1>1, <1>2, SentFacts
      <3>2. Append(Last(q.uploads), e) = b
        BY <1>1
      <3>. QED
        BY <1>7, <3>1, <3>2
    <2>3. Len(b) = 1 /\ ~Ended(b)
      BY <1>2, <1>5, PlaysGamestate
    <2>5. Kept(r, n + 1)
      BY <1>1, <1>2, <1>4, <1>5, <1>7, <2>1, KeptSent
    <2>. HIDE DEF b
    <2>. QED
      BY <1>4, <1>7, <2>1, <2>2, <2>3, <2>5 DEF Sound, Writing, Waits
  <1>. QED
    BY <1>4, <1>6, <1>7

\* CL_PacketEvent: the message is written, if the demo does not wait for a full
\* snapshot, or this is one.
LEMMA MessageFacts ==
    ASSUME NEW n \in Nat, nRead' = n + 1, NEW r, Sound(r, n), Waits(r),
           NEW kind \in {"full", "delta", "commands"}, NEW waits \in BOOLEAN,
           waits => r.waiting, r.waiting /\ ~waits => kind = "full",
           NEW w \in WrittenMessage([r EXCEPT !.waiting = waits], kind)
    PROVE  Sound(w, n + 1) /\ Waits(w)
  <1>. DEFINE q == [r EXCEPT !.waiting = waits]
              e == [kind |-> kind, num |-> n + 1]
  <1>1. /\ r \in States /\ Kept(r, n) /\ Writing(r, n)
    BY DEF Sound, Kept
  <1>2. /\ q \in States /\ q.recording = r.recording /\ q.waiting = waits
        /\ q.uploads = r.uploads /\ q.handles = r.handles
        /\ q.stored = r.stored /\ q.indexed = r.indexed
        /\ q.uploads \in Seq(Bodies) /\ q.handles \in {0, 1}
        /\ q.recording \in BOOLEAN
    BY <1>1 DEF States
  <1>3. e \in Entries /\ e.kind = kind /\ e.num = n + 1
    BY DEF Entries, Kinds
  <1>4. w \in IF q.recording /\ ~q.waiting THEN Written(q, e) ELSE {q}
    BY DEF WrittenMessage
  <1>. HIDE DEF q, e
  <1>5. n + 1 \in Nat /\ n <= n + 1
    OBVIOUS
  <1>6. Kept(q, n) /\ Kept(q, n + 1)
    BY <1>1, <1>2, <1>5, KeptSame
  <1>7. CASE w.handles = 0 /\ w \in States /\ w.uploads = q.uploads
             /\ w.stored = q.stored /\ w.indexed = q.indexed
             /\ w.recording = q.recording
    <2>1. Kept(w, n + 1)
      BY <1>5, <1>6, <1>7, KeptSame
    <2>. QED
      BY <1>1, <1>2, <1>7, <2>1 DEF Sound, Writing, Waits
  <1>8. CASE q.handles = 1 /\ q.recording /\ q.waiting /\ w = q
    <2>1. Open(Last(q.uploads), n) /\ Len(Last(q.uploads)) = 1
      BY <1>1, <1>2, <1>8 DEF Writing, Waits
    <2>2. Open(Last(q.uploads), n + 1)
      BY <2>1 DEF Open
    <2>. QED
      BY <1>1, <1>2, <1>6, <1>8, <2>1, <2>2 DEF Sound, Writing, Waits
  <1>9. CASE /\ q.handles = 1 /\ q.recording /\ ~q.waiting
             /\ w \in States /\ w.handles = 1 /\ w.uploads = Sent(q.uploads, e)
             /\ w.stored = q.stored /\ w.indexed = q.indexed
             /\ w.recording = q.recording /\ w.waiting = q.waiting
    <2>. DEFINE b == Last(q.uploads)
    <2>1. q.uploads # << >>
      BY <1>1, <1>2, <1>9 DEF Writing
    <2>2. /\ Len(q.uploads) \in Nat /\ Len(q.uploads) >= 1
          /\ b \in Bodies /\ b = q.uploads[Len(q.uploads)]
      BY <1>2, <2>1, UploadFacts
    <2>3. Len(q.uploads) \in 1 .. Len(q.uploads)
      BY <2>2
    <2>4. DemoPlays(b) /\ Open(b, n)
      BY <1>1, <1>2, <1>6, <1>9, <2>2, <2>3 DEF Kept, Known, Writing
    <2>5. Len(b) = 1 => kind = "full"
      BY <1>2, <1>9 DEF Waits
    <2>6. DemoPlays(Append(b, e)) /\ Open(Append(b, e), n + 1)
      BY <1>3, <2>2, <2>4, <2>5, PlaysMore
    <2>7. Len(b) \in Nat /\ Len(b) >= 1 /\ b # << >>
      BY <2>2, <2>4, BodyFacts DEF Open
    <2>8. Kept(w, n + 1)
      BY <1>3, <1>5, <1>6, <1>9, <2>1, <2>6, <2>7, KeptSent
    <2>9. /\ Last(w.uploads) = Append(b, e) /\ w.uploads # << >>
          /\ Len(Append(b, e)) = Len(b) + 1 /\ Last(Append(b, e)) = e
      BY <1>2, <1>3, <1>9, <2>1, <2>2, SentFacts, AppendedFacts
    <2>10. ~Ended(Append(b, e))
      BY <1>3, <2>9 DEF Ended
    <2>11. Len(Last(w.uploads)) # 1
      BY <2>7, <2>9
    <2>. QED
      BY <1>9, <2>6, <2>8, <2>9, <2>10, <2>11 DEF Sound, Writing, Waits
  <1>10. CASE q.recording /\ ~q.waiting
    <2>1. q.uploads # << >>
      BY <1>1, <1>2, <1>10 DEF Writing
    <2>2. w \in Written(q, e)
      BY <1>4, <1>10
    <2>. QED
      BY <1>2, <1>3, <1>7, <1>9, <1>10, <2>1, <2>2, WrittenFacts
  <1>11. CASE ~(q.recording /\ ~q.waiting)
    <2>1. w = q
      BY <1>4, <1>11
    <2>2. ~q.recording => q.handles = 0
      BY <1>1, <1>2 DEF Writing
    <2>. QED
      BY <1>2, <1>7, <1>8, <1>11, <2>1, <2>2
  <1>. QED
    BY <1>10, <1>11

(***************************************************************************)
(* The steps.                                                              *)
(***************************************************************************)
LEMMA StoppedFacts ==
    ASSUME NEW n \in Nat, NEW m \in Nat, n <= m, NEW r, Kept(r, n),
           r.recording = FALSE, r.handles = 0
    PROVE  Sound(r, m) /\ Waits(r)
  <1>1. r \in States
    BY DEF Kept
  <1>2. Kept(r, m)
    BY <1>1, KeptSame
  <1>. QED
    BY <1>2 DEF Sound, Writing, Waits

LEMMA BecomesFacts ==
    ASSUME NEW n \in Nat, NEW r, Sound(r, n), Becomes(r)
    PROVE  Sound(Recorder', n) /\ (Waits(r) => Waits(Recorder'))
  <1>. DEFINE q == Recorder'
  <1>1. /\ r.recording \in BOOLEAN /\ r.waiting \in BOOLEAN
        /\ r.uploads \in Seq(Bodies) /\ r.handles \in {0, 1}
        /\ r.index \in Nat \cup {NoDemo} /\ r.stored \subseteq Bodies
        /\ r.indexed \subseteq Nat
    BY DEF Sound, Kept, States
  <1>2. /\ q.recording = r.recording /\ q.waiting = r.waiting
        /\ q.uploads = r.uploads /\ q.handles = r.handles
        /\ q.stored = r.stored /\ q.indexed = r.indexed
    BY DEF Becomes, Recorder
  <1>3. q \in States
    BY <1>1 DEF Becomes, Recorder, States
  <1>. HIDE DEF q
  <1>4. Kept(q, n)
    BY <1>2, <1>3, KeptSame DEF Sound
  <1>5. Sound(q, n) /\ (Waits(r) => Waits(q))
    BY <1>2, <1>4 DEF Sound, Writing, Waits
  <1>. QED
    BY <1>5 DEF q

\* The flags a message changes before it is written.
LEMMA WaitsAfterFacts ==
    ASSUME IInv, NEW kind
    PROVE  /\ WaitsAfter(kind) \in BOOLEAN
           /\ WaitsAfter(kind) => Recorder.waiting
           /\ Recorder.waiting /\ ~WaitsAfter(kind) => kind = "full"
  <1>1. demowaiting \in BOOLEAN /\ Recorder.waiting = demowaiting
    BY DEF IInv, Sound, Kept, States, Recorder
  <1>. QED
    BY <1>1 DEF WaitsAfter

LEMMA InitIInv == Init => IInv
  <1>. SUFFICES ASSUME Init PROVE IInv
    OBVIOUS
  <1>1. Recorder \in States /\ Recorder.uploads = << >> /\ Recorder.handles = 0
        /\ Recorder.recording = FALSE /\ Recorder.stored = {}
        /\ Recorder.indexed = {}
    BY EmptySeq DEF Init, Recorder, States
  <1>2. Len(<< >>) = 0
    BY EmptySeq
  <1>3. Kept(Recorder, 0)
    BY <1>1, <1>2 DEF Kept
  <1>4. Sound(Recorder, 0) /\ Waits(Recorder)
    BY <1>1, <1>3 DEF Sound, Writing, Waits
  <1>. QED
    BY <1>4 DEF Init, IInv

LEMMA NextIInv == IInv /\ [Next]_vars => IInv'
  <1>. SUFFICES ASSUME IInv, [Next]_vars PROVE IInv'
    OBVIOUS
  <1>. DEFINE n == nRead  q == Recorder
  <1>1. /\ n \in Nat /\ n + 1 \in Nat /\ n <= n + 1 /\ n <= n
        /\ gone \in BOOLEAN /\ timeBelieved \in BOOLEAN
        /\ Sound(q, n) /\ (~gone => Waits(q))
    BY DEF IInv
  <1>2. ASSUME NEW m \in Nat, NEW r, nRead' = m, Sound(r, m), Becomes(r),
               ~gone' => Waits(r), gone' \in BOOLEAN, timeBelieved' \in BOOLEAN
        PROVE  IInv'
    BY <1>2, BecomesFacts DEF IInv
  <1>. HIDE DEF q
  <1>3. CASE ReadGamestate
    <2>1. PICK s \in StopRecord(q, n) :
              \E r \in Written(Record(s), [kind |-> "gamestate", num |-> n + 1]) :
                  Becomes(r)
      BY <1>3 DEF ReadGamestate, q
    <2>2. PICK r \in Written(Record(s), [kind |-> "gamestate", num |-> n + 1]) :
              Becomes(r)
      BY <2>1
    <2>3. Kept(s, n) /\ s.handles = 0
      BY <1>1, StopRecordFacts
    <2>4. Sound(r, n + 1) /\ Waits(r)
      BY <1>1, <2>3, GamestateFacts
    <2>5. nRead' = n + 1 /\ gone' \in BOOLEAN /\ timeBelieved' \in BOOLEAN
      BY <1>1, <1>3 DEF ReadGamestate
    <2>. QED
      BY <1>1, <1>2, <2>2, <2>4, <2>5
  <1>4. CASE ReadMessage
    <2>1. PICK kind \in {"full", "delta", "commands"} :
              \E r \in WrittenMessage([q EXCEPT !.waiting = WaitsAfter(kind)],
                                      kind) : Becomes(r)
      BY <1>4 DEF ReadMessage, q
    <2>2. PICK r \in WrittenMessage([q EXCEPT !.waiting = WaitsAfter(kind)],
                                    kind) : Becomes(r)
      BY <2>1
    <2>3. /\ nRead' = n + 1 /\ gone' \in BOOLEAN /\ timeBelieved' \in BOOLEAN
          /\ Waits(q)
      BY <1>1, <1>4 DEF ReadMessage
    <2>4. Sound(r, n + 1) /\ Waits(r)
      BY <1>1, <2>2, <2>3, WaitsAfterFacts, MessageFacts DEF q
    <2>. QED
      BY <1>1, <1>2, <2>2, <2>3, <2>4
  <1>5. CASE ReadScores
    <2>1. PICK kind \in {"full", "delta", "commands"} :
              \E r \in WrittenThenStopped(
                           [q EXCEPT !.waiting = WaitsAfter(kind)], kind) :
                  Becomes(r)
      BY <1>5 DEF ReadScores, q
    <2>2. /\ nRead' = n + 1 /\ gone' \in BOOLEAN /\ timeBelieved' \in BOOLEAN
          /\ Waits(q)
      BY <1>1, <1>5 DEF ReadScores
    <2>3. PICK w \in WrittenMessage([q EXCEPT !.waiting = WaitsAfter(kind)],
                                    kind) :
              \E r \in StopRecord(w, n + 1) : Becomes(r)
      BY <2>1, <2>2 DEF WrittenThenStopped
    <2>4. PICK r \in StopRecord(w, n + 1) : Becomes(r)
      BY <2>3
    <2>5. Sound(w, n + 1)
      BY <1>1, <2>2, <2>3, WaitsAfterFacts, MessageFacts DEF q
    <2>6. Kept(r, n + 1) /\ r.recording = FALSE /\ r.handles = 0
      BY <1>1, <2>4, <2>5, StopRecordFacts
    <2>7. n + 1 <= n + 1
      BY <1>1
    <2>8. Sound(r, n + 1) /\ Waits(r)
      BY <1>1, <2>6, <2>7, StoppedFacts
    <2>. QED
      BY <1>1, <1>2, <2>2, <2>4, <2>8
  <1>6. CASE ReadDisconnect
    <2>1. PICK kind \in {"full", "delta", "commands"} :
              \E r \in StopRecord([q EXCEPT !.waiting = WaitsAfter(kind)], n) :
                  Becomes(r)
      BY <1>6 DEF ReadDisconnect, q
    <2>2. PICK r \in StopRecord([q EXCEPT !.waiting = WaitsAfter(kind)], n) :
              Becomes(r)
      BY <2>1
    <2>3. Sound([q EXCEPT !.waiting = WaitsAfter(kind)], n)
      <3>. DEFINE s == [q EXCEPT !.waiting = WaitsAfter(kind)]
      <3>1. q \in States /\ Kept(q, n) /\ WaitsAfter(kind) \in BOOLEAN
        BY <1>1, WaitsAfterFacts DEF Sound, Kept
      <3>2. /\ s \in States /\ s.recording = q.recording
            /\ s.uploads = q.uploads /\ s.handles = q.handles
            /\ s.stored = q.stored /\ s.indexed = q.indexed
        BY <3>1 DEF States
      <3>. HIDE DEF s
      <3>3. Kept(s, n)
        BY <1>1, <3>1, <3>2, KeptSame
      <3>4. Sound(s, n)
        BY <1>1, <3>2, <3>3 DEF Sound, Writing
      <3>. QED
        BY <3>4 DEF s
    <2>4. Kept(r, n) /\ r.recording = FALSE /\ r.handles = 0
      BY <1>1, <2>2, <2>3, StopRecordFacts
    <2>5. Sound(r, n + 1) /\ Waits(r)
      BY <1>1, <2>4, StoppedFacts
    <2>6. nRead' = n + 1 /\ gone' \in BOOLEAN /\ timeBelieved' \in BOOLEAN
      BY <1>1, <1>6 DEF ReadDisconnect
    <2>. QED
      BY <1>1, <1>2, <2>2, <2>5, <2>6
  <1>7. CASE Leave
    <2>1. PICK r \in StopRecord(q, n) : Becomes(r)
      BY <1>7 DEF Leave, q
    <2>2. Kept(r, n) /\ r.recording = FALSE /\ r.handles = 0
      BY <1>1, StopRecordFacts
    <2>3. Sound(r, n) /\ Waits(r)
      BY <1>1, <2>2, StoppedFacts
    <2>4. nRead' = n /\ gone' \in BOOLEAN /\ timeBelieved' \in BOOLEAN
      BY <1>1, <1>7 DEF Leave
    <2>. QED
      BY <1>1, <1>2, <2>1, <2>3, <2>4
  <1>8. CASE MatchIndexFinished
    <2>. DEFINE r == [q EXCEPT !.index = NoDemo]
    <2>1. q \in States
      BY <1>1 DEF Sound, Kept
    <2>2. /\ r \in States /\ r.recording = q.recording /\ r.waiting = q.waiting
          /\ r.uploads = q.uploads /\ r.handles = q.handles
          /\ r.stored = q.stored /\ r.indexed = q.indexed
      BY <2>1 DEF States
    <2>3. Becomes(r)
      BY <1>8 DEF MatchIndexFinished, Becomes, q, Recorder
    <2>4. gone' = gone /\ timeBelieved' = timeBelieved /\ nRead' = n
      BY <1>8 DEF MatchIndexFinished
    <2>. HIDE DEF r
    <2>5. Kept(r, n)
      BY <1>1, <2>2, KeptSame DEF Sound
    <2>6. Sound(r, n) /\ (Waits(q) => Waits(r))
      BY <1>1, <2>2, <2>5 DEF Sound, Writing, Waits
    <2>. QED
      BY <1>1, <1>2, <2>3, <2>4, <2>6
  <1>9. CASE UNCHANGED vars
    <2>1. Recorder' = Recorder
      BY <1>9 DEF vars, recorder, Recorder
    <2>2. gone' = gone /\ timeBelieved' = timeBelieved /\ nRead' = nRead
      BY <1>9 DEF vars
    <2>. QED
      BY <2>1, <2>2 DEF IInv
  <1>. QED
    BY <1>3, <1>4, <1>5, <1>6, <1>7, <1>8, <1>9 DEF Next, Terminated

LEMMA Invariance == Spec => []IInv
  <1>. QED
    BY InitIInv, NextIInv, PTL DEF Spec

(***************************************************************************)
(* The theorems.                                                           *)
(***************************************************************************)
LEMMA IInvFacts ==
    ASSUME IInv
    PROVE  /\ Recorder \in States /\ Recorder.uploads = uploads
           /\ Recorder.stored = stored /\ Recorder.indexed = indexed
           /\ Recorder.recording = demorecording
           /\ Recorder.handles = handle_count
  <1>. QED
    BY DEF IInv, Sound, Kept, Recorder

\* The variables have their types.
THEOREM TypeCorrect == Spec => []TypeOK
  <1>1. IInv => TypeOK
    <2>. SUFFICES ASSUME IInv PROVE TypeOK
      OBVIOUS
    <2>1. /\ gone \in BOOLEAN /\ timeBelieved \in BOOLEAN /\ nRead \in Nat
          /\ demorecording => uploads # << >>
      BY IInvFacts DEF IInv, Sound, Writing
    <2>2. Recorder \in States
      BY IInvFacts
    <2>3. /\ demorecording \in BOOLEAN /\ demowaiting \in BOOLEAN
          /\ uploads \in Seq(Bodies) /\ handle_count \in {0, 1}
          /\ endmatchCurl \in Nat \cup {NoDemo}
          /\ stored \subseteq Bodies /\ indexed \subseteq Nat
      BY <2>2 DEF Recorder, States
    <2>. QED
      BY <2>1, <2>3 DEF TypeOK
  <1>. QED
    BY <1>1, Invariance, PTL

\* However transfers break and uploads are refused, as much of a demo as was
\* sent plays: its gamestate, a full snapshot and every message after it, and
\* nothing behind the trailer (CL_Record_f, CL_PacketEvent, CL_StopRecord_f).
THEOREM DemosAlwaysPlay == Spec => []DemosPlay
  <1>1. IInv => DemosPlay
    BY IInvFacts DEF IInv, Sound, Kept, Known, DemosPlay
  <1>. QED
    BY <1>1, Invariance, PTL

\* The web server is asked to index only demos it has taken with their
\* trailers (CG_FinishSendingDemo, CG_OnDemoFinish).
THEOREM IndexedAreComplete == Spec => []IndexedIsComplete
  <1>1. IInv => IndexedIsComplete
    BY IInvFacts DEF IInv, Sound, Kept, IndexedIsComplete
  <1>. QED
    BY <1>1, Invariance, PTL

\* A transfer that runs is the one of the demo being recorded, and no stored
\* demo is sent again (CL_Record_f, CG_StartDemo, CL_StopRecord_f).
THEOREM RecordsToTheLast == Spec => []RecordsToLast
  <1>1. IInv => RecordsToLast
    BY IInvFacts DEF IInv, Sound, Writing, Kept, RecordsToLast
  <1>. QED
    BY <1>1, Invariance, PTL
=============================================================================
