----------------------------- MODULE DemoRecorder -----------------------------
(***************************************************************************)
(* The recording of demos: the bot starts one at every gamestate, writes   *)
(* the messages it reads to it and stops it at the scores of an            *)
(* intermission, at the next gamestate or when it leaves.  A demo is not a *)
(* file but the body of an upload that goes on while it is recorded; once  *)
(* the web server has taken it, it is asked to index it.                   *)
(*                                                                         *)
(* DemoBot/deps.cpp and DemoBot/demobot.cpp.  The web server and libcurl   *)
(* are external: a transfer may break at any write, and the web server may *)
(* refuse an upload.  It takes none it has not received in full.  (That    *)
(* a call of libcurl fails, as it does without memory, is left out.)       *)
(***************************************************************************)
EXTENDS Integers, Sequences, SequencesExt

CONSTANTS
    NoDemo,   \* endmatchCurl is NULL
    MaxRead   \* bound: messages read

ASSUME NoDemoAssumption == NoDemo \notin Nat
ASSUME MaxReadAssumption == MaxRead \in Nat

VARIABLES
    gone,           \* the main loop has ended
    demorecording,  \* clc.demorecording
    demowaiting,    \* clc.demowaiting
    timeBelieved,   \* gamestateAckCmd has been acknowledged
    uploads,        \* the body of each upload as it was sent
    handle_count,   \* transfers that still run: the last upload's or none
    endmatchCurl,   \* the demo being indexed, or NoDemo
    nRead,          \* history: messages read
    stored,         \* external: the demos the web server has taken
    indexed         \* history: the demos it was asked to index

recorder == <<demorecording, demowaiting, uploads, handle_count, endmatchCurl,
              stored, indexed>>
vars == <<gone, timeBelieved, nRead, recorder>>

\* A message is known by its number.  The trailer carries the number of the
\* last message it has to come after.
Kinds == {"gamestate", "full", "delta", "commands", "trailer"}
Entries == [kind : Kinds, num : Nat]
Bodies == Seq(Entries)

\* A demo is known by the number of its gamestate.
Demo(body) == body[1].num

TypeOK ==
    /\ gone \in BOOLEAN
    /\ demorecording \in BOOLEAN
    /\ demowaiting \in BOOLEAN
    /\ timeBelieved \in BOOLEAN
    /\ uploads \in Seq(Bodies)
    /\ demorecording => uploads # << >>
    /\ handle_count \in {0, 1}
    /\ endmatchCurl \in Nat \cup {NoDemo}
    /\ nRead \in Nat
    /\ stored \subseteq Bodies
    /\ indexed \subseteq Nat

Init ==
    /\ gone = FALSE
    /\ demorecording = FALSE
    /\ demowaiting = FALSE
    /\ timeBelieved = TRUE
    /\ uploads = << >>
    /\ handle_count = 0
    /\ endmatchCurl = NoDemo
    /\ nRead = 0
    /\ stored = {}
    /\ indexed = {}

(***************************************************************************)
(* What the recorder's operations do to its state, as a relation: each     *)
(* operator is the set of the states that a state r may become.            *)
(***************************************************************************)

Recorder ==
    [recording |-> demorecording, waiting |-> demowaiting,
     uploads |-> uploads, handles |-> handle_count,
     index |-> endmatchCurl,
     stored |-> stored, indexed |-> indexed]

Becomes(r) ==
    /\ demorecording' = r.recording
    /\ demowaiting' = r.waiting
    /\ uploads' = r.uploads
    /\ handle_count' = r.handles
    /\ endmatchCurl' = r.index
    /\ stored' = r.stored
    /\ indexed' = r.indexed

\* CG_WriteDemoPacket: the last upload sends an entry, or its transfer breaks;
\* once no transfer runs, nothing is sent and nothing is noticed.
Written(r, entry) ==
    LET last == Len(r.uploads)
    IN  IF r.handles = 0 THEN {r}
        ELSE {[r EXCEPT !.uploads[last] = Append(@, entry)],
              [r EXCEPT !.handles = 0]}

\* CG_StartDemo has room for one more upload.
Record(r) ==
    [r EXCEPT !.recording = TRUE, !.waiting = TRUE,
              !.uploads = Append(@, << >>), !.handles = @ + 1]

\* CG_OnDemoFinish: index the demo, unless the last one is still indexed.
OnDemoFinish(r, demo) ==
    IF r.index # NoDemo THEN r
    ELSE [r EXCEPT !.index = demo, !.indexed = @ \cup {demo}]

\* CG_FinishSendingDemo: the upload ends.  Taken, it is forgotten and the
\* demo indexed; refused or broken, it stays, and that is all.
Taken(r) ==
    LET body == Last(r.uploads)
    IN  [r EXCEPT !.uploads = Front(@), !.handles = 0,
                  !.stored = @ \cup {body}]

Indexing(r) == OnDemoFinish(Taken(r), Demo(Last(r.uploads)))

FinishedUnflushed(r) ==
    IF r.handles = 0 THEN {r}
    ELSE {r, Taken(r), Indexing(r)}

FinishedUnchecked(r) ==
    IF Last(r.uploads) = << >> THEN {r}
    ELSE {[r EXCEPT !.handles = 0], Taken(r), Indexing(r)}

Finished(r) ==
    IF r.handles = 0 THEN {r}
    ELSE {[r EXCEPT !.handles = 0], Taken(r), Indexing(r)}

\* CL_StopRecord_f.  num is the last message read before.
StopRecordGoesOn(r, num) ==
    IF ~r.recording THEN {r}
    ELSE UNION {Finished(w) :
             w \in Written(r, [kind |-> "trailer", num |-> num])}

StopRecord(r, num) ==
    IF ~r.recording THEN {r}
    ELSE {[f EXCEPT !.recording = FALSE] :
              f \in UNION {Finished(w) :
                  w \in Written(r, [kind |-> "trailer", num |-> num])}}

(***************************************************************************)
(* The messages.                                                           *)
(***************************************************************************)

\* A gamestate: stop the last demo, start one, and write the gamestate.
ReadGamestate ==
    /\ ~gone
    /\ nRead < MaxRead
    /\ nRead' = nRead + 1
    /\ timeBelieved' = FALSE
    /\ \E stopped \in StopRecord(Recorder, nRead) :
           \E r \in Written(Record(stopped),
                            [kind |-> "gamestate", num |-> nRead']) :
               Becomes(r)
    /\ UNCHANGED gone

\* A message is written unless the demo waits for a full snapshot, and a
\* snapshot is that only if its time is believed.
WaitsAfter(kind) == demowaiting /\ ~(kind = "full" /\ timeBelieved')

WrittenMessage(r, kind) ==
    IF r.recording /\ ~r.waiting
    THEN Written(r, [kind |-> kind, num |-> nRead'])
    ELSE {r}

ReadMessage ==
    /\ ~gone
    /\ nRead < MaxRead
    /\ nRead' = nRead + 1
    /\ timeBelieved' \in {timeBelieved, TRUE}
    /\ \E kind \in {"full", "delta", "commands"} :
           \E r \in WrittenMessage(
                        [Recorder EXCEPT !.waiting = WaitsAfter(kind)], kind) :
               Becomes(r)
    /\ UNCHANGED gone

\* The scores of an intermission are among the message's commands: the demo
\* stops, but only when the message is in it (stopRecord).
StoppedFirst(r, kind) ==
    UNION {WrittenMessage(s, kind) : s \in StopRecord(r, nRead')}

WrittenThenStopped(r, kind) ==
    UNION {StopRecord(w, nRead') : w \in WrittenMessage(r, kind)}

ReadScores ==
    /\ ~gone
    /\ nRead < MaxRead
    /\ nRead' = nRead + 1
    /\ timeBelieved' \in {timeBelieved, TRUE}
    /\ \E kind \in {"full", "delta", "commands"} :
           \E r \in WrittenThenStopped(
                        [Recorder EXCEPT !.waiting = WaitsAfter(kind)], kind) :
               Becomes(r)
    /\ UNCHANGED gone

\* The bot leaves (CL_Disconnect_f): nobody left to play, a timeout.
Leave ==
    /\ ~gone
    /\ gone' = TRUE
    /\ \E r \in StopRecord(Recorder, nRead) : Becomes(r)
    /\ UNCHANGED <<timeBelieved, nRead>>

\* The same for a "disconnect" among a message's commands: they are executed
\* before the message would be written.
ReadDisconnect ==
    /\ ~gone
    /\ nRead < MaxRead
    /\ nRead' = nRead + 1
    /\ timeBelieved' \in {timeBelieved, TRUE}
    /\ gone' = TRUE
    /\ \E kind \in {"full", "delta", "commands"} :
           \E r \in StopRecord([Recorder EXCEPT !.waiting = WaitsAfter(kind)],
                               nRead) :
               Becomes(r)

\* CG_MatchIndexFinished: the answer is in, and read or not understood.  The
\* handle is forgotten before it would be cleaned up.
MatchIndexFinished ==
    /\ ~gone
    /\ endmatchCurl # NoDemo
    /\ endmatchCurl' = NoDemo
    /\ UNCHANGED <<gone, timeBelieved, nRead, demorecording, demowaiting,
                   uploads, handle_count, stored, indexed>>

Terminated == gone /\ UNCHANGED vars

Next ==
    \/ ReadGamestate \/ ReadMessage \/ ReadScores \/ ReadDisconnect
    \/ Leave \/ MatchIndexFinished
    \/ Terminated

Spec == Init /\ [][Next]_vars

(***************************************************************************)
(* Properties.                                                             *)
(***************************************************************************)

Ended(body) == body # << >> /\ Last(body).kind = "trailer"

\* As much of a demo as was sent can be played back: a gamestate, then a
\* full snapshot, then every message that was read, none twice and none left
\* out, and nothing after the trailer (CL_Record_f, CL_PacketEvent,
\* CL_StopRecord_f together).
DemoPlays(body) ==
    /\ \A i \in 1 .. Len(body) :
           /\ body[i].kind = "gamestate" <=> i = 1
           /\ body[i].kind = "trailer" => i = Len(body)
    /\ Len(body) >= 2 => body[2].kind \in {"full", "trailer"}
    /\ \A i \in 3 .. Len(body) :
           body[i].num = IF body[i].kind = "trailer" THEN body[i - 1].num
                         ELSE body[i - 1].num + 1

DemosPlay ==
    /\ \A i \in 1 .. Len(uploads) : DemoPlays(uploads[i])
    /\ \A body \in stored : DemoPlays(body)

\* A demo that is indexed is one the web server has taken with its trailer,
\* whatever transfers broke before or since.
IndexedIsComplete ==
    \A demo \in indexed :
        \E body \in stored : Demo(body) = demo /\ Ended(body)

\* The last upload belongs to the demo being recorded, and no other transfer
\* is left running when a demo starts: messages never go to an earlier demo.
RecordsToLast ==
    /\ handle_count = 1 => demorecording
    /\ demorecording /\ Last(uploads) # << >> => ~Ended(Last(uploads))
    /\ \A i \in 1 .. Len(uploads) :
           uploads[i] # << >> => ~\E body \in stored : Demo(body) = Demo(uploads[i])
=============================================================================
