----------------------------- MODULE CommandLog -----------------------------
(***************************************************************************)
(* What the reliable command channel promises: the commands queued form a  *)
(* log, the server executes it from the front, each command once, and a    *)
(* gamestate may throw away commands from the back, but never one that was *)
(* executed.  A broken log (the ring of the code overran) promises         *)
(* nothing.                                                                *)
(***************************************************************************)
EXTENDS Naturals, Sequences

CONSTANTS Texts, AckCmd

VARIABLES log, executed, broken

logVars == <<log, executed, broken>>

Init == log = << >> /\ executed = << >> /\ broken = FALSE

\* A command is queued.
Queue ==
    /\ \E c \in Texts : log' = Append(log, c)
    /\ UNCHANGED <<executed, broken>>

\* A gamestate keeps n commands, all the executed ones among them, and
\* queues its empty command.
Cut ==
    /\ \E n \in Len(executed) .. Len(log) :
           log' = Append(SubSeq(log, 1, n), AckCmd)
    /\ UNCHANGED <<executed, broken>>

\* The server executes the next command.
Execute ==
    /\ Len(executed) < Len(log)
    /\ executed' = Append(executed, log[Len(executed) + 1])
    /\ UNCHANGED <<log, broken>>

Next == Queue \/ Cut \/ Execute \/ broken'

Spec == Init /\ [][Next]_logVars
=============================================================================
