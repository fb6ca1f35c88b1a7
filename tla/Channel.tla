------------------------------ MODULE Channel -------------------------------
(***************************************************************************)
(* What a component that sends over a transport can rely on                *)
(* (threaded_transport.c, msgqueue.c).  Messages wait in a queue in the    *)
(* order they were accepted.  Only the first can leave it: it is delivered *)
(* once, is put behind the others when it could not be sent, or is lost    *)
(* when there is no memory to put it there.  A channel that is closed      *)
(* drops what waits in it, and then accepts and delivers nothing.          *)
(***************************************************************************)
EXTENDS Integers, Sequences

VARIABLES
    accepted,    \* how many messages were accepted: they are numbered so
    waiting,     \* the messages that are not sent yet
    delivered,   \* what the backend has
    closed

channelVars == <<accepted, waiting, delivered, closed>>

Init == accepted = 0 /\ waiting = <<>> /\ delivered = <<>> /\ closed = FALSE

Accept ==
    /\ accepted' = accepted + 1
    /\ waiting' = Append(waiting, accepted + 1)
    /\ UNCHANGED delivered

\* The first message leaves its place.
Deliver  == waiting' = Tail(waiting) /\ delivered' = Append(delivered, Head(waiting))
Postpone == waiting' = Append(Tail(waiting), Head(waiting)) /\ UNCHANGED delivered
Lose     == waiting' = Tail(waiting) /\ UNCHANGED delivered

TryFirst == waiting # <<>> /\ (Deliver \/ Postpone \/ Lose) /\ UNCHANGED accepted

Close == closed' = TRUE /\ waiting' = <<>> /\ UNCHANGED <<accepted, delivered>>

Next ==
    \/ ~closed /\ (Accept \/ TryFirst) /\ UNCHANGED closed
    \/ Close

Spec == Init /\ [][Next]_channelVars

=============================================================================
