-------------------------------- MODULE Dumm --------------------------------
(***************************************************************************)
(* The download daemon (downloader/dumm_downloader/dumm), as far as its    *)
(* code is in the repository: the objects it keeps (mgr-download.cpp) and  *)
(* the state machine each follows (obj-download.cpp).  The threads that    *)
(* transfer the files and the methods on the bus are not in it: they are   *)
(* what these objects are made for.                                        *)
(*                                                                         *)
(* One client is listening, over the bus: signals reach it in order, and   *)
(* only while it is connected.  Of the states that are announced it heeds  *)
(* FINISHED and ERROR alone.                                               *)
(***************************************************************************)
EXTENDS Integers, Sequences

CONSTANTS
    File,       \* the paths a download can be made to
    NoPath,     \* none of them
    MaxIds      \* bound: objects that are created

ASSUME DaemonAssumption == MaxIds \in Nat /\ NoPath \notin File

VARIABLES
    obj,        \* per id: the state of the object, its file, its descriptor
    disk,       \* per path: what is there
    used,       \* the ids given so far, which are never given again
    up,         \* the daemon has its name on the bus
    bus,        \* the client's proxy exists and its handlers are connected
    sig         \* the signals on their way to the client

daemonVars == <<obj, disk, used, up, bus, sig>>

Ids == 1 .. MaxIds
DownloadState == {"INIT", "WAITING", "ACTIVE", "INTERRUPTED", "PAUSED", "ABORTED", "ERROR", "FINISHED"}
NoObject == [state |-> "NONE", file |-> NoPath, fd |-> "closed"]

\* A descriptor stays with the file it was opened for when that is unlinked.
Descriptor == {"closed", "open", "unlinked"}
Object == [state : DownloadState, file : File, fd : Descriptor] \cup {NoObject}
Lost   == [id |-> 0, state |-> "GONE"]    \* NameOwnerChanged
Signal == [id : Ids, state : {"FINISHED", "ERROR"}] \cup {Lost}

DaemonInit ==
    /\ obj = [i \in Ids |-> NoObject] /\ disk = [f \in File |-> "absent"]
    /\ used = 0 /\ up = TRUE /\ bus = FALSE /\ sig = <<>>

-----------------------------------------------------------------------------
\* __stateChangeCheck
NextStates ==
    [INIT        |-> {"INIT", "WAITING", "ERROR", "ABORTED"},
     WAITING     |-> {"WAITING", "ACTIVE", "ABORTED", "ERROR"},
     ACTIVE      |-> DownloadState \ {"INIT"},
     INTERRUPTED |-> {"INTERRUPTED", "ACTIVE", "ERROR", "ABORTED", "WAITING"},
     PAUSED      |-> {"ACTIVE", "ABORTED", "ERROR", "PAUSED", "WAITING"},
     ABORTED     |-> {"ABORTED"},
     ERROR       |-> {"ERROR"},
     FINISHED    |-> {"FINISHED"},
     NONE        |-> {}]

\* handleFd: whoever opens a file locks it, or fails.
Locked(i) == \E j \in Ids \ {i} : obj[j].file = obj[i].file /\ obj[j].fd = "open"

\* The state changeState leads to, and what it does to the object.
Reached(i, new) ==
    IF new \in {"ACTIVE", "PAUSED"} /\ obj[i].fd = "closed" /\ Locked(i) THEN "ERROR" ELSE new

Moved(i, s) ==
    [obj EXCEPT ![i].state = s,
                ![i].fd = IF s \notin {"ACTIVE", "PAUSED"} THEN "closed"
                          ELSE IF @ = "closed" THEN "open" ELSE @]

\* Mutant: the end of a transfer is stored and not announced.
AnnounceErrors(i, s) ==
    sig' = IF bus /\ s = "ERROR" THEN Append(sig, [id |-> i, state |-> s]) ELSE sig

Announce(i, s) ==
    sig' = IF bus /\ s \in {"FINISHED", "ERROR"} THEN Append(sig, [id |-> i, state |-> s]) ELSE sig

ChangeState(i, new) ==
    /\ new \in NextStates[obj[i].state]
    /\ obj' = Moved(i, Reached(i, new))
    /\ Announce(i, Reached(i, new))

-----------------------------------------------------------------------------
\* What the bus methods do: Init and Start (createObj, downloadStart), Abort
\* and Finalize (downloadAbort, releaseObj).  Abort fails in a final state.
Created(o, f) == [o EXCEPT ![used + 1] = [state |-> "WAITING", file |-> f, fd |-> "closed"]]

Released(o, S) == [i \in Ids |-> IF i \in S THEN NoObject ELSE o[i]]

AbortedAndReleased(S) == Released(obj, {i \in S : "ABORTED" \in NextStates[obj[i].state]})

\* The files of F are unlinked by whoever owns their directory.
Unlinked(o, F) ==
    [i \in Ids |-> IF o[i].file \in F /\ o[i].fd = "open" THEN [o[i] EXCEPT !.fd = "unlinked"]
                   ELSE o[i]]
Emptied(F) == [f \in File |-> IF f \in F THEN "absent" ELSE disk[f]]

-----------------------------------------------------------------------------
\* getNextObj and downloadStart on one of the daemon's threads.
Waiting == {i \in Ids : obj[i].state \in {"WAITING", "INTERRUPTED"}}

Take ==
    \E i \in Waiting :
        /\ \A j \in Waiting : i <= j
        /\ ChangeState(i, "ACTIVE")
        /\ disk' = IF ~Locked(i) /\ disk[obj[i].file] = "absent"
                     THEN [disk EXCEPT ![obj[i].file] = "partial"] ELSE disk
        /\ UNCHANGED <<used, up, bus>>

\* A transfer ends (downloadFinish), fails (downloadError) or is interrupted.
Transferred(i) ==
    /\ obj[i].state = "ACTIVE"
    /\ ChangeState(i, "FINISHED")
    /\ disk' = IF obj[i].fd = "open" THEN [disk EXCEPT ![obj[i].file] = "complete"] ELSE disk
    /\ UNCHANGED <<used, up, bus>>

TransferStops(i) ==
    /\ obj[i].state = "ACTIVE"
    /\ \E s \in {"ERROR", "INTERRUPTED"} : ChangeState(i, s)
    /\ UNCHANGED <<disk, used, up, bus>>

\* The daemon ends.  When it is started anew it finds the client's objects in
\* its database and drops them: the client asks for no autoresume.
DaemonDies ==
    /\ up
    /\ up' = FALSE
    /\ obj' = [i \in Ids |-> NoObject]
    /\ sig' = IF bus THEN Append(sig, Lost) ELSE sig
    /\ UNCHANGED <<disk, used, bus>>

DaemonStarts ==
    /\ ~up
    /\ up' = TRUE
    /\ UNCHANGED <<obj, disk, used, bus, sig>>

DaemonTypeOK ==
    /\ obj \in [Ids -> Object]
    /\ disk \in [File -> {"absent", "partial", "complete"}]
    /\ used \in 0 .. MaxIds
    /\ up \in BOOLEAN /\ bus \in BOOLEAN
    /\ sig \in Seq(Signal)

=============================================================================
