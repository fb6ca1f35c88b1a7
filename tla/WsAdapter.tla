----------------------------- MODULE WsAdapter -----------------------------
(***************************************************************************)
(* The driver's side (adapter/ws_adapter/ws_adapter.c) and the requests to *)
(* the backend (core/vbsclient.c).  The websocket thread answers the HMI   *)
(* one request at a time; it reads the core's state without a lock, keeps  *)
(* a percentage it shares with the main thread under one, and asks the     *)
(* backend through the same statics as the main thread does.  The life of  *)
(* an update is what module Core says of it, seen from here.               *)
(***************************************************************************)
EXTENDS Integers

CONSTANTS
    Main, Ws,       \* the threads
    None,
    MaxRequests,    \* bound: requests to the backend
    MaxRestarts     \* bound: ends of the process

Threads == {Main, Ws}

ASSUME ThreadAssumption == Main # Ws
ASSUME BoundAssumption  == MaxRequests \in Nat /\ MaxRestarts \in Nat /\ None \notin Nat

VARIABLES
    state,      \* _lastState of the core
    main,       \* what the main thread is at
    heard,      \* the progress a download of this process has reported
    percentage, \* _ws_updatePercentage
    ready,      \* _readyToDownload
    ws,         \* where handle_civg_request is
    seen,       \* the state it was given by core_getStatus
    count,      \* _recentRPCIdCount
    recentId,   \* _recentRPCId
    at,         \* per thread: where in vbsclient_checkConfig it is
    id,         \* per thread: the number it holds there
    sent,       \* the ids of the requests that were handed to the transport
    lost,       \* history: the ids of those that could not be
    restarts

update  == <<state, main, heard>>
hmi     == <<percentage, ready, ws, seen>>
request == <<count, recentId, at, id, sent, lost>>
vars    == <<update, hmi, request, restarts>>

Init ==
    /\ state = "IDLE" /\ main = "idle" /\ heard = 0
    /\ percentage = 0 /\ ready = FALSE /\ ws = "idle" /\ seen = "IDLE"
    /\ count = 0 /\ recentId = None /\ sent = {} /\ lost = {}
    /\ at = [t \in Threads |-> "none"] /\ id = [t \in Threads |-> 0]
    /\ restarts = 0

-----------------------------------------------------------------------------
\* vbsclient_checkConfig: the count is read, and incremented; the id is written
\* to a static, from which the message is packed; the message is sent.

AskThen(t) == count < MaxRequests /\ at' = [at EXCEPT ![t] = "count"]

Move(t, from, to) == at[t] = from /\ at' = [at EXCEPT ![t] = to]

ReadCount(t) ==
    /\ Move(t, "count", "increment")
    /\ id' = [id EXCEPT ![t] = count]
    /\ UNCHANGED <<count, recentId, sent, lost>>

Increment(t) ==
    /\ Move(t, "increment", "write")
    /\ count' = id[t] + 1
    /\ UNCHANGED <<recentId, id, sent, lost>>

\* Mutant: the message is packed before its id is written.
WriteIdLate(t) ==
    /\ Move(t, "write", "send")
    /\ recentId' = id[t]
    /\ id' = [id EXCEPT ![t] = recentId]
    /\ UNCHANGED <<count, sent, lost>>

WriteId(t) ==
    /\ Move(t, "write", "pack")
    /\ recentId' = id[t]
    /\ UNCHANGED <<count, id, sent, lost>>

Pack(t) ==
    /\ Move(t, "pack", "send")
    /\ id' = [id EXCEPT ![t] = recentId]
    /\ UNCHANGED <<count, recentId, sent, lost>>

\* sendMsg may fail, and nobody looks at what it returns.
Send(t) ==
    /\ Move(t, "send", "none")
    /\ \/ sent' = sent \cup {id[t]} /\ UNCHANGED lost
       \/ lost' = lost \cup {id[t]} /\ UNCHANGED sent
    /\ UNCHANGED <<count, recentId, id>>

Request(t) ==
    /\ ReadCount(t) \/ Increment(t) \/ WriteId(t) \/ Pack(t) \/ Send(t)
    /\ UNCHANGED <<update, hmi, restarts>>

-----------------------------------------------------------------------------
\* The main thread, which does one thing at a time.
MainIdle == main = "idle" /\ at[Main] = "none"

Notified ==
    /\ MainIdle /\ AskThen(Main)
    /\ UNCHANGED <<update, hmi, count, recentId, id, sent, lost, restarts>>

\* handleConfigRPC and availableConfigHandler: an answer to a request but the
\* recent one is obsolete, and one that offers nothing, or what is downloaded,
\* changes nothing seen from here.  An offer that does not match is rejected.
Answered ==
    /\ MainIdle /\ recentId \in sent
    /\ \/ main' = "offered" /\ UNCHANGED state
       \/ state' = "IDLE" /\ UNCHANGED main
    /\ UNCHANGED <<heard, hmi, request, restarts>>

\* applyConfig: the driver's consent is there.
Download ==
    /\ main = "offered" /\ ready
    /\ ready' = FALSE
    /\ state' = "DOWNLOAD" /\ main' = "idle" /\ heard' = 0
    /\ UNCHANGED <<percentage, ws, seen, request, restarts>>

\* ws_downloadProgressHandler: of all the files together.
Progress ==
    /\ MainIdle /\ state = "DOWNLOAD"
    /\ \E p \in {50, 100} :
        p > heard /\ heard' = p /\ percentage' = p \div 2
    /\ UNCHANGED <<state, main, ready, ws, seen, request, restarts>>

\* Assumption on the daemon, which is external: it signals the progress of what it
\* downloads up to the end, before it says that the download has finished.  Nothing
\* in core.c looks at the progress (heard = 100).
Upgrade ==
    /\ MainIdle /\ state = "DOWNLOAD" /\ heard = 100
    /\ state' = "UPGRADE" /\ main' = "upgrading"
    /\ UNCHANGED <<heard, hmi, request, restarts>>

DownloadFails ==
    /\ MainIdle /\ state = "DOWNLOAD"
    /\ state' = "IDLE"
    /\ UNCHANGED <<main, heard, hmi, request, restarts>>

UpgradeSucceeds ==
    /\ main = "upgrading"
    /\ state' = "IDLE" /\ main' = "idle"
    /\ AskThen(Main)
    /\ UNCHANGED <<heard, hmi, count, recentId, id, sent, lost, restarts>>

UpgradeFails ==
    /\ main = "upgrading"
    /\ state' = "IDLE" /\ main' = "idle"
    /\ UNCHANGED <<heard, hmi, request, restarts>>

\* The process is started anew, and core_init takes up what was stored, or fails
\* to.  A resumed download does not know the count of its files, and passes no
\* progress on (downloadmgr_resume).  Ids carry the time, and are not used again.
Restart ==
    /\ restarts < MaxRestarts /\ restarts' = restarts + 1
    /\ state' \in {state, "IDLE"}
    /\ main' = IF state' = "UPGRADE" THEN "upgrading" ELSE "idle"
    /\ heard' = 100
    /\ percentage' = 0 /\ ready' = FALSE /\ ws' = "idle" /\ seen' = "IDLE"
    /\ count' = 0 /\ recentId' = None /\ sent' = {} /\ lost' = {}
    /\ at' = [t \in Threads |-> "none"] /\ id' = [t \in Threads |-> 0]

-----------------------------------------------------------------------------
\* handle_civg_request, one at a time.
WsIdle == ws = "idle" /\ at[Ws] = "none"

\* StartUpdate: the percentage first.
StartUpdate ==
    /\ WsIdle
    /\ percentage' = 1
    /\ ws' = "trigger"
    /\ UNCHANGED <<update, ready, seen, request, restarts>>

\* core_performDownload
Trigger ==
    /\ ws = "trigger"
    /\ ready' = TRUE /\ ws' = "idle"
    /\ UNCHANGED <<update, percentage, seen, request, restarts>>

\* CheckUpdates (core_checkUpdates): the state is looked at, and then asked.
CheckUpdates ==
    /\ WsIdle
    /\ state \notin {"DOWNLOAD", "UPGRADE"}
    /\ AskThen(Ws)
    /\ UNCHANGED <<update, hmi, count, recentId, id, sent, lost, restarts>>

\* GetCarSyncState
GetState ==
    /\ WsIdle
    /\ seen' = state /\ ws' = "adjust"
    /\ UNCHANGED <<update, percentage, ready, request, restarts>>

\* Mutant: fifty counts as an upgrade that ended.
AdjustedFromHalf ==
    CASE seen = "IDLE" /\ percentage >= 50 -> 100
      [] seen = "UPGRADE" /\ percentage \in 50 .. 92 -> percentage + 1
      [] OTHER -> percentage

\* Mutant: no limit below a hundred.
AdjustedOn ==
    CASE seen = "IDLE" /\ percentage > 50 -> 100
      [] seen = "UPGRADE" /\ percentage >= 50 -> percentage + 1
      [] OTHER -> percentage

Adjusted ==
    CASE seen = "IDLE" /\ percentage > 50 -> 100
      [] seen = "UPGRADE" /\ percentage \in 50 .. 92 -> percentage + 1
      [] OTHER -> percentage

Adjust ==
    /\ ws = "adjust"
    /\ percentage' = Adjusted
    /\ ws' = "tell"
    /\ UNCHANGED <<update, ready, seen, request, restarts>>

\* The lock was released in between, and is taken once more to read.
Tell ==
    /\ ws = "tell"
    /\ ws' = "idle" /\ seen' = "IDLE"
    /\ UNCHANGED <<update, percentage, ready, request, restarts>>

-----------------------------------------------------------------------------
Next ==
    \/ \E t \in Threads : Request(t)
    \/ Notified \/ Answered \/ Download \/ Progress \/ Upgrade \/ DownloadFails
    \/ UpgradeSucceeds \/ UpgradeFails \/ Restart
    \/ StartUpdate \/ Trigger \/ CheckUpdates \/ GetState \/ Adjust \/ Tell

Spec == Init /\ [][Next]_vars

-----------------------------------------------------------------------------
Ids == 0 .. MaxRequests

TypeOK ==
    /\ state \in {"IDLE", "DOWNLOAD", "UPGRADE"} /\ seen \in {"IDLE", "DOWNLOAD", "UPGRADE"}
    /\ main \in {"idle", "offered", "upgrading"}
    /\ heard \in {0, 50, 100} /\ percentage \in 0 .. 100
    /\ ready \in BOOLEAN /\ ws \in {"idle", "trigger", "adjust", "tell"}
    /\ count \in Ids \cup {MaxRequests + 1} /\ recentId \in Ids \cup {None}
    /\ at \in [Threads -> {"none", "count", "increment", "write", "pack", "send"}]
    /\ id \in [Threads -> Ids \cup {None}]
    /\ {sent, lost} \subseteq SUBSET (Ids \cup {None})
    /\ restarts \in 0 .. MaxRestarts

\* An HMI that polls is never told of an upgrade that is under way that it is at
\* a hundred percent, whatever the main thread and the driver do between the
\* steps of an answer ("To prevent it from reaching 100 or more, we stop on 93").
\* It rests on the assumption at Upgrade.
NeverHundredWhileUpgrading == ws = "tell" /\ seen = "UPGRADE" => percentage < 100

\* When neither thread is making a request, the id that answers are compared with is
\* one that was sent, however the two mixed up their ids, so that an answer that is
\* heeded can still come: unless sending that very request failed.  (Then an answer
\* that is under way to an earlier one is obsolete, too: vbsclient_checkConfig has
\* written the id before it sends.)
SomeAnswerIsHeeded ==
    recentId # None /\ (\A t \in Threads : at[t] = "none") => recentId \in sent \cup lost

-----------------------------------------------------------------------------
\* The inductive invariant behind these (proved in WsAdapterProofs).

\* The count passes its bound at most once: only one thread is then at it.
Counting(t)  == at[t] \in {"count", "increment"}
OtherThan(t) == Threads \ {t}
CountInv ==
    \A t \in Threads :
        /\ at[t] = "count" =>
              count < MaxRequests \/ (count = MaxRequests /\ \A s \in OtherThan(t) : ~Counting(s))
        /\ at[t] = "increment" =>
              /\ id[t] \in 0 .. MaxRequests
              /\ id[t] < MaxRequests \/ (count = MaxRequests /\ \A s \in OtherThan(t) : ~Counting(s))

\* What the driver is told of an upgrade counts from fifty: what a download has
\* reported before it is at most that, also to a request that began before.
PercentInv ==
    /\ ws \in {"adjust", "tell"} /\ seen = "UPGRADE" => percentage <= 93
    /\ state = "UPGRADE" \/ (state = "DOWNLOAD" /\ heard = 100) =>
          /\ percentage <= 93
          /\ ws = "adjust" /\ seen = "IDLE" => percentage <= 50

\* The main thread asks only when it is idle.
MainInv == main # "idle" => at[Main] = "none"

\* The recent id is sent, or was tried to, or is about to be.
RecentInv ==
    recentId # None =>
        recentId \in sent \cup lost \/ \E t \in Threads : at[t] = "pack" \/ (at[t] = "send" /\ id[t] = recentId)

AdapterInv == TypeOK /\ MainInv /\ CountInv /\ PercentInv /\ RecentInv

=============================================================================
