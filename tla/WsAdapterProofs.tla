-------------------------- MODULE WsAdapterProofs --------------------------
(***************************************************************************)
(* The safety properties of WsAdapter, for any bound on the requests and   *)
(* restarts.                                                               *)
(*                                                                         *)
(* The percentage: only an answer that looked at the core when it was idle *)
(* sets a hundred, and only above fifty; the download that comes before an *)
(* upgrade has brought it down to fifty by then, however long ago the      *)
(* answer looked (PercentInv).  The ids: the thread that wrote the recent  *)
(* one last has yet to pack it, or whoever packed it has yet to send it,   *)
(* or it is sent, or sending it has failed (RecentInv).                    *)
(***************************************************************************)
EXTENDS WsAdapter, TLAPS

USE ThreadAssumption, BoundAssumption

\* The steps of a request keep what the driver sees.
LEMMA RequestInductive ==
    ASSUME AdapterInv, NEW t \in Threads, Request(t)
    PROVE  AdapterInv'
<1>. USE DEF AdapterInv, TypeOK, Ids, Request, update, hmi
<1>0. /\ Request(t) /\ TypeOK /\ at[t] \in {"count", "increment", "write", "pack", "send"}
      /\ \A s \in Threads : s # t => at'[s] = at[s]
      /\ at' \in [Threads -> {"none", "count", "increment", "write", "pack", "send"}]
  BY DEF ReadCount, Increment, WriteId, Pack, Send, Move
<1>1. PercentInv' /\ MainInv'
  <2>1. t = Main => main = "idle"
    BY <1>0 DEF MainInv
  <2>. QED  BY <1>0, <2>1 DEF PercentInv, MainInv, Threads
<1>2. CASE ReadCount(t)
  <2>. USE <1>2 DEF ReadCount, Move
  <2>0. count \in 0 .. MaxRequests /\ (count < MaxRequests \/ \A s \in OtherThan(t) : ~Counting(s))
    BY DEF CountInv
  <2>1. TypeOK'
    BY <2>0
  <2>2. CountInv'
    BY DEF CountInv, OtherThan, Counting
  <2>3. RecentInv'
    BY DEF RecentInv
  <2>. QED  BY <1>1, <2>1, <2>2, <2>3
<1>3. CASE Increment(t)
  <2>. USE <1>3 DEF Increment, Move
  <2>1. TypeOK'
    BY DEF CountInv
  <2>2. CountInv'
    <3>1. id[t] \in 0 .. MaxRequests /\ UNCHANGED id /\ count' = id[t] + 1 /\ at'[t] = "write"
      BY DEF CountInv
    <3>2. \A s \in OtherThan(t) : Counting(s) => id[t] < MaxRequests
      BY DEF CountInv
    <3>3. ASSUME NEW s \in Threads, s # t
          PROVE  OtherThan(s) = {t} /\ s \in OtherThan(t) /\ at'[s] = at[s]
      BY <1>0, <3>3 DEF OtherThan, Threads
    <3>. QED  BY <3>1, <3>2, <3>3 DEF CountInv, Counting
  <2>3. RecentInv'
    BY DEF RecentInv
  <2>. QED  BY <1>1, <2>1, <2>2, <2>3
<1>4. CASE WriteId(t)
  <2>. USE <1>4 DEF WriteId, Move
  <2>1. TypeOK'
    OBVIOUS
  <2>2. CountInv'
    BY DEF CountInv, OtherThan, Counting
  <2>3. RecentInv'
    BY DEF RecentInv
  <2>. QED  BY <1>1, <2>1, <2>2, <2>3
<1>5. CASE Pack(t)
  <2>. USE <1>5 DEF Pack, Move
  <2>1. TypeOK'
    <3>. HIDE DEF Ids
    <3>1. UNCHANGED <<count, recentId, sent, lost, state, main, heard, percentage, ready, ws, seen, restarts>>
      OBVIOUS
    <3>2. id \in [Threads -> Ids \cup {None}] /\ recentId \in Ids \cup {None} /\ id' = [id EXCEPT ![t] = recentId]
      OBVIOUS
    <3>3. id' \in [Threads -> Ids \cup {None}]
      BY <3>2
    <3>. QED  BY <1>0, <3>1, <3>3
  <2>2. CountInv'
    BY DEF CountInv, OtherThan, Counting
  <2>3. RecentInv'
    BY DEF RecentInv
  <2>. QED  BY <1>1, <2>1, <2>2, <2>3
<1>6. CASE Send(t)
  <2>. USE <1>6 DEF Send, Move
  <2>1. TypeOK'
    <3>. HIDE DEF Ids
    <3>1. UNCHANGED <<count, recentId, id, state, main, heard, percentage, ready, ws, seen, restarts>>
      OBVIOUS
    <3>2. {sent', lost'} \subseteq SUBSET (Ids \cup {None})
      OBVIOUS
    <3>. QED  BY <1>0, <3>1, <3>2
  <2>2. CountInv'
    BY DEF CountInv, OtherThan, Counting
  <2>3. RecentInv'
    BY DEF RecentInv
  <2>. QED  BY <1>1, <2>1, <2>2, <2>3
<1>. QED  BY <1>2, <1>3, <1>4, <1>5, <1>6

\* A request that begins: one that the count still allows.
LEMMA AskInductive ==
    ASSUME TypeOK, CountInv, RecentInv, NEW t \in Threads, AskThen(t), at[t] = "none",
           UNCHANGED <<count, recentId, id, sent, lost>>
    PROVE  /\ CountInv' /\ RecentInv'
           /\ at' \in [Threads -> {"none", "count", "increment", "write", "pack", "send"}]
<1>. USE DEF TypeOK, Ids, AskThen
<1>1. CountInv'
  BY DEF CountInv, OtherThan, Counting
<1>2. RecentInv'
  BY DEF RecentInv
<1>. QED  BY <1>1, <1>2

\* The steps of the main thread that begin no request.
LEMMA MainInductive ==
    ASSUME AdapterInv,
           Answered \/ Download \/ Progress \/ Upgrade \/ DownloadFails \/ UpgradeFails
    PROVE  AdapterInv'
<1>. USE DEF AdapterInv, Answered, Download, Progress, Upgrade, DownloadFails, UpgradeFails, MainIdle, hmi, request
<1>1. UNCHANGED <<count, recentId, id, sent, lost, at>>
  OBVIOUS
<1>2. CountInv' /\ RecentInv' /\ MainInv'
  BY <1>1 DEF CountInv, OtherThan, Counting, RecentInv, MainInv
<1>3. TypeOK'
  <2>1. CASE Progress
    BY <2>1 DEF TypeOK, Ids
  <2>2. CASE ~Progress
    <3>1. /\ state' \in {"IDLE", "DOWNLOAD", "UPGRADE"} /\ main' \in {"idle", "offered", "upgrading"}
          /\ heard' \in {0, 50, 100} /\ ready' \in BOOLEAN
          /\ UNCHANGED <<percentage, ws, seen, restarts>>
      BY <2>2 DEF TypeOK
    <3>. QED  BY <1>1, <3>1 DEF TypeOK
  <2>. QED  BY <2>1, <2>2
<1>4. PercentInv'
  BY DEF PercentInv, TypeOK
<1>. QED  BY <1>2, <1>3, <1>4

\* The steps of the websocket thread that begin no request.
LEMMA WsInductive ==
    ASSUME AdapterInv, StartUpdate \/ Trigger \/ GetState \/ Adjust \/ Tell
    PROVE  AdapterInv'
<1>. USE DEF AdapterInv, StartUpdate, Trigger, GetState, Adjust, Tell, WsIdle, update, request
<1>1. UNCHANGED <<count, recentId, id, sent, lost, at>>
  OBVIOUS
<1>2. CountInv' /\ RecentInv' /\ MainInv'
  BY <1>1 DEF CountInv, OtherThan, Counting, RecentInv, MainInv
<1>3. Adjusted \in 0 .. 100 /\ (seen = "UPGRADE" /\ percentage <= 93 => Adjusted <= 93)
      /\ (seen = "IDLE" /\ percentage <= 50 => Adjusted <= 50)
      /\ (seen = "DOWNLOAD" => Adjusted = percentage)
  BY DEF TypeOK, Adjusted
<1>4. TypeOK'
  <2>1. /\ percentage' \in 0 .. 100 /\ ready' \in BOOLEAN /\ ws' \in {"idle", "trigger", "adjust", "tell"}
        /\ seen' \in {"IDLE", "DOWNLOAD", "UPGRADE"} /\ UNCHANGED <<state, main, heard, restarts>>
    <3>1. percentage' \in {percentage, 1, Adjusted} /\ ready' \in {ready, TRUE}
          /\ ws' \in {"idle", "trigger", "adjust", "tell"} /\ seen' \in {seen, state, "IDLE"}
      OBVIOUS
    <3>2. percentage' \in 0 .. 100
      BY <1>3, <3>1 DEF TypeOK
    <3>3. ready' \in BOOLEAN
      BY <3>1 DEF TypeOK
    <3>4. seen' \in {"IDLE", "DOWNLOAD", "UPGRADE"}
      BY <3>1 DEF TypeOK
    <3>5. UNCHANGED <<state, main, heard, restarts>>
      OBVIOUS
    <3>. QED  BY <3>1, <3>2, <3>3, <3>4, <3>5
  <2>. QED  BY <1>1, <2>1 DEF TypeOK
<1>5. PercentInv'
  BY <1>3 DEF PercentInv, TypeOK
<1>. QED  BY <1>2, <1>4, <1>5

\* The steps that begin a request: on a thread that is at none.
LEMMA RequestsInductive ==
    ASSUME AdapterInv, Notified \/ UpgradeSucceeds \/ CheckUpdates
    PROVE  AdapterInv'
<1>. USE DEF AdapterInv, Notified, UpgradeSucceeds, CheckUpdates, MainIdle, WsIdle, update, hmi
<1>1. PICK t \in Threads : AskThen(t) /\ at[t] = "none"
  BY DEF Threads, MainInv
<1>2. UNCHANGED <<count, recentId, id, sent, lost>>
  OBVIOUS
<1>3. /\ CountInv' /\ RecentInv'
      /\ at' \in [Threads -> {"none", "count", "increment", "write", "pack", "send"}]
  BY <1>1, <1>2, AskInductive
<1>4. TypeOK'
  BY <1>2, <1>3 DEF TypeOK, Ids
<1>5. PercentInv' /\ MainInv'
  BY DEF PercentInv, MainInv, AskThen, Threads, TypeOK
<1>. QED  BY <1>3, <1>4, <1>5

\* The process is started anew.
LEMMA RestartInductive ==
    ASSUME AdapterInv, Restart
    PROVE  AdapterInv'
<1>. USE DEF AdapterInv, Restart
<1>1. TypeOK'
  <2>1. /\ state' \in {"IDLE", "DOWNLOAD", "UPGRADE"} /\ main' \in {"idle", "offered", "upgrading"}
        /\ restarts' \in 0 .. MaxRestarts
    BY DEF TypeOK
  <2>2. /\ count' = 0 /\ recentId' = None /\ sent' = {} /\ lost' = {} /\ percentage' = 0
        /\ at' = [t \in Threads |-> "none"] /\ id' = [t \in Threads |-> 0]
    OBVIOUS
  <2>3. 0 \in Ids
    BY DEF Ids
  <2>4. /\ at' \in [Threads -> {"none", "count", "increment", "write", "pack", "send"}]
        /\ id' \in [Threads -> Ids \cup {None}]
    BY <2>2, <2>3
  <2>5. {sent', lost'} \subseteq SUBSET (Ids \cup {None}) /\ recentId' \in Ids \cup {None} /\ count' \in Ids
    BY <2>2, <2>3
  <2>6. ready' \in BOOLEAN
    BY Zenon
  <2>7. /\ percentage' \in 0 .. 100 /\ heard' \in {0, 50, 100}
        /\ seen' \in {"IDLE", "DOWNLOAD", "UPGRADE"} /\ ws' \in {"idle", "trigger", "adjust", "tell"}
    OBVIOUS
  <2>. HIDE DEF Restart
  <2>. QED  BY <2>1, <2>4, <2>5, <2>6, <2>7 DEF TypeOK
<1>2. CountInv' /\ PercentInv' /\ RecentInv' /\ MainInv'
  BY DEF CountInv, PercentInv, RecentInv, MainInv, Threads
<1>. QED  BY <1>1, <1>2

\* What AdapterInv says holds in every state, however the two threads interleave.
THEOREM AdapterInvariance == Spec => []AdapterInv
<1>1. Init => AdapterInv
  <2>. SUFFICES ASSUME Init
                PROVE  AdapterInv
    OBVIOUS
  <2>1. 0 \in Ids
    BY DEF Ids
  <2>2. TypeOK
    <3>1. /\ at \in [Threads -> {"none", "count", "increment", "write", "pack", "send"}]
          /\ id \in [Threads -> Ids \cup {None}]
      BY <2>1 DEF Init
    <3>2. {sent, lost} \subseteq SUBSET (Ids \cup {None}) /\ recentId \in Ids \cup {None} /\ count \in Ids
      BY <2>1 DEF Init
    <3>3. restarts \in 0 .. MaxRestarts /\ percentage \in 0 .. 100 /\ heard \in {0, 50, 100}
      BY DEF Init
    <3>4. ready \in BOOLEAN
      BY Zenon DEF Init
    <3>. QED  BY <3>1, <3>2, <3>3, <3>4 DEF Init, TypeOK
  <2>3. MainInv /\ CountInv /\ PercentInv /\ RecentInv
    BY DEF Init, MainInv, CountInv, PercentInv, RecentInv, Threads
  <2>. QED  BY <2>2, <2>3 DEF AdapterInv
<1>2. AdapterInv /\ [Next]_vars => AdapterInv'
  <2>1. ASSUME AdapterInv, UNCHANGED vars
        PROVE  AdapterInv'
    BY <2>1 DEF AdapterInv, TypeOK, Ids, MainInv, CountInv, OtherThan, Counting, PercentInv, RecentInv,
                vars, update, hmi, request
  <2>. QED  BY <2>1, RequestInductive, MainInductive, WsInductive, RequestsInductive, RestartInductive DEF Next
<1>. QED  BY <1>1, <1>2, PTL DEF Spec

\* The type of the adapter's state: the percentage stays within a hundred, and
\* the ids within their bound.
THEOREM TypeCorrect == Spec => []TypeOK
<1>1. AdapterInv => TypeOK
  BY DEF AdapterInv
<1>. QED  BY <1>1, AdapterInvariance, PTL

\* The driver is never told of an upgrade under way that it is at a hundred
\* percent (GetCarSyncState), whatever the main thread does between its steps.
THEOREM BelowHundred == Spec => []NeverHundredWhileUpgrading
<1>1. AdapterInv => NeverHundredWhileUpgrading
  BY DEF AdapterInv, TypeOK, PercentInv, NeverHundredWhileUpgrading
<1>. QED  BY <1>1, AdapterInvariance, PTL

\* The id that replies are compared with is one that was sent, when neither
\* thread is at a request (vbsclient_checkConfig on two threads), unless sending
\* that request failed.
THEOREM RecentIsSent == Spec => []SomeAnswerIsHeeded
<1>1. AdapterInv => SomeAnswerIsHeeded
  BY DEF AdapterInv, RecentInv, SomeAnswerIsHeeded
<1>. QED  BY <1>1, AdapterInvariance, PTL

=============================================================================
