----------------------------- MODULE CoreProofs -----------------------------
(***************************************************************************)
(* Proofs about Core, for what the service may count on (ServiceMode):     *)
(* CoreInv is inductive, and what the runs check on a few configs follows  *)
(* from it for every set of configs, and any number of power losses and    *)
(* faults.  What does not need that mode is in CoreModesProofs.            *)
(***************************************************************************)
EXTENDS CoreModesProofs

USE ConfigAssumption, ThreadAssumption, FlagAssumption, BoundAssumption
    DEF Reports, Labels, Config, CoreStates, Threads,
        At, Goto, Fault, NoFault, HasUpdate, CleanUpButFiles,
        status, configs, rp, download, driver, process, persistent

(* Every step of the main thread keeps the statics a mirror of the storage: the state *)
(* UPGRADE is stored before an update begins and left after its commit, and a config  *)
(* is dropped in the state IDLE only.                                                 *)
LEMMA ServicePreserved ==
    ASSUME CoreInv, TypeInv, ServiceMode, [Next]_vars
    PROVE  CoreInv'
<1>. DEFINE Kept == /\ MirrorInv /\ UpgradeInv /\ DownloadInv
                    /\ PendingIsResumable /\ PendingMatchesInstalled
                    /\ UpgradeHasConfig /\ DownloadIsStored
<1>0. TypeOK'
  BY TypePreserved DEF TypeInv, ManualNext
<1>. USE DEF CoreInv, TypeOK, ServiceMode, MirrorInv, UpgradeInv, DownloadInv,
            PendingIsResumable, PendingMatchesInstalled, UpgradeHasConfig, DownloadIsStored,
            RpSteps, Removing
<1>1. ASSUME UpdateNotification PROVE Kept'
  BY <1>1 DEF UpdateNotification, Ask, CleanUp, Break
<1>2. ASSUME CheckUpdates PROVE Kept'
  BY <1>2 DEF CheckUpdates, CleanUp
<1>3. ASSUME PerformDownload PROVE Kept'
  BY <1>3 DEF PerformDownload
<1>4. ASSUME NEW c \in Configs, AvailableConfig(c) PROVE Kept'
  BY <1>4 DEF AvailableConfig, SameUpdate
<1>5. ASSUME SaveConfig PROVE Kept'
  BY <1>5 DEF SaveConfig, CleanUp, Break
<1>6. ASSUME ApplyConfig PROVE Kept'
  BY <1>6 DEF ApplyConfig, CleanUp, Break
<1>7. ASSUME WaitTrigger PROVE Kept'
  BY <1>7 DEF WaitTrigger
<1>8. ASSUME StartDownload PROVE Kept'
  BY <1>8 DEF StartDownload, ChangeStatus, CleanUp
<1>9. ASSUME DownloadUFs PROVE Kept'
  BY <1>9 DEF DownloadUFs, ProcessStarts
<1>10. ASSUME WaitUpgrade PROVE Kept'
  BY <1>10 DEF WaitUpgrade, ChangeStatus, CleanUp
<1>11. ASSUME DownloadSucceeded PROVE Kept'
  BY <1>11 DEF DownloadSucceeded
<1>12. ASSUME DownloadFailed PROVE Kept'
  BY <1>12 DEF DownloadFailed
<1>13. ASSUME Reject PROVE Kept'
  BY <1>13 DEF Reject, ChangeStatus, CleanUp
<1>14. ASSUME DropReject PROVE Kept'
  BY <1>14 DEF DropReject, Drop, CleanUp, Break
<1>15. ASSUME BootDownload PROVE Kept'
  BY <1>15 DEF BootDownload, CleanUp, Break
<1>16. ASSUME EnterDownload PROVE Kept'
  BY <1>16 DEF EnterDownload, ChangeStatus, CleanUp
<1>17. ASSUME NoConfig PROVE Kept'
  BY <1>17 DEF NoConfig, ChangeStatus, CleanUp
<1>18. ASSUME ResumeDownload PROVE Kept'
  BY <1>18 DEF ResumeDownload, ProcessStarts
<1>19. ASSUME BootUpgrade PROVE Kept'
  BY <1>19 DEF BootUpgrade, CleanUp, Break
<1>20. ASSUME BootIdle PROVE Kept'
  BY <1>20 DEF BootIdle, Ask, CleanUp, Break
<1>21. ASSUME BootUnread PROVE Kept'
  BY <1>21 DEF BootUnread
<1>22. ASSUME BootReturns PROVE Kept'
  BY <1>22 DEF BootReturns, ProcessStarts
<1>23. ASSUME Crash PROVE Kept'
  BY <1>23 DEF Crash, ProcessStarts
<1>24. ASSUME Restart PROVE Kept'
  BY <1>24 DEF Restart, ProcessStarts
<1>25. ASSUME BeginApply(Main) PROVE Kept'
  BY <1>25 DEF BeginApply, ChangeStatus, CleanUp
<1>26. ASSUME BeginResume(Main) PROVE Kept'
  BY <1>26 DEF BeginResume, ChangeStatus, CleanUp
<1>27. ASSUME RpApply(Main) PROVE Kept'
  BY <1>27 DEF RpApply, CleanUp, Break, Unchanged4Rp
<1>28. ASSUME RpResume(Main) PROVE Kept'
  BY <1>28 DEF RpResume, CleanUp, Break, Unchanged4Rp
<1>29. ASSUME RpRun(Main) PROVE Kept'
  BY <1>29 DEF RpRun, CleanUp, Break, Unchanged4Rp
<1>30. ASSUME RpCommit(Main) PROVE Kept'
  BY <1>30 DEF RpCommit, CleanUp, Break, Unchanged4Rp
<1>31. ASSUME UpgradeDone(Main) PROVE Kept'
  BY <1>31 DEF UpgradeDone, ChangeStatus, CleanUp
<1>32. ASSUME NotifyAfterUpgrade(Main) PROVE Kept'
  BY <1>32 DEF NotifyAfterUpgrade
<1>33. ASSUME Fail(Main) PROVE Kept'
  BY <1>33 DEF Fail, ChangeStatus, CleanUp
<1>34. ASSUME DropConfig(Main) PROVE Kept'
  BY <1>34 DEF DropConfig, Drop, CleanUp, Break
<1>35. ASSUME UpdateConfigCache(Main) PROVE Kept'
  BY <1>35 DEF UpdateConfigCache, AfterCache
<1>36. ASSUME RemoveDir(Main) PROVE Kept'
  BY <1>36 DEF RemoveDir
<1>37. ASSUME UNCHANGED vars PROVE Kept'
  BY <1>37 DEF vars
<1>. QED  BY <1>0, <1>1, <1>2, <1>3, <1>4, <1>5, <1>6, <1>7, <1>8, <1>9, <1>10,
             <1>11, <1>12, <1>13, <1>14, <1>15, <1>16, <1>17, <1>18, <1>19,
             <1>20, <1>21, <1>22, <1>23, <1>24, <1>25, <1>26, <1>27, <1>28,
             <1>29, <1>30, <1>31, <1>32, <1>33, <1>34, <1>35, <1>36, <1>37
          DEF Next, MainStep, UpgradeStep

(* The statics mirror the storage, the upgrade procedure runs in the state UPGRADE *)
(* and the download in the state DOWNLOAD, in every behaviour of the service.      *)
THEOREM CoreInvariance == ASSUME ServiceMode PROVE Spec => []CoreInv
<1>1. Init => CoreInv
  <2>. SUFFICES ASSUME Init PROVE CoreInv
    OBVIOUS
  <2>1. TypeOK
    BY InitType DEF TypeInv
  <2>2. MirrorInv /\ UpgradeInv /\ DownloadInv
    BY DEF Init, MirrorInv, UpgradeInv, DownloadInv, RpSteps, Removing
  <2>3. PendingIsResumable /\ PendingMatchesInstalled /\ UpgradeHasConfig /\ DownloadIsStored
    BY DEF Init, PendingIsResumable, PendingMatchesInstalled, UpgradeHasConfig, DownloadIsStored
  <2>. QED  BY <2>1, <2>2, <2>3 DEF CoreInv
<1>2. CoreInv /\ TypeInv /\ [Next]_vars => CoreInv'
  BY ServicePreserved
<1>. QED  BY <1>1, <1>2, TypeInvariance, PTL DEF Spec

(* An update that was begun and not closed can be resumed after a power loss   *)
(* at any point: core_init finds the state UPGRADE and the config of that very *)
(* update.                                                                     *)
THEOREM PendingResumable == ASSUME ServiceMode PROVE Spec => []PendingIsResumable
<1>1. CoreInv => PendingIsResumable
  BY DEF CoreInv
<1>. QED  BY <1>1, CoreInvariance, PTL

(* No start of the service finds the state UPGRADE without a config, which it  *)
(* answers with the broken state.                                              *)
THEOREM UpgradeConfigPresent == ASSUME ServiceMode PROVE Spec => []UpgradeHasConfig
<1>1. CoreInv => UpgradeHasConfig
  BY DEF CoreInv
<1>. QED  BY <1>1, CoreInvariance, PTL

(* What is downloaded is the update a restart would resume.                    *)
THEOREM DownloadStored == ASSUME ServiceMode PROVE Spec => []DownloadIsStored
<1>1. CoreInv => DownloadIsStored
  BY DEF CoreInv
<1>. QED  BY <1>1, CoreInvariance, PTL

-----------------------------------------------------------------------------
(* What a step is in the record kept with the release package manager.         *)
LEMMA StepIsRecord ==
    ASSUME CoreInv, TypeInv, ServiceMode, [Next]_vars
    PROVE  [Record!Next]_Record!recordVars
<1>1. Main \in Threads
  OBVIOUS
<1>2. /\ DoneUpdate  = IF ~broken /\ pc[Main] = "rpCommit" THEN {arg[Main]} ELSE {}
      /\ DoneUpdate' = IF ~broken' /\ pc'[Main] = "rpCommit" THEN {arg'[Main]} ELSE {}
  BY <1>1 DEF DoneUpdate
<1>. HIDE DEF Threads
<1>3. TypeOK
  BY DEF CoreInv
<1>4. CASE ~ (RpApply(Main) \/ RpRun(Main) \/ RpCommit(Main))
  <2>1. /\ UNCHANGED <<PendingUpdate, installed>>
        /\ DoneUpdate' \in {DoneUpdate, {}}
    BY <1>1, <1>2, <1>4, ManagerWrites DEF PendingUpdate
  <2>2. CASE DoneUpdate' = DoneUpdate
    BY <2>1, <2>2 DEF Record!recordVars
  <2>3. CASE DoneUpdate' # DoneUpdate
    BY <2>1, <2>3 DEF Record!Forget, Record!Next
  <2>. QED  BY <2>2, <2>3
<1>5. CASE RpApply(Main)
  <2>1. DoneUpdate = {} /\ DoneUpdate' = {}
    BY <1>1, <1>2, <1>3, <1>5 DEF RpApply, Unchanged4Rp, Break, CleanUp, TypeOK
  <2>2. CASE UNCHANGED rp
    BY <2>1, <2>2 DEF PendingUpdate, Record!recordVars
  <2>3. CASE rp' # rp
    <3>1. /\ rpPending = None /\ cache \in Configs /\ cache.from = installed
          /\ rpPending' = cache /\ installed' = installed
      BY <1>3, <1>5, <2>3 DEF RpApply, Unchanged4Rp, Break, CleanUp, TypeOK
    <3>2. Record!Accept(cache)
      BY <2>1, <3>1 DEF Record!Accept, PendingUpdate
    <3>. QED  BY <3>1, <3>2 DEF Record!Next
  <2>. QED  BY <2>2, <2>3
<1>6. CASE RpRun(Main)
  <2>1. ~broken /\ pc[Main] = "rpRun" /\ rpPending = arg[Main] /\ rpPending # None
        /\ installed' = installed
    BY <1>1, <1>3, <1>6 DEF RpRun, CoreInv, UpgradeInv, TypeInv, ArgumentInv, Break, CleanUp, Unchanged4Rp
  <2>2. DoneUpdate = {} /\ PendingUpdate = {arg[Main]}
    BY <1>2, <2>1 DEF PendingUpdate
  <2>3. CASE rpPending' = None /\ pc'[Main] = "rpCommit"
    <3>1. DoneUpdate' = {arg[Main]} /\ PendingUpdate' = {}
      BY <1>1, <1>2, <1>3, <1>6, <2>1, <2>3
         DEF RpRun, Unchanged4Rp, Break, CleanUp, PendingUpdate, TypeOK
    <3>. QED  BY <2>1, <2>2, <3>1 DEF Record!Succeed, Record!Next
  <2>4. CASE rpPending' = None /\ pc'[Main] # "rpCommit"
    <3>1. DoneUpdate' = {} /\ PendingUpdate' = {}
      BY <1>2, <2>4 DEF PendingUpdate
    <3>. QED  BY <2>1, <2>2, <3>1 DEF Record!GiveUp, Record!Next
  <2>5. CASE rpPending' # None
    <3>1. broken' /\ rpPending' = rpPending
      BY <1>6, <2>5 DEF RpRun, Break, CleanUp, Unchanged4Rp
    <3>2. UNCHANGED <<DoneUpdate, PendingUpdate>>
      BY <1>2, <2>2, <3>1 DEF PendingUpdate
    <3>. QED  BY <2>1, <3>2 DEF Record!recordVars
  <2>. QED  BY <2>3, <2>4, <2>5
<1>7. CASE RpCommit(Main)
  <2>1. DoneUpdate = {arg[Main]} /\ UNCHANGED PendingUpdate
    BY <1>2, <1>7 DEF RpCommit, Break, CleanUp, Unchanged4Rp, PendingUpdate
  <2>2. CASE ~broken'
    <3>1. installed' = arg[Main].to /\ DoneUpdate' = {}
      BY <1>1, <1>2, <1>3, <1>7, <2>2 DEF RpCommit, Break, CleanUp, Unchanged4Rp, TypeOK
    <3>. QED  BY <2>1, <3>1 DEF Record!Record, Record!Next
  <2>3. CASE broken'
    <3>1. installed' = installed /\ DoneUpdate' = {}
      BY <1>2, <1>7, <2>3 DEF RpCommit, Break, CleanUp, Unchanged4Rp
    <3>. QED  BY <2>1, <3>1 DEF Record!Forget, Record!Next
  <2>. QED  BY <2>2, <2>3
<1>. QED  BY <1>4, <1>5, <1>6, <1>7

(* The service keeps its side of the record: over power losses, failures and    *)
(* overtaking configs the config that core_init resumes an update with is that  *)
(* update's own, nothing is begun while it is pending, and the version that is  *)
(* recorded is that of the update that was installed.                           *)
THEOREM RecordRefined == ASSUME ServiceMode PROVE Spec => RecordKept
<1>1. Init => Record!Init
  BY DEF Init, Record!Init, PendingUpdate, DoneUpdate
<1>2. CoreInv /\ TypeInv /\ [Next]_vars => [Record!Next]_Record!recordVars
  BY StepIsRecord
<1>. QED  BY <1>1, <1>2, CoreInvariance, TypeInvariance, PTL DEF Spec, RecordKept, Record!Spec

(* Where the main thread may be while the service is upgrading. *)
LEMMA WhileUpgrading ==
    ASSUME ServiceMode, CoreInv, Upgrading
    PROVE  pc[Main] \in {"boot", "beginResume", "fail"} \cup RpSteps
  BY DEF CoreInv, TypeOK, MirrorInv, UpgradeInv, Upgrading, Removing, RpSteps

(* What the main thread does on its own while it upgrades brings it on. *)
LEMMA MainAdvances ==
    ASSUME ServiceMode, CoreInv, Upgrading, Upgrading', MainStep
    PROVE  UpgradeLeft' < UpgradeLeft
<1>1. pc[Main] \in {"boot", "beginResume", "fail"} \cup RpSteps
  BY WhileUpgrading
<1>. USE DEF Upgrading
<1>2. CASE pc[Main] = "boot"
  <2>1. BootUpgrade
    BY <1>2 DEF MainStep, SaveConfig, ApplyConfig, WaitTrigger, StartDownload, DownloadUFs, WaitUpgrade,
           Reject, DropReject, BootDownload, EnterDownload, NoConfig, ResumeDownload, BootIdle, BootUnread,
           BootReturns, UpgradeStep, BeginApply, BeginResume, RpApply, RpResume, RpRun, RpCommit,
           UpgradeDone, NotifyAfterUpgrade, Fail, DropConfig, UpdateConfigCache, AfterCache, RemoveDir,
           ServiceMode
  <2>. QED  BY <1>2, <2>1 DEF BootUpgrade, Break, CleanUp, UpgradeLeft, CoreInv, TypeOK
<1>3. CASE pc[Main] # "boot"
  <2>1. BeginResume(Main) \/ RpApply(Main) \/ RpResume(Main) \/ RpRun(Main) \/ RpCommit(Main)
          \/ UpgradeDone(Main) \/ Fail(Main)
    BY <1>1, <1>3 DEF RpSteps, MainStep, SaveConfig, ApplyConfig, WaitTrigger, StartDownload, DownloadUFs,
           WaitUpgrade, Reject, DropReject, BootDownload, EnterDownload, NoConfig, ResumeDownload, BootUpgrade,
           BootIdle, BootUnread, BootReturns, UpgradeStep, BeginApply, NotifyAfterUpgrade, DropConfig,
           UpdateConfigCache, AfterCache, RemoveDir
  <2>2. ~UpgradeDone(Main) /\ ~Fail(Main)
    BY DEF UpgradeDone, Fail, ChangeStatus, CleanUp, CoreInv, TypeOK, MirrorInv
  <2>3. CASE BeginResume(Main)
    BY <2>3 DEF BeginResume, ChangeStatus, CleanUp, UpgradeLeft, CoreInv, TypeOK
  <2>4. CASE RpApply(Main)
    BY <2>4 DEF RpApply, Break, CleanUp, UpgradeLeft, CoreInv, TypeOK
  <2>5. CASE RpResume(Main)
    BY <2>5 DEF RpResume, Break, CleanUp, UpgradeLeft, CoreInv, TypeOK
  <2>6. CASE RpRun(Main)
    BY <2>6 DEF RpRun, Break, CleanUp, UpgradeLeft, CoreInv, TypeOK
  <2>7. CASE RpCommit(Main)
    BY <2>7 DEF RpCommit, Break, CleanUp, UpgradeLeft, CoreInv, TypeOK
  <2>. QED  BY <2>1, <2>2, <2>3, <2>4, <2>5, <2>6, <2>7
<1>. QED  BY <1>2, <1>3

(* And what comes in between leaves the main thread where it is. *)
LEMMA OthersKeep ==
    ASSUME ServiceMode, CoreInv, Upgrading, Upgrading', [Next]_vars, ~MainStep, ~Crash
    PROVE  UNCHANGED pc
<1>1. pc[Main] \in {"boot", "beginResume", "fail"} \cup RpSteps
  BY WhileUpgrading
<1>. USE DEF Upgrading
<1>2. pc[Main] # "idle"
  BY <1>1 DEF RpSteps
<1>3. ~UpdateNotification /\ ~DownloadSucceeded /\ ~DownloadFailed /\ ~ (\E c \in Configs : AvailableConfig(c))
  BY <1>2 DEF UpdateNotification, DownloadSucceeded, DownloadFailed, AvailableConfig
<1>4. ~Restart
  BY DEF Restart
<1>5. CASE CheckUpdates
  BY <1>5 DEF CheckUpdates
<1>6. CASE PerformDownload
  BY <1>6 DEF PerformDownload
<1>7. CASE UNCHANGED vars
  BY <1>7 DEF vars
<1>. QED  BY <1>3, <1>4, <1>5, <1>6, <1>7 DEF Next, ServiceMode

(* What the service needs besides fairness to conclude an upgrade: each step of the  *)
(* main thread brings it nearer to the end, however many are left, and no message,   *)
(* command or failure in between takes it back; only a power loss does, and a start  *)
(* then resumes it (core_init, performUpgrade).                                      *)
THEOREM UpgradeAdvancing == ASSUME ServiceMode PROVE Spec => UpgradeAdvances
<1>. DEFINE Step == Upgrading /\ ~Crash =>
                        ~Upgrading' \/ UpgradeLeft' < UpgradeLeft \/ (~MainStep /\ UNCHANGED pc)
<1>1. ASSUME CoreInv, [Next]_vars, Upgrading, ~Crash, Upgrading'
      PROVE  UpgradeLeft' < UpgradeLeft \/ (~MainStep /\ UNCHANGED pc)
  BY <1>1, MainAdvances, OthersKeep
<1>2. CoreInv /\ [Next]_vars => [Step]_vars
  BY <1>1
<1>. QED  BY <1>2, CoreInvariance, PTL DEF Spec, UpgradeAdvances

-----------------------------------------------------------------------------
\* That it ends, given that the main thread can always go on.

(* No step but a power loss takes an upgrade back, and one of the main thread brings *)
(* it on, from wherever it is.                                                       *)
LEMMA UpgradeComesNearer ==
    ASSUME ServiceMode, CoreInv, Upgrading, Upgrading', [Next]_vars, [~Crash]_vars
    PROVE  /\ UpgradeLeft' <= UpgradeLeft
           /\ <<MainStep>>_vars => UpgradeLeft' < UpgradeLeft
           /\ UpgradeLeft \in 1 .. 6 /\ UpgradeLeft' \in 1 .. 6
<1>1. UpgradeLeft \in 1 .. 6 /\ UpgradeLeft' \in 1 .. 6
  BY DEF UpgradeLeft
<1>2. CASE MainStep
  BY <1>1, <1>2, MainAdvances
<1>3. CASE ~MainStep /\ ~Crash
  <2>1. UpgradeLeft' = UpgradeLeft
    BY <1>3, OthersKeep DEF UpgradeLeft
  <2>. QED  BY <1>1, <1>3, <2>1
<1>4. CASE UNCHANGED vars /\ ~MainStep
  <2>1. UpgradeLeft' = UpgradeLeft
    BY <1>4 DEF vars, UpgradeLeft
  <2>. QED  BY <1>1, <1>4, <2>1
<1>. QED  BY <1>2, <1>3, <1>4

(* So without another power loss it reaches its end. *)
LEMMA UpgradeEnds ==
    ASSUME ServiceMode
    PROVE  /\ []CoreInv /\ [][Next]_vars /\ [][~Crash]_vars
           /\ WF_vars(MainStep) /\ []UpgradeGoesOn
           => (Upgrading ~> ~Upgrading)
<1>. DEFINE Within(k) == ~Upgrading \/ UpgradeLeft <= k
           Stay(k) == CoreInv /\ Upgrading /\ Within(k) /\ [Next]_vars /\ [~Crash]_vars => Within(k)'
           Gain(k, l) == CoreInv /\ Upgrading /\ Within(k) /\ [Next]_vars /\ [~Crash]_vars /\ <<MainStep>>_vars
                           => Within(l)'
<1>1. \A k \in 1 .. 6 : Stay(k) /\ \A l \in 0 .. 5 : k = l + 1 => Gain(k, l)
  BY UpgradeComesNearer
<1>2. /\ Stay(1) /\ Stay(2) /\ Stay(3) /\ Stay(4) /\ Stay(5) /\ Stay(6)
      /\ Gain(1, 0) /\ Gain(2, 1) /\ Gain(3, 2) /\ Gain(4, 3) /\ Gain(5, 4) /\ Gain(6, 5)
  <2>. HIDE DEF Stay, Gain
  <2>. QED  BY <1>1
<1>3. Within(6) /\ (Within(0) => ~Upgrading)
  BY DEF UpgradeLeft
<1>4. UpgradeGoesOn => (Upgrading => ENABLED <<MainStep>>_vars)
  BY DEF UpgradeGoesOn
<1>. QED  BY <1>2, <1>3, <1>4, PTL

(* An upgrade that is under way comes to an end, however often it was interrupted,  *)
(* if power is not lost for ever anew: the service leaves the state UPGRADE or is   *)
(* broken.  That the main thread can always take its next step (UpgradeGoesOn) is a *)
(* hypothesis: it speaks of ENABLED.  TLC finds it in what it checks of this        *)
(* property, since a state in which the main thread is held up could last.          *)
THEOREM UpgradeConcluded ==
    ASSUME ServiceMode
    PROVE  FairSpec /\ []UpgradeGoesOn /\ <>[][~Crash]_vars => UpgradeConcludes
<1>1. Upgrading <=> ~(civgState # "UPGRADE" \/ broken)
  BY DEF Upgrading
<1>2. civgState = "UPGRADE" => Upgrading \/ broken
  BY DEF Upgrading
<1>. QED  BY <1>1, <1>2, UpgradeEnds, CoreInvariance, PTL DEF FairSpec, Spec, UpgradeConcludes

(* Between the consent and the download: only the main thread takes the trigger, and *)
(* then starts the download.                                                        *)
LEMMA ConsentIsKept ==
    ASSUME ServiceMode, CoreInv, Consenting, [Next]_vars
    PROVE  \/ civgState' = "DOWNLOAD" \/ broken' \/ booting'
           \/ Consenting' /\ pc[Main] = "waitTrigger" /\ pc'[Main] = "startDownload"
           \/ Consenting' /\ pc'[Main] = pc[Main] /\ ~MainStep
<1>1. CASE MainStep
  <2>1. pc[Main] \in {"startDownload", "waitTrigger"} /\ ~booting /\ ~broken
    BY DEF Consenting
  <2>2. StartDownload \/ WaitTrigger
    BY <1>1, <2>1 DEF MainStep, SaveConfig, ApplyConfig, DownloadUFs, WaitUpgrade,
           Reject, DropReject, BootDownload, EnterDownload, NoConfig, ResumeDownload, BootUpgrade, BootIdle,
           BootUnread, BootReturns, UpgradeStep, BeginApply, BeginResume, RpApply, RpResume, RpRun, RpCommit,
           UpgradeDone, NotifyAfterUpgrade, Fail, DropConfig, UpdateConfigCache, AfterCache, RemoveDir
  <2>3. CASE StartDownload
    BY <2>3, <2>1 DEF StartDownload, ChangeStatus, CleanUp, CoreInv, TypeOK, MirrorInv
  <2>4. CASE WaitTrigger
    BY <2>4, <2>1 DEF WaitTrigger, Consenting, CoreInv, TypeOK
  <2>. QED  BY <2>2, <2>3, <2>4
<1>2. CASE ~MainStep
  <2>1. pc[Main] \notin {"idle", "boot"} /\ ~booting /\ ~broken
    BY DEF Consenting
  <2>2. ~UpdateNotification /\ ~DownloadSucceeded /\ ~DownloadFailed /\ ~Restart
        /\ ~ \E c \in Configs : AvailableConfig(c)
    BY <2>1 DEF UpdateNotification, DownloadSucceeded, DownloadFailed, AvailableConfig, Restart
  <2>3. CASE CheckUpdates
    BY <1>2, <2>3 DEF CheckUpdates, CleanUp, Consenting
  <2>4. CASE PerformDownload
    BY <1>2, <2>4 DEF PerformDownload, Consenting
  <2>5. CASE Crash
    BY <2>5 DEF Crash, ProcessStarts
  <2>6. CASE UNCHANGED vars
    BY <1>2, <2>6 DEF vars, Consenting
  <2>. QED  BY <1>2, <2>2, <2>3, <2>4, <2>5, <2>6 DEF Next, ServiceMode
<1>. QED  BY <1>1, <1>2

(* A consent the driver gave while the main thread waits for it (core_performDownload, *)
(* the loop of applyConfig) is followed by its download, whatever comes in between,    *)
(* unless the process breaks or ends; with the main thread able to go on, as above.    *)
THEOREM ConsentServed ==
    ASSUME ServiceMode
    PROVE  FairSpec /\ []ConsentGoesOn => ConsentIsServed
<1>. DEFINE Waits  == ~broken /\ ~booting /\ pc[Main] = "waitTrigger" /\ ready
           Starts == ~broken /\ ~booting /\ pc[Main] = "startDownload"
           Served == civgState = "DOWNLOAD" \/ broken \/ booting
<1>1. CoreInv /\ Waits /\ [Next]_vars => Waits' \/ Starts' \/ Served'
  BY ConsentIsKept DEF Consenting
<1>2. CoreInv /\ Waits /\ [Next]_vars /\ <<MainStep>>_vars => Starts' \/ Served'
  BY ConsentIsKept DEF Consenting
<1>3. CoreInv /\ Starts /\ [Next]_vars => Starts' \/ Served'
  BY ConsentIsKept DEF Consenting
<1>4. CoreInv /\ Starts /\ [Next]_vars /\ <<MainStep>>_vars => Served'
  BY ConsentIsKept DEF Consenting
<1>5. ConsentGoesOn => (Waits \/ Starts => ENABLED <<MainStep>>_vars)
  BY DEF ConsentGoesOn, Consenting
<1>6. (pc[Main] = "waitTrigger" /\ ready) => Waits \/ Served
  OBVIOUS
<1>. QED  BY <1>1, <1>2, <1>3, <1>4, <1>5, <1>6, CoreInvariance, PTL DEF FairSpec, Spec, ConsentIsServed

=============================================================================
