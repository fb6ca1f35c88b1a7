--------------------------- MODULE CoreModesProofs --------------------------
(***************************************************************************)
(* Proofs about Core that do not need ServiceMode: types with whatever     *)
(* threads upgrade, and what holds of the service, the main thread alone,  *)
(* even when a file has no url and when the stored state can not be read   *)
(* at a start.                                                             *)
(***************************************************************************)
EXTENDS Core, TLAPS

\* The vocabulary of the actions, which every proof expands.
USE ConfigAssumption, ThreadAssumption, FlagAssumption, BoundAssumption
    DEF Reports, Labels, Config, CoreStates, Threads,
        At, Goto, Fault, NoFault, HasUpdate, CleanUpButFiles,
        status, configs, rp, download, driver, process, persistent

-----------------------------------------------------------------------------
\* With any threads.

TypeInv == TypeOK /\ ArgumentInv

(* No step of any thread leaves the types, and the manager works on a config. *)
LEMMA TypePreserved ==
    ASSUME TypeInv, [ManualNext]_vars
    PROVE  TypeInv'
<1>. USE DEF TypeInv, TypeOK, ArgumentInv
<1>1. CASE UpdateNotification
  <2>1. FlagsOK'
    BY <1>1, Zenon DEF FlagsOK, UpdateNotification, Ask, CleanUp, Break
  <2>. QED  BY <1>1, <2>1 DEF UpdateNotification, Ask, CleanUp, Break
<1>2. CASE CheckUpdates
  <2>1. FlagsOK'
    BY <1>2, Zenon DEF FlagsOK, CheckUpdates, CleanUp
  <2>. QED  BY <1>2, <2>1 DEF CheckUpdates, CleanUp
<1>3. CASE PerformDownload
  <2>1. FlagsOK'
    BY <1>3, Zenon DEF FlagsOK, PerformDownload
  <2>. QED  BY <1>3, <2>1 DEF PerformDownload
<1>4. ASSUME NEW c \in Configs, AvailableConfig(c) PROVE TypeInv'
  <2>1. FlagsOK'
    BY <1>4, Zenon DEF FlagsOK, AvailableConfig, SameUpdate
  <2>. QED  BY <1>4, <2>1 DEF AvailableConfig, SameUpdate
<1>5. CASE SaveConfig
  <2>1. FlagsOK'
    BY <1>5, Zenon DEF FlagsOK, SaveConfig, CleanUp, Break
  <2>. QED  BY <1>5, <2>1 DEF SaveConfig, CleanUp, Break
<1>6. CASE ApplyConfig
  <2>1. FlagsOK'
    BY <1>6, Zenon DEF FlagsOK, ApplyConfig, CleanUp, Break
  <2>. QED  BY <1>6, <2>1 DEF ApplyConfig, CleanUp, Break
<1>7. CASE WaitTrigger
  <2>1. FlagsOK'
    BY <1>7, Zenon DEF FlagsOK, WaitTrigger
  <2>. QED  BY <1>7, <2>1 DEF WaitTrigger
<1>8. CASE StartDownload
  <2>1. FlagsOK'
    BY <1>8, Zenon DEF FlagsOK, StartDownload, ChangeStatus, CleanUp
  <2>. QED  BY <1>8, <2>1 DEF StartDownload, ChangeStatus, CleanUp
<1>9. CASE DownloadUFs
  <2>1. FlagsOK'
    BY <1>9, Zenon DEF FlagsOK, DownloadUFs, ProcessStarts
  <2>. QED  BY <1>9, <2>1 DEF DownloadUFs, ProcessStarts
<1>10. CASE WaitUpgrade
  <2>1. FlagsOK'
    BY <1>10, Zenon DEF FlagsOK, WaitUpgrade, ChangeStatus, CleanUp
  <2>. QED  BY <1>10, <2>1 DEF WaitUpgrade, ChangeStatus, CleanUp
<1>11. CASE DownloadSucceeded
  <2>1. FlagsOK'
    BY <1>11, Zenon DEF FlagsOK, DownloadSucceeded
  <2>. QED  BY <1>11, <2>1 DEF DownloadSucceeded
<1>12. CASE DownloadFailed
  <2>1. FlagsOK'
    BY <1>12, Zenon DEF FlagsOK, DownloadFailed
  <2>. QED  BY <1>12, <2>1 DEF DownloadFailed
<1>13. CASE Reject
  <2>1. FlagsOK'
    BY <1>13, Zenon DEF FlagsOK, Reject, ChangeStatus, CleanUp
  <2>. QED  BY <1>13, <2>1 DEF Reject, ChangeStatus, CleanUp
<1>14. CASE DropReject
  <2>1. FlagsOK'
    BY <1>14, Zenon DEF FlagsOK, DropReject, Drop, CleanUp, Break
  <2>. QED  BY <1>14, <2>1 DEF DropReject, Drop, CleanUp, Break
<1>15. CASE BootDownload
  <2>1. FlagsOK'
    BY <1>15, Zenon DEF FlagsOK, BootDownload, CleanUp, Break
  <2>. QED  BY <1>15, <2>1 DEF BootDownload, CleanUp, Break
<1>16. CASE EnterDownload
  <2>1. FlagsOK'
    BY <1>16, Zenon DEF FlagsOK, EnterDownload, ChangeStatus, CleanUp
  <2>. QED  BY <1>16, <2>1 DEF EnterDownload, ChangeStatus, CleanUp
<1>17. CASE NoConfig
  <2>1. FlagsOK'
    BY <1>17, Zenon DEF FlagsOK, NoConfig, ChangeStatus, CleanUp
  <2>. QED  BY <1>17, <2>1 DEF NoConfig, ChangeStatus, CleanUp
<1>18. CASE ResumeDownload
  <2>1. FlagsOK'
    BY <1>18, Zenon DEF FlagsOK, ResumeDownload, ProcessStarts
  <2>. QED  BY <1>18, <2>1 DEF ResumeDownload, ProcessStarts
<1>19. CASE BootUpgrade
  <2>1. FlagsOK'
    BY <1>19, Zenon DEF FlagsOK, BootUpgrade, CleanUp, Break
  <2>. QED  BY <1>19, <2>1 DEF BootUpgrade, CleanUp, Break
<1>20. CASE BootIdle
  <2>1. FlagsOK'
    BY <1>20, Zenon DEF FlagsOK, BootIdle, Ask, CleanUp, Break
  <2>. QED  BY <1>20, <2>1 DEF BootIdle, Ask, CleanUp, Break
<1>21. CASE BootUnread
  <2>1. FlagsOK'
    BY <1>21, Zenon DEF FlagsOK, BootUnread
  <2>. QED  BY <1>21, <2>1 DEF BootUnread
<1>22. CASE BootReturns
  <2>1. FlagsOK'
    BY <1>22, Zenon DEF FlagsOK, BootReturns, ProcessStarts
  <2>. QED  BY <1>22, <2>1 DEF BootReturns, ProcessStarts
<1>23. CASE Crash
  <2>1. FlagsOK'
    BY <1>23, Zenon DEF FlagsOK, Crash, ProcessStarts
  <2>. QED  BY <1>23, <2>1 DEF Crash, ProcessStarts
<1>24. CASE Restart
  <2>1. FlagsOK'
    BY <1>24, Zenon DEF FlagsOK, Restart, ProcessStarts
  <2>. QED  BY <1>24, <2>1 DEF Restart, ProcessStarts
<1>25. ASSUME NEW t \in Upgraders, PerformUpgrade(t) PROVE TypeInv'
  <2>1. FlagsOK'
    BY <1>25, Zenon DEF FlagsOK, PerformUpgrade
  <2>. QED  BY <1>25, <2>1 DEF PerformUpgrade
<1>26. ASSUME NEW t \in Threads, BeginApply(t) PROVE TypeInv'
  <2>1. FlagsOK'
    BY <1>26, Zenon DEF FlagsOK, BeginApply, ChangeStatus, CleanUp
  <2>. QED  BY <1>26, <2>1 DEF BeginApply, ChangeStatus, CleanUp
<1>27. ASSUME NEW t \in Threads, BeginResume(t) PROVE TypeInv'
  <2>1. FlagsOK'
    BY <1>27, Zenon DEF FlagsOK, BeginResume, ChangeStatus, CleanUp
  <2>. QED  BY <1>27, <2>1 DEF BeginResume, ChangeStatus, CleanUp
<1>28. ASSUME NEW t \in Threads, RpApply(t) PROVE TypeInv'
  <2>1. FlagsOK'
    BY <1>28, Zenon DEF FlagsOK, RpApply, CleanUp, Break, Unchanged4Rp
  <2>. QED  BY <1>28, <2>1 DEF RpApply, CleanUp, Break, Unchanged4Rp
<1>29. ASSUME NEW t \in Threads, RpResume(t) PROVE TypeInv'
  <2>1. FlagsOK'
    BY <1>29, Zenon DEF FlagsOK, RpResume, CleanUp, Break, Unchanged4Rp
  <2>. QED  BY <1>29, <2>1 DEF RpResume, CleanUp, Break, Unchanged4Rp
<1>30. ASSUME NEW t \in Threads, RpRun(t) PROVE TypeInv'
  <2>1. FlagsOK'
    BY <1>30, Zenon DEF FlagsOK, RpRun, CleanUp, Break, Unchanged4Rp
  <2>. QED  BY <1>30, <2>1 DEF RpRun, CleanUp, Break, Unchanged4Rp
<1>31. ASSUME NEW t \in Threads, RpCommit(t) PROVE TypeInv'
  <2>1. FlagsOK'
    BY <1>31, Zenon DEF FlagsOK, RpCommit, CleanUp, Break, Unchanged4Rp
  <2>. QED  BY <1>31, <2>1 DEF RpCommit, CleanUp, Break, Unchanged4Rp
<1>32. ASSUME NEW t \in Threads, UpgradeDone(t) PROVE TypeInv'
  <2>1. FlagsOK'
    BY <1>32, Zenon DEF FlagsOK, UpgradeDone, ChangeStatus, CleanUp
  <2>. QED  BY <1>32, <2>1 DEF UpgradeDone, ChangeStatus, CleanUp
<1>33. ASSUME NEW t \in Threads, NotifyAfterUpgrade(t) PROVE TypeInv'
  <2>1. FlagsOK'
    BY <1>33, Zenon DEF FlagsOK, NotifyAfterUpgrade
  <2>. QED  BY <1>33, <2>1 DEF NotifyAfterUpgrade
<1>34. ASSUME NEW t \in Threads, Fail(t) PROVE TypeInv'
  <2>1. FlagsOK'
    BY <1>34, Zenon DEF FlagsOK, Fail, ChangeStatus, CleanUp
  <2>. QED  BY <1>34, <2>1 DEF Fail, ChangeStatus, CleanUp
<1>35. ASSUME NEW t \in Threads, DropConfig(t) PROVE TypeInv'
  <2>1. FlagsOK'
    BY <1>35, Zenon DEF FlagsOK, DropConfig, Drop, CleanUp, Break
  <2>. QED  BY <1>35, <2>1 DEF DropConfig, Drop, CleanUp, Break
<1>36. ASSUME NEW t \in Threads, UpdateConfigCache(t) PROVE TypeInv'
  <2>1. FlagsOK'
    BY <1>36, Zenon DEF FlagsOK, UpdateConfigCache, AfterCache
  <2>. QED  BY <1>36, <2>1 DEF UpdateConfigCache, AfterCache
<1>37. ASSUME NEW t \in Threads, RemoveDir(t) PROVE TypeInv'
  <2>1. FlagsOK'
    BY <1>37, Zenon DEF FlagsOK, RemoveDir
  <2>. QED  BY <1>37, <2>1 DEF RemoveDir
<1>38. CASE UNCHANGED vars
  BY <1>38 DEF vars, FlagsOK
<1>. QED  BY <1>1, <1>2, <1>3, <1>4, <1>5, <1>6, <1>7, <1>8, <1>9, <1>10,
             <1>11, <1>12, <1>13, <1>14, <1>15, <1>16, <1>17, <1>18, <1>19,
             <1>20, <1>21, <1>22, <1>23, <1>24, <1>25, <1>26, <1>27, <1>28,
             <1>29, <1>30, <1>31, <1>32, <1>33, <1>34, <1>35, <1>36, <1>37,
             <1>38
          DEF ManualNext, Next, MainStep, UpgradeStep

(* So it is in the factory state. *)
LEMMA InitType ==
    ASSUME Init
    PROVE  TypeInv
<1>. USE DEF Init
<1>1. FlagsOK
  BY Zenon DEF FlagsOK
<1>2. TypeOK
  BY <1>1 DEF TypeOK
<1>3. ArgumentInv
  BY DEF ArgumentInv
<1>. QED  BY <1>2, <1>3 DEF TypeInv

(* Whatever threads upgrade, with any config and when the state can not be read: the *)
(* state is of its type, and performUpgrade works on a config.                       *)
THEOREM ManualTypeInvariance == ManualSpec => []TypeInv
<1>1. Init => TypeInv
  BY InitType
<1>2. TypeInv /\ [ManualNext]_vars => TypeInv'
  BY TypePreserved
<1>. QED  BY <1>1, <1>2, PTL DEF ManualSpec

(* So it is of the service, whose adapter starts no thread. *)
LEMMA TypeInvariance == Spec => []TypeInv
<1>1. [Next]_vars => [ManualNext]_vars
  BY DEF ManualNext
<1>2. Spec => ManualSpec
  BY <1>1, PTL DEF Spec, ManualSpec
<1>. QED  BY <1>2, ManualTypeInvariance, PTL

(* Type correctness, with the threads of core_performUpgrade and without. *)
THEOREM TypeCorrect == (ManualSpec => []TypeOK) /\ (Spec => []TypeOK)
<1>1. TypeInv => TypeOK
  BY DEF TypeInv
<1>. QED  BY <1>1, ManualTypeInvariance, TypeInvariance, PTL

-----------------------------------------------------------------------------
\* With the main thread alone.

(* The storage of the release package manager is written by it alone, and the version *)
(* that is recorded is that of the update it was handed, because that has run.        *)
LEMMA ManagerWrites ==
    ASSUME TypeInv, [Next]_vars,
           ~ (RpApply(Main) \/ RpRun(Main) \/ RpCommit(Main))
    PROVE  /\ rp' = rp
           /\ pc'[Main] = "rpCommit" /\ ~broken'
                 => At(Main, "rpCommit") /\ arg'[Main] = arg[Main]
<1>. USE DEF TypeInv, TypeOK
<1>. DEFINE Goal == /\ rp' = rp
                    /\ pc'[Main] = "rpCommit" /\ ~broken'
                          => At(Main, "rpCommit") /\ arg'[Main] = arg[Main]
<1>1. CASE UpdateNotification
  BY <1>1 DEF UpdateNotification, Ask, CleanUp, Break
<1>2. CASE CheckUpdates
  BY <1>2 DEF CheckUpdates, CleanUp
<1>3. CASE PerformDownload
  BY <1>3 DEF PerformDownload
<1>4. ASSUME NEW c \in Configs, AvailableConfig(c) PROVE Goal
  BY <1>4 DEF AvailableConfig, SameUpdate
<1>5. CASE SaveConfig
  BY <1>5 DEF SaveConfig, CleanUp, Break
<1>6. CASE ApplyConfig
  BY <1>6 DEF ApplyConfig, CleanUp, Break
<1>7. CASE WaitTrigger
  BY <1>7 DEF WaitTrigger
<1>8. CASE StartDownload
  BY <1>8 DEF StartDownload, ChangeStatus, CleanUp
<1>9. CASE DownloadUFs
  BY <1>9 DEF DownloadUFs, ProcessStarts
<1>10. CASE WaitUpgrade
  BY <1>10 DEF WaitUpgrade, ChangeStatus, CleanUp
<1>11. CASE DownloadSucceeded
  BY <1>11 DEF DownloadSucceeded
<1>12. CASE DownloadFailed
  BY <1>12 DEF DownloadFailed
<1>13. CASE Reject
  BY <1>13 DEF Reject, ChangeStatus, CleanUp
<1>14. CASE DropReject
  BY <1>14 DEF DropReject, Drop, CleanUp, Break
<1>15. CASE BootDownload
  BY <1>15 DEF BootDownload, CleanUp, Break
<1>16. CASE EnterDownload
  BY <1>16 DEF EnterDownload, ChangeStatus, CleanUp
<1>17. CASE NoConfig
  BY <1>17 DEF NoConfig, ChangeStatus, CleanUp
<1>18. CASE ResumeDownload
  BY <1>18 DEF ResumeDownload, ProcessStarts
<1>19. CASE BootUpgrade
  BY <1>19 DEF BootUpgrade, CleanUp, Break
<1>20. CASE BootIdle
  BY <1>20 DEF BootIdle, Ask, CleanUp, Break
<1>21. CASE BootUnread
  BY <1>21 DEF BootUnread
<1>22. CASE BootReturns
  BY <1>22 DEF BootReturns, ProcessStarts
<1>23. CASE Crash
  BY <1>23 DEF Crash, ProcessStarts
<1>24. CASE Restart
  BY <1>24 DEF Restart, ProcessStarts
<1>25. CASE BeginApply(Main)
  BY <1>25 DEF BeginApply, ChangeStatus, CleanUp
<1>26. CASE BeginResume(Main)
  BY <1>26 DEF BeginResume, ChangeStatus, CleanUp
<1>27. CASE RpResume(Main)
  BY <1>27 DEF RpResume, CleanUp, Break, Unchanged4Rp
<1>28. CASE UpgradeDone(Main)
  BY <1>28 DEF UpgradeDone, ChangeStatus, CleanUp
<1>29. CASE NotifyAfterUpgrade(Main)
  BY <1>29 DEF NotifyAfterUpgrade
<1>30. CASE Fail(Main)
  BY <1>30 DEF Fail, ChangeStatus, CleanUp
<1>31. CASE DropConfig(Main)
  BY <1>31 DEF DropConfig, Drop, CleanUp, Break
<1>32. CASE UpdateConfigCache(Main)
  BY <1>32 DEF UpdateConfigCache, AfterCache
<1>33. CASE RemoveDir(Main)
  BY <1>33 DEF RemoveDir
<1>34. CASE UNCHANGED vars
  BY <1>34 DEF vars
<1>. QED  BY <1>1, <1>2, <1>3, <1>4, <1>5, <1>6, <1>7, <1>8, <1>9, <1>10,
             <1>11, <1>12, <1>13, <1>14, <1>15, <1>16, <1>17, <1>18, <1>19,
             <1>20, <1>21, <1>22, <1>23, <1>24, <1>25, <1>26, <1>27,
             <1>28, <1>29, <1>30, <1>31, <1>32, <1>33, <1>34
          DEF Next, MainStep, UpgradeStep

(* What changeStatus is for: no other step reports, and none but a start anew changes *)
(* the status that is remembered.                                                    *)
StatusChange ==
    \/ StartDownload \/ WaitUpgrade \/ Reject \/ EnterDownload \/ NoConfig
    \/ BeginApply(Main) \/ BeginResume(Main) \/ UpgradeDone(Main) \/ Fail(Main)

LEMMA OtherSteps ==
    ASSUME TypeInv, [Next]_vars, ~StatusChange
    PROVE  /\ report' = report
           /\ \/ lastState' = "IDLE"
              \/ /\ lastState' = lastState /\ (broken => broken')
                 /\ broken' \/ cache' = cache \/ (~broken /\ pc[Main] \in {"saved", "dropped", "droppedOnly", "boot"})
<1>. USE DEF TypeInv, TypeOK
<1>. DEFINE Goal == /\ report' = report
                    /\ \/ lastState' = "IDLE"
                       \/ /\ lastState' = lastState /\ (broken => broken')
                          /\ broken' \/ cache' = cache \/ (~broken /\ pc[Main] \in {"saved", "dropped", "droppedOnly", "boot"})
<1>1. CASE UpdateNotification
  BY <1>1 DEF UpdateNotification, Ask, CleanUp, Break
<1>2. CASE CheckUpdates
  BY <1>2 DEF CheckUpdates, CleanUp
<1>3. CASE PerformDownload
  BY <1>3 DEF PerformDownload
<1>4. ASSUME NEW c \in Configs, AvailableConfig(c) PROVE Goal
  BY <1>4 DEF AvailableConfig, SameUpdate
<1>5. CASE SaveConfig
  BY <1>5 DEF SaveConfig, CleanUp, Break
<1>6. CASE ApplyConfig
  BY <1>6 DEF ApplyConfig, CleanUp, Break
<1>7. CASE WaitTrigger
  BY <1>7 DEF WaitTrigger
<1>8. CASE DownloadUFs
  BY <1>8 DEF DownloadUFs, ProcessStarts
<1>9. CASE DownloadSucceeded
  BY <1>9 DEF DownloadSucceeded
<1>10. CASE DownloadFailed
  BY <1>10 DEF DownloadFailed
<1>11. CASE DropReject
  BY <1>11 DEF DropReject, Drop, CleanUp, Break
<1>12. CASE BootDownload
  BY <1>12 DEF BootDownload, CleanUp, Break
<1>13. CASE ResumeDownload
  BY <1>13 DEF ResumeDownload, ProcessStarts
<1>14. CASE BootUpgrade
  BY <1>14 DEF BootUpgrade, CleanUp, Break
<1>15. CASE BootIdle
  BY <1>15 DEF BootIdle, Ask, CleanUp, Break
<1>16. CASE BootUnread
  BY <1>16 DEF BootUnread
<1>17. CASE BootReturns
  BY <1>17 DEF BootReturns, ProcessStarts
<1>18. CASE Crash
  BY <1>18 DEF Crash, ProcessStarts
<1>19. CASE Restart
  BY <1>19 DEF Restart, ProcessStarts
<1>20. CASE RpApply(Main)
  BY <1>20 DEF RpApply, CleanUp, Break, Unchanged4Rp
<1>21. CASE RpResume(Main)
  BY <1>21 DEF RpResume, CleanUp, Break, Unchanged4Rp
<1>22. CASE RpRun(Main)
  BY <1>22 DEF RpRun, CleanUp, Break, Unchanged4Rp
<1>23. CASE RpCommit(Main)
  BY <1>23 DEF RpCommit, CleanUp, Break, Unchanged4Rp
<1>24. CASE NotifyAfterUpgrade(Main)
  BY <1>24 DEF NotifyAfterUpgrade
<1>25. CASE DropConfig(Main)
  BY <1>25 DEF DropConfig, Drop, CleanUp, Break
<1>26. CASE UpdateConfigCache(Main)
  BY <1>26 DEF UpdateConfigCache, AfterCache
<1>27. CASE RemoveDir(Main)
  BY <1>27 DEF RemoveDir
<1>28. CASE UNCHANGED vars
  BY <1>28 DEF vars
<1>. QED  BY <1>1, <1>2, <1>3, <1>4, <1>5, <1>6, <1>7, <1>8, <1>9,
             <1>10, <1>11, <1>12, <1>13, <1>14, <1>15, <1>16, <1>17, <1>18,
             <1>19, <1>20, <1>21, <1>22, <1>23, <1>24, <1>25, <1>26,
             <1>27, <1>28
          DEF Next, MainStep, UpgradeStep, StatusChange

(* A change of the status to UPGRADE reports that the update is pending. *)
LEMMA PendingReported ==
    ASSUME TypeInv, StatusChange
    PROVE  /\ report' # report => report'.config = cache
           /\ lastState' = "UPGRADE" =>
                 \/ report' = report /\ lastState = "UPGRADE"
                 \/ report' = [status |-> "PENDING", config |-> cache]
           /\ report' # report /\ lastState' # "UPGRADE" => lastState = "UPGRADE"
           /\ broken' \/ cache' = cache
<1>. USE DEF TypeInv, TypeOK, ChangeStatus, CleanUp
<1>. DEFINE Goal == /\ report' # report => report'.config = cache
                    /\ lastState' = "UPGRADE" =>
                          \/ report' = report /\ lastState = "UPGRADE"
                          \/ report' = [status |-> "PENDING", config |-> cache]
                    /\ report' # report /\ lastState' # "UPGRADE" => lastState = "UPGRADE"
                    /\ broken' \/ cache' = cache
<1>1. CASE StartDownload
  BY <1>1 DEF StartDownload
<1>2. CASE WaitUpgrade
  BY <1>2 DEF WaitUpgrade
<1>3. CASE Reject
  BY <1>3 DEF Reject
<1>4. CASE EnterDownload
  BY <1>4 DEF EnterDownload
<1>5. CASE NoConfig
  BY <1>5 DEF NoConfig
<1>6. CASE BeginApply(Main)
  BY <1>6 DEF BeginApply
<1>7. CASE BeginResume(Main)
  BY <1>7 DEF BeginResume
<1>8. CASE UpgradeDone(Main)
  BY <1>8 DEF UpgradeDone
<1>9. CASE Fail(Main)
  BY <1>9 DEF Fail
<1>. HIDE DEF TypeInv, TypeOK, ChangeStatus, CleanUp
<1>. QED  BY <1>1, <1>2, <1>3, <1>4, <1>5, <1>6, <1>7, <1>8, <1>9 DEF StatusChange

(* A version is recorded only while nothing is pending, and what is pending leads *)
(* from the installed version.                                                    *)
LEMMA RecordPreserved ==
    ASSUME TypeInv, RecordInv, PendingMatchesInstalled, [Next]_vars
    PROVE  RecordInv' /\ PendingMatchesInstalled'
<1>. USE DEF TypeInv, TypeOK, ArgumentInv, RecordInv, PendingMatchesInstalled
<1>1. CASE ~ (RpApply(Main) \/ RpRun(Main) \/ RpCommit(Main))
  BY <1>1, ManagerWrites
<1>2. CASE RpApply(Main)
  BY <1>2 DEF RpApply, CleanUp, Break, Unchanged4Rp
<1>3. CASE RpRun(Main)
  BY <1>3 DEF RpRun, CleanUp, Break, Unchanged4Rp
<1>4. CASE RpCommit(Main)
  BY <1>4 DEF RpCommit, CleanUp, Break, Unchanged4Rp
<1>. QED  BY <1>1, <1>2, <1>3, <1>4

(* A begun update leads from the version that is installed, so that a resume after a *)
(* power loss at any point accepts it, also when the state could not be read at an   *)
(* earlier start, or a file of another update had no url.                            *)
THEOREM PendingMatches == Spec => []PendingMatchesInstalled
<1>1. Init => RecordInv /\ PendingMatchesInstalled
  BY DEF Init, RecordInv, PendingMatchesInstalled
<1>2. TypeInv /\ RecordInv /\ PendingMatchesInstalled /\ [Next]_vars
        => RecordInv' /\ PendingMatchesInstalled'
  BY RecordPreserved
<1>. QED  BY <1>1, <1>2, TypeInvariance, PTL DEF Spec

(* The main thread upgrades in the state UPGRADE only, downloads what it has       *)
(* cached, and never takes a left-over download for that of an update it would     *)
(* apply.                                                                          *)
LEMMA SequentialPreserved ==
    ASSUME TypeInv, SequentialInv, [Next]_vars
    PROVE  SequentialInv'
<1>. USE DEF TypeInv, TypeOK, ArgumentInv, SequentialInv, LeftOverLabels
<1>1. CASE UpdateNotification
  BY <1>1 DEF UpdateNotification, Ask, CleanUp, Break
<1>2. CASE CheckUpdates
  BY <1>2 DEF CheckUpdates, CleanUp
<1>3. CASE PerformDownload
  BY <1>3 DEF PerformDownload
<1>4. ASSUME NEW c \in Configs, AvailableConfig(c) PROVE SequentialInv'
  BY <1>4 DEF AvailableConfig, SameUpdate
<1>5. CASE SaveConfig
  BY <1>5 DEF SaveConfig, CleanUp, Break
<1>6. CASE ApplyConfig
  BY <1>6 DEF ApplyConfig, CleanUp, Break
<1>7. CASE WaitTrigger
  BY <1>7 DEF WaitTrigger
<1>8. CASE StartDownload
  BY <1>8 DEF StartDownload, ChangeStatus, CleanUp
<1>9. CASE DownloadUFs
  BY <1>9 DEF DownloadUFs, ProcessStarts
<1>10. CASE WaitUpgrade
  BY <1>10 DEF WaitUpgrade, ChangeStatus, CleanUp
<1>11. CASE DownloadSucceeded
  BY <1>11 DEF DownloadSucceeded
<1>12. CASE DownloadFailed
  BY <1>12 DEF DownloadFailed
<1>13. CASE Reject
  BY <1>13 DEF Reject, ChangeStatus, CleanUp
<1>14. CASE DropReject
  BY <1>14 DEF DropReject, Drop, CleanUp, Break
<1>15. CASE BootDownload
  BY <1>15 DEF BootDownload, CleanUp, Break
<1>16. CASE EnterDownload
  BY <1>16 DEF EnterDownload, ChangeStatus, CleanUp
<1>17. CASE NoConfig
  BY <1>17 DEF NoConfig, ChangeStatus, CleanUp
<1>18. CASE ResumeDownload
  BY <1>18 DEF ResumeDownload, ProcessStarts
<1>19. CASE BootUpgrade
  BY <1>19 DEF BootUpgrade, CleanUp, Break
<1>20. CASE BootIdle
  BY <1>20 DEF BootIdle, Ask, CleanUp, Break
<1>21. CASE BootUnread
  BY <1>21 DEF BootUnread
<1>22. CASE BootReturns
  BY <1>22 DEF BootReturns, ProcessStarts
<1>23. CASE Crash
  BY <1>23 DEF Crash, ProcessStarts
<1>24. CASE Restart
  BY <1>24 DEF Restart, ProcessStarts
<1>25. CASE BeginApply(Main)
  BY <1>25 DEF BeginApply, ChangeStatus, CleanUp
<1>26. CASE BeginResume(Main)
  BY <1>26 DEF BeginResume, ChangeStatus, CleanUp
<1>27. CASE RpApply(Main)
  BY <1>27 DEF RpApply, CleanUp, Break, Unchanged4Rp
<1>28. CASE RpResume(Main)
  BY <1>28 DEF RpResume, CleanUp, Break, Unchanged4Rp
<1>29. CASE RpRun(Main)
  BY <1>29 DEF RpRun, CleanUp, Break, Unchanged4Rp
<1>30. CASE RpCommit(Main)
  BY <1>30 DEF RpCommit, CleanUp, Break, Unchanged4Rp
<1>31. CASE UpgradeDone(Main)
  BY <1>31 DEF UpgradeDone, ChangeStatus, CleanUp
<1>32. CASE NotifyAfterUpgrade(Main)
  BY <1>32 DEF NotifyAfterUpgrade
<1>33. CASE Fail(Main)
  BY <1>33 DEF Fail, ChangeStatus, CleanUp
<1>34. CASE DropConfig(Main)
  BY <1>34 DEF DropConfig, Drop, CleanUp, Break
<1>35. CASE UpdateConfigCache(Main)
  BY <1>35 DEF UpdateConfigCache, AfterCache
<1>36. CASE RemoveDir(Main)
  BY <1>36 DEF RemoveDir
<1>37. CASE UNCHANGED vars
  BY <1>37 DEF vars
<1>. QED  BY <1>1, <1>2, <1>3, <1>4, <1>5, <1>6, <1>7, <1>8, <1>9, <1>10,
             <1>11, <1>12, <1>13, <1>14, <1>15, <1>16, <1>17, <1>18, <1>19,
             <1>20, <1>21, <1>22, <1>23, <1>24, <1>25, <1>26, <1>27, <1>28,
             <1>29, <1>30, <1>31, <1>32, <1>33, <1>34, <1>35, <1>36, <1>37
          DEF Next, MainStep, UpgradeStep

(* The upgrade procedure of the main thread runs in the state UPGRADE and on the   *)
(* cached config, a download is that of the cached config, and what is applied has *)
(* been downloaded: the statics of core.c say so in every behaviour.               *)
THEOREM SequentialInvariance == Spec => []SequentialInv
<1>1. Init => SequentialInv
  BY DEF Init, SequentialInv
<1>2. TypeInv /\ SequentialInv /\ [Next]_vars => SequentialInv'
  BY SequentialPreserved
<1>. QED  BY <1>1, <1>2, TypeInvariance, PTL DEF Spec

(* An update is begun only with all its files downloaded, also when the stored state *)
(* could not be read, and when a download that no url was given for is left over: the *)
(* success of what is left over leads to an update only for a config that has none.  *)
THEOREM BegunIsDownloaded == Spec => UpgradeNeedsDownload
<1>1. ASSUME TypeInv, SequentialInv, [Next]_vars, rpPending' # rpPending, rpPending' # None
      PROVE  rpPending' \in files
  <2>1. RpApply(Main) \/ RpRun(Main) \/ RpCommit(Main)
    BY <1>1, ManagerWrites
  <2>. QED  BY <1>1, <2>1 DEF RpApply, RpRun, RpCommit, Break, CleanUp, Unchanged4Rp, SequentialInv
<1>2. TypeInv /\ SequentialInv /\ [Next]_vars
        => [rpPending' # rpPending /\ rpPending' # None => rpPending' \in files]_vars
  BY <1>1
<1>. QED  BY <1>2, TypeInvariance, SequentialInvariance, PTL DEF Spec, UpgradeNeedsDownload

(* A success is reported by the end of the upgrade only. *)
LEMMA SuccessReported ==
    ASSUME TypeInv, SequentialInv, StatusChange,
           report' # report, report'.status = "SUCCESS"
    PROVE  UpgradeDone(Main)
<1>. USE DEF TypeInv, TypeOK, SequentialInv, ChangeStatus, CleanUp
<1>1. ~StartDownload /\ ~WaitUpgrade /\ ~Reject
  BY DEF StartDownload, WaitUpgrade, Reject
<1>2. ~EnterDownload /\ ~NoConfig
  BY DEF EnterDownload, NoConfig
<1>3. ~BeginApply(Main) /\ ~BeginResume(Main) /\ ~Fail(Main)
  BY DEF BeginApply, BeginResume, Fail
<1>. QED  BY <1>1, <1>2, <1>3 DEF StatusChange

(* While the main thread upgrades, the config it has reported as pending stays cached. *)
LEMMA ReportPreserved ==
    ASSUME TypeInv, SequentialInv, ReportInv, [Next]_vars
    PROVE  ReportInv'
<1>1. CASE StatusChange
  BY <1>1, PendingReported DEF ReportInv, StatusChange, StartDownload, WaitUpgrade, Reject,
         EnterDownload, NoConfig, BeginApply, BeginResume, UpgradeDone, Fail
<1>2. CASE ~StatusChange
  BY <1>2, OtherSteps DEF ReportInv, SequentialInv
<1>. QED  BY <1>1, <1>2

(* The backend is told of an outcome only of the update it was last told is pending, *)
(* and of a success only when the version it names is installed, also when the state *)
(* could not be read at the start.                                                   *)
THEOREM OutcomeTrue == Spec => OutcomeIsTrue
<1>. DEFINE Step == report' # report /\ report'.status \in Outcome =>
                      /\ report = [status |-> "PENDING", config |-> report'.config]
                      /\ report'.status = "SUCCESS" =>
                            report'.config # None /\ installed = report'.config.to
<1>1. ASSUME TypeInv, SequentialInv, ReportInv, [Next]_vars, report' # report, report'.status \in Outcome
      PROVE  /\ report = [status |-> "PENDING", config |-> report'.config]
             /\ report'.status = "SUCCESS" =>
                   report'.config # None /\ installed = report'.config.to
  <2>1. StatusChange
    BY <1>1, OtherSteps
  <2>2. ~broken
    BY <2>1 DEF StatusChange, StartDownload, WaitUpgrade, Reject, EnterDownload, NoConfig,
           BeginApply, BeginResume, UpgradeDone, Fail
  <2>3. report'.config = cache /\ lastState = "UPGRADE" /\ report.status = "PENDING" /\ report.config = cache
    BY <1>1, <2>1, <2>2, PendingReported DEF ReportInv, Outcome
  <2>4. report = [status |-> "PENDING", config |-> report'.config]
    BY <1>1, <2>3 DEF TypeInv, TypeOK
  <2>5. ASSUME report'.status = "SUCCESS"
        PROVE  report'.config # None /\ installed = report'.config.to
    <3>1. UpgradeDone(Main)
      BY <1>1, <2>1, <2>5, SuccessReported
    <3>. QED  BY <1>1, <2>3, <3>1 DEF UpgradeDone, SequentialInv
  <2>. QED  BY <2>4, <2>5
<1>2. TypeInv /\ SequentialInv /\ ReportInv /\ [Next]_vars => [Step]_vars
  BY <1>1
<1>3. Init => ReportInv
  BY DEF Init, ReportInv
<1>4. TypeInv /\ SequentialInv /\ ReportInv /\ [Next]_vars => ReportInv'
  BY ReportPreserved
<1>. QED  BY <1>2, <1>3, <1>4, TypeInvariance, SequentialInvariance, PTL DEF Spec, OutcomeIsTrue

=============================================================================
