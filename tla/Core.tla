------------------------------- MODULE Core --------------------------------
(***************************************************************************)
(* The coordinator (modules/core/core.c): it asks the backend what is      *)
(* available, waits for the driver's consent, downloads, upgrades, reports *)
(* the outcome, and takes up again after a restart what was interrupted.   *)
(*                                                                         *)
(* Threads: the main loop, which runs the handlers of messages and of      *)
(* finished downloads one at a time; the websocket thread, whose commands  *)
(* touch the same statics without a lock; and the threads that             *)
(* core_performUpgrade starts.  A step is one change of the status, one    *)
(* write to the storage or one phase of the release package manager, and   *)
(* the steps of all threads interleave.                                    *)
(*                                                                         *)
(* The release package manager is what RPManager refines (InstallTxn): an  *)
(* update is pending from its acceptance until it is installed or rolled   *)
(* back.  The download manager is what it tells its caller.  Once storage  *)
(* or manager fail for good the process is broken: its storage is closed   *)
(* and nothing it does lasts, until it is restarted.                       *)
(***************************************************************************)
EXTENDS Integers

CONSTANTS
    Main,          \* the main thread
    Upgraders,     \* the threads core_performUpgrade may start
    Configs,       \* the available configs the backend may send
    None,
    LeftOver,      \* downloads that go on although the call that made them failed
    AutoUpgrade,   \* the values of --auto-upgrade it is started with
    AutoDownload,  \* --auto-download
    MissingUrls,   \* a config may lack the url of one of its update files
    UnreadState,   \* a start may fail to read the state that is stored
    MaxCrashes,    \* bound: power losses
    MaxFaults      \* bound: failures of the storage, a download or an update

\* What is told apart of an available config: whether it has an update to
\* offer, and the versions that one leads from and to.
Config == [hasUpdate : BOOLEAN, from : Nat, to : Nat]

ASSUME ConfigAssumption ==
    Configs \subseteq Config /\ None \notin Config \cup {LeftOver} /\ LeftOver \notin Config
ASSUME ThreadAssumption == Main \notin Upgraders
ASSUME FlagAssumption   ==
    /\ AutoUpgrade \subseteq BOOLEAN /\ AutoUpgrade # {}
    /\ {AutoDownload, MissingUrls, UnreadState} \subseteq BOOLEAN
ASSUME BoundAssumption  == MaxCrashes \in Nat /\ MaxFaults \in Nat

Threads == {Main} \cup Upgraders
CoreStates == {"IDLE", "DOWNLOAD", "UPGRADE"}

VARIABLES
    civgState,     \* storage: STATE_KEY
    availConfig,   \* storage: AVAILABLE_CONFIG_KEY
    installed,     \* rpmanager's storage: the installed version
    rpPending,     \* rpmanager's storage: the update it has begun and not closed
    files,         \* WORK_DIR: the updates whose files are there, all of them
    lastState, lastStatus,
    cache,         \* _configCache.config
    ready,         \* _readyToDownload
    dl,            \* what the download manager is downloading
    asked,         \* there is a request whose reply would be accepted
    broken,        \* handleBrokenState was run
    booting,       \* core_init has not returned
    autoUpgrade,   \* _autoUpgrade
    pc, arg,       \* per thread: where it is, and the config it was handed
    report,        \* the last update report to the backend
    consented,     \* history: the driver asked for the update that is waiting
    crashes, faults

persistent == <<civgState, availConfig, installed, rpPending, files>>
status   == <<civgState, lastState, lastStatus, report>>
configs  == <<availConfig, cache>>
rp       == <<installed, rpPending>>
download == <<files, dl>>
driver   == <<ready, consented>>
process  == <<broken, booting, autoUpgrade, crashes>>
vars == <<status, configs, rp, download, driver, asked, process, pc, arg, faults>>

Init ==
    /\ civgState = "IDLE" /\ availConfig = None /\ installed = 0 /\ rpPending = None
    /\ files = {}
    /\ lastState = "IDLE" /\ lastStatus = "OK" /\ cache = None
    /\ ready = FALSE /\ dl = None /\ asked = FALSE /\ broken = FALSE /\ booting = TRUE
    /\ autoUpgrade \in AutoUpgrade
    /\ pc = [t \in Threads |-> IF t = Main THEN "boot" ELSE "idle"]
    /\ arg = [t \in Threads |-> None]
    /\ report = [status |-> "none", config |-> None]
    /\ consented = FALSE /\ crashes = 0 /\ faults = 0

-----------------------------------------------------------------------------
Fault   == faults < MaxFaults /\ faults' = faults + 1
NoFault == UNCHANGED faults

At(t, label) == pc[t] = label /\ ~broken
Goto(t, label) == pc' = [pc EXCEPT ![t] = label]

HasUpdate(c) == c # None /\ c.hasUpdate

\* The process ends, and the service manager starts it anew.
ProcessStarts ==
    /\ lastState' = "IDLE" /\ lastStatus' = "OK" /\ cache' = None
    /\ ready' = FALSE /\ consented' = FALSE /\ dl' = None /\ asked' = FALSE
    /\ broken' = FALSE /\ booting' = TRUE /\ autoUpgrade' \in AutoUpgrade
    /\ pc' = [t \in Threads |-> IF t = Main THEN "boot" ELSE "idle"]
    /\ arg' = [t \in Threads |-> None]
    /\ UNCHANGED <<persistent, report>>

\* handleBrokenState, and the core_cleanup it ends with.
CleanUpButFiles ==
    /\ broken' = TRUE
    /\ lastStatus' = "CRITICAL" /\ cache' = None /\ dl' = None
    /\ UNCHANGED <<availConfig, rp, driver, asked, booting, autoUpgrade, crashes, arg>>

CleanUp == CleanUpButFiles /\ UNCHANGED files

\* Mutant: the broken state becomes the last state.
BreakState(t) == CleanUp /\ Goto(t, "idle") /\ lastState' = "BROKEN" /\ UNCHANGED <<civgState, report>>

Break(t) == CleanUp /\ Goto(t, "idle") /\ UNCHANGED <<civgState, lastState, report>>

\* changeStatus: report, remember and store, but only what is a change.
ChangeStatus(t, state, st, label) ==
    \/ /\ lastState = state /\ lastStatus = st
       /\ NoFault /\ Goto(t, label)
       /\ UNCHANGED <<status, configs, rp, download, driver, asked, process, arg>>
    \/ /\ lastState # state \/ lastStatus # st
       /\ report' = IF state = "UPGRADE" THEN [status |-> "PENDING", config |-> cache]
                    ELSE IF lastState = "UPGRADE"
                      THEN [status |-> IF st = "OK" THEN "SUCCESS" ELSE "FAILURE",
                            config |-> cache]
                      ELSE report
       /\ lastState' = state
       /\ \/ /\ NoFault /\ civgState' = state /\ lastStatus' = st /\ Goto(t, label)
             /\ UNCHANGED <<configs, rp, download, driver, asked, process, arg>>
          \/ Fault /\ CleanUp /\ Goto(t, "idle") /\ UNCHANGED civgState

-----------------------------------------------------------------------------
\* updateNotificationHandler: for a notification of the backend, for the
\* driver's check, which comes on the websocket thread, and after an upgrade.
Ask(t, label) ==
    \/ /\ NoFault /\ asked' = TRUE /\ Goto(t, label)
       /\ UNCHANGED <<status, configs, rp, download, driver, process, arg>>
    \/ Fault /\ Break(t)

UpdateNotification == At(Main, "idle") /\ ~booting /\ Ask(Main, "idle")

CheckUpdates ==
    /\ ~At(Main, "boot") /\ ~broken
    /\ lastState \notin {"DOWNLOAD", "UPGRADE"}
    /\ \/ /\ NoFault /\ asked' = TRUE
          /\ UNCHANGED <<status, configs, rp, download, driver, process, arg>>
       \/ Fault /\ CleanUp /\ UNCHANGED <<civgState, lastState, report>>
    /\ UNCHANGED pc

\* performUpgrade does not look at what became of its request, and removes the
\* directory of a broken process, too.
NotifyAfterUpgrade(t) ==
    /\ At(t, "notify")
    /\ \/ /\ NoFault /\ asked' = TRUE /\ Goto(t, "drop")
          /\ UNCHANGED <<status, configs, rp, download, driver, process, arg>>
       \/ /\ Fault /\ CleanUpButFiles /\ files' \in {files, {}} /\ Goto(t, "idle")
          /\ UNCHANGED <<civgState, lastState, report>>

\* core_performDownload
PerformDownload ==
    /\ ready' = TRUE
    /\ consented' = (consented \/ pc[Main] = "waitTrigger")
    /\ UNCHANGED <<status, configs, rp, download, asked, process, pc, arg, faults>>

-----------------------------------------------------------------------------
\* availableConfigHandler.  A reply may come late, or twice; one to an older
\* request is ignored before it gets here.
SameUpdate(c) == HasUpdate(cache) /\ HasUpdate(c) /\ cache.from = c.from /\ cache.to = c.to

\* Mutant: the downloads of the previous update are not cancelled.
AvailableConfigAnyway(c) ==
    /\ At(Main, "idle") /\ ~booting /\ asked
    /\ arg' = [arg EXCEPT ![Main] = c]
    /\ NoFault /\ Goto(Main, "saveConfig")
    /\ UNCHANGED <<status, configs, rp, download, driver, asked, process>>

AvailableConfig(c) ==
    /\ At(Main, "idle") /\ ~booting /\ asked
    /\ ~ (lastState = "DOWNLOAD" /\ SameUpdate(c))
    /\ IF lastState = "DOWNLOAD"
         THEN /\ dl' = None
              /\ \/ NoFault /\ files' = {}
                 \/ Fault /\ UNCHANGED files
         ELSE NoFault /\ UNCHANGED download
    /\ arg' = [arg EXCEPT ![Main] = c]
    /\ Goto(Main, "saveConfig")
    /\ UNCHANGED <<status, configs, rp, driver, asked, process>>

\* saveAvailableConfig(availableConfig)
SaveConfig ==
    /\ At(Main, "saveConfig")
    /\ \/ /\ NoFault
          /\ availConfig' = arg[Main]
          /\ Goto(Main, "saved")
          /\ UNCHANGED <<status, cache, rp, download, driver, asked, process, arg>>
       \/ Fault /\ Break(Main)

\* updateConfigCache, the end of saveAvailableConfig: what was stored is read
\* back, and whatever another thread stored since; or nothing can be read.
AfterCache == [saved |-> "applyConfig", dropped |-> "removeDir", droppedOnly |-> "idle"]

UpdateConfigCache(t) ==
    /\ ~broken /\ pc[t] \in DOMAIN AfterCache
    /\ \/ NoFault /\ cache' = availConfig
       \/ Fault /\ cache' = None
    /\ Goto(t, AfterCache[pc[t]])
    /\ UNCHANGED <<status, availConfig, rp, download, driver, asked, process, arg>>

\* saveAvailableConfig(0).  Removing a key that is not there is an error.
Drop(t, label, unneeded) ==
    \/ /\ cache = None
       /\ NoFault /\ Goto(t, unneeded)
       /\ UNCHANGED <<status, configs, rp, download, driver, asked, process, arg>>
    \/ /\ cache # None /\ availConfig # None
       /\ NoFault /\ availConfig' = None /\ Goto(t, label)
       /\ UNCHANGED <<status, cache, rp, download, driver, asked, process, arg>>
    \/ cache # None /\ availConfig = None /\ NoFault /\ Break(t)
    \/ cache # None /\ Fault /\ Break(t)

\* applyConfig, up to the wait.  A config another thread has dropped in the
\* meantime leaves nothing to do.
ApplyConfig ==
    /\ At(Main, "applyConfig")
    /\ \/ /\ NoFault
          /\ Goto(Main, CASE ~HasUpdate(cache)       -> "idle"
                          [] HasUpdate(cache) /\ cache.from # installed -> "reject"
                          [] HasUpdate(cache) /\ cache.from = installed ->
                               IF AutoDownload THEN "startDownload" ELSE "waitTrigger")
          /\ consented' = FALSE
          /\ UNCHANGED <<status, configs, rp, download, ready, asked, process, arg>>
       \/ HasUpdate(cache) /\ Fault /\ Break(Main)

\* Mutant: the trigger is taken back and not served.
WaitTriggerCleared ==
    /\ At(Main, "waitTrigger") /\ ready
    /\ ready' = FALSE
    /\ UNCHANGED <<pc, status, configs, rp, download, consented, asked, process, arg, faults>>

WaitTrigger ==
    /\ At(Main, "waitTrigger") /\ ready
    /\ ready' = FALSE
    /\ Goto(Main, "startDownload")
    /\ UNCHANGED <<status, configs, rp, download, consented, asked, process, arg, faults>>

StartDownload == At(Main, "startDownload") /\ ChangeStatus(Main, "DOWNLOAD", "OK", "downloadUFs")

\* downloadmgr_downloadUFs: each directory it downloads to is emptied first.
\* Without a config to read from the process dies.
DownloadUFs ==
    /\ At(Main, "downloadUFs")
    /\ \/ /\ cache = None /\ NoFault /\ ProcessStarts /\ UNCHANGED crashes
       \/ /\ cache # None
          /\ \/ /\ dl = None /\ NoFault
                /\ dl' = cache /\ files' = files \ {cache} /\ Goto(Main, "idle")
             \/ /\ dl = None /\ Fault
                /\ UNCHANGED dl /\ files' = files \ {cache} /\ Goto(Main, "fail")
             \/ /\ dl = None /\ MissingUrls /\ NoFault
                /\ dl' \in {None, LeftOver} /\ files' = files \ {cache} /\ Goto(Main, "fail")
             \/ /\ dl # None /\ NoFault
                /\ UNCHANGED download /\ Goto(Main, "fail")
          /\ UNCHANGED <<status, configs, rp, driver, asked, process, arg>>

\* downloadFinishedHandler.  What was left over may succeed, too, and with it the
\* download: see DownloadNoUrl in module DownloadMgr's runs.
DownloadSucceeded ==
    /\ At(Main, "idle") /\ ~booting /\ dl # None
    /\ NoFault
    /\ dl' = None
    /\ files' = IF dl = LeftOver THEN files ELSE files \cup {dl}
    /\ Goto(Main, IF autoUpgrade THEN "beginApply" ELSE "waitUpgrade")
    /\ UNCHANGED <<status, configs, rp, driver, asked, process, arg>>

WaitUpgrade == At(Main, "waitUpgrade") /\ ChangeStatus(Main, "IDLE", "OK", "idle")

\* Mutant: the status is not looked at.
DownloadFailedIgnored ==
    /\ At(Main, "idle") /\ ~booting /\ dl # None
    /\ Fault
    /\ dl' = None
    /\ Goto(Main, "beginApply")
    /\ UNCHANGED <<status, configs, rp, files, driver, asked, process, arg>>

DownloadFailed ==
    /\ At(Main, "idle") /\ ~booting /\ dl # None
    /\ IF dl = LeftOver THEN NoFault ELSE Fault
    /\ dl' = None
    /\ Goto(Main, "fail")
    /\ UNCHANGED <<status, configs, rp, files, driver, asked, process, arg>>

-----------------------------------------------------------------------------
\* Mutant: the state is left as it was.
FailInUpgrade(t) == At(t, "fail") /\ ChangeStatus(t, lastState, "ERROR", "drop")

\* What every failure ends with: the config is dropped and so are the files.
Fail(t)   == At(t, "fail") /\ ChangeStatus(t, "IDLE", "ERROR", "drop")
DropConfig(t) == At(t, "drop") /\ Drop(t, "dropped", "removeDir")

RemoveDir(t) ==
    /\ At(t, "removeDir")
    /\ \/ NoFault /\ files' = {}
       \/ Fault /\ UNCHANGED files
    /\ Goto(t, "idle")
    /\ UNCHANGED <<status, configs, rp, dl, driver, asked, process, arg>>

\* A config that does not match the installed version leaves the files alone.
Reject     == At(Main, "reject") /\ ChangeStatus(Main, "IDLE", "ERROR", "dropOnly")
DropReject == At(Main, "dropOnly") /\ Drop(Main, "droppedOnly", "idle")

-----------------------------------------------------------------------------
\* core_performUpgrade: the status is checked here, and changed by the thread.
PerformUpgrade(t) ==
    /\ t \in Upgraders /\ At(t, "idle")
    /\ lastState = "IDLE" /\ lastStatus = "OK" /\ cache # None
    /\ Goto(t, "beginApply")
    /\ UNCHANGED <<status, configs, rp, download, driver, asked, process, arg, faults>>

\* Mutant: the state is not stored before the update begins.
BeginApplyUnsaved(t) ==
    /\ At(t, "beginApply") /\ NoFault /\ Goto(t, "rpApply")
    /\ UNCHANGED <<status, configs, rp, download, driver, asked, process, arg>>

\* performUpgrade
BeginApply(t)  == At(t, "beginApply") /\ ChangeStatus(t, "UPGRADE", "OK", "rpApply")
BeginResume(t) == At(t, "beginResume") /\ ChangeStatus(t, "UPGRADE", "OK", "rpResume")

Unchanged4Rp == UNCHANGED <<status, configs, download, driver, asked, process>>

\* rpmanager_applyRP.  It may refuse for what is not kept here, too.
RpApply(t) ==
    /\ At(t, "rpApply")
    /\ \/ /\ NoFault
          /\ rpPending = None /\ HasUpdate(cache) /\ cache.from = installed
          /\ rpPending' = cache /\ arg' = [arg EXCEPT ![t] = cache]
          /\ Goto(t, "rpRun")
          /\ Unchanged4Rp /\ UNCHANGED installed
       \/ NoFault /\ Goto(t, "fail") /\ Unchanged4Rp /\ UNCHANGED <<rp, arg>>
       \/ Fault /\ Break(t)

\* rpmanager_resume.  It can fail for good without a new fault: see
\* ResumeRecovers in RPManager.
RpResume(t) ==
    /\ At(t, "rpResume")
    /\ \/ /\ NoFault
          /\ rpPending # None /\ HasUpdate(cache) /\ cache.from = installed
          /\ arg' = [arg EXCEPT ![t] = cache]
          /\ Goto(t, "rpRun")
          /\ Unchanged4Rp /\ UNCHANGED rp
       \/ /\ NoFault
          /\ ~ (rpPending # None /\ HasUpdate(cache) /\ cache.from = installed)
          /\ Goto(t, "fail") /\ Unchanged4Rp /\ UNCHANGED <<rp, arg>>
       \/ rpPending # None /\ NoFault /\ Break(t)
       \/ Fault /\ Break(t)

\* Mutant: the update stays pending although its files are installed.
RpRunStaysPending(t) ==
    /\ At(t, "rpRun")
    /\ NoFault /\ Goto(t, "rpCommit") /\ Unchanged4Rp /\ UNCHANGED <<rp, arg>>

\* The update files are installed, or rolled back, or neither.
RpRun(t) ==
    /\ At(t, "rpRun")
    /\ \/ /\ NoFault
          /\ rpPending' = None /\ Goto(t, "rpCommit")
          /\ Unchanged4Rp /\ UNCHANGED <<installed, arg>>
       \/ /\ Fault
          /\ rpPending' = None /\ Goto(t, "fail")
          /\ Unchanged4Rp /\ UNCHANGED <<installed, arg>>
       \/ Fault /\ Break(t)

\* Mutant: the installed config is not updated.
RpCommitForgets(t) ==
    /\ At(t, "rpCommit")
    /\ NoFault /\ Goto(t, "upgradeDone") /\ Unchanged4Rp /\ UNCHANGED <<rp, arg>>

RpCommit(t) ==
    /\ At(t, "rpCommit")
    /\ \/ /\ NoFault
          /\ installed' = arg[t].to /\ Goto(t, "upgradeDone")
          /\ Unchanged4Rp /\ UNCHANGED <<rpPending, arg>>
       \/ Fault /\ Break(t)

UpgradeDone(t) == At(t, "upgradeDone") /\ ChangeStatus(t, "IDLE", "OK", "notify")

-----------------------------------------------------------------------------
\* core_init.  Whatever it can not set up breaks the process.

\* An interrupted download: the backend is asked for news, too.
BootDownload ==
    /\ At(Main, "boot") /\ civgState = "DOWNLOAD"
    /\ \/ /\ \/ NoFault /\ cache' = availConfig
             \/ Fault /\ cache' = None
          /\ asked' = TRUE
          /\ Goto(Main, IF HasUpdate(cache') THEN "enterDownload" ELSE "noConfig")
          /\ UNCHANGED <<status, availConfig, rp, download, driver, process, arg>>
       \/ Fault /\ Break(Main)

EnterDownload == At(Main, "enterDownload") /\ ChangeStatus(Main, "DOWNLOAD", "OK", "resumeDownload")
NoConfig      == At(Main, "noConfig") /\ ChangeStatus(Main, "IDLE", "ERROR", "idle")

\* downloadmgr_resume: some of the files, or all, may be there already.  Without
\* a config to read from the process dies.
ResumeDownload ==
    /\ At(Main, "resumeDownload")
    /\ \/ /\ cache = None /\ NoFault /\ ProcessStarts /\ UNCHANGED crashes
       \/ /\ cache # None
          /\ \/ NoFault /\ dl' = cache /\ UNCHANGED files /\ Goto(Main, "idle")
             \/ /\ NoFault /\ files' = files \cup {cache} /\ UNCHANGED dl
                /\ Goto(Main, IF autoUpgrade THEN "beginApply" ELSE "waitUpgrade")
             \/ Fault /\ UNCHANGED download /\ Goto(Main, "fail")
          /\ UNCHANGED <<status, configs, rp, driver, asked, process, arg>>

\* Mutant: the interrupted upgrade is left to the next message.
BootUpgradeLater ==
    /\ At(Main, "boot") /\ civgState = "UPGRADE" /\ NoFault
    /\ asked' = TRUE /\ Goto(Main, "idle")
    /\ UNCHANGED <<status, configs, rp, download, driver, process, arg>>

BootUpgrade ==
    /\ At(Main, "boot") /\ civgState = "UPGRADE"
    /\ \/ /\ availConfig # None
          /\ NoFault
          /\ cache' = availConfig
          /\ Goto(Main, "beginResume")
          /\ UNCHANGED <<status, availConfig, rp, download, driver, asked, process, arg>>
       \/ availConfig = None /\ NoFault /\ Break(Main)
       \/ Fault /\ Break(Main)

BootIdle == At(Main, "boot") /\ civgState = "IDLE" /\ Ask(Main, "removeDir")

\* A state that can not be read is taken for one that was never stored.
BootUnread ==
    /\ At(Main, "boot") /\ civgState # "IDLE"
    /\ UnreadState /\ Fault
    /\ asked' = TRUE /\ Goto(Main, "removeDir")
    /\ UNCHANGED <<status, configs, rp, download, driver, process, arg>>

\* main runs its loop only if core_init has returned CORE_STATUS_OK.
BootReturns ==
    /\ booting /\ pc[Main] = "idle"
    /\ NoFault
    /\ \/ /\ lastStatus = "OK"
          /\ booting' = FALSE
          /\ UNCHANGED <<status, configs, rp, download, driver, asked, broken, autoUpgrade, crashes,
                         pc, arg>>
       \/ lastStatus # "OK" /\ ProcessStarts /\ UNCHANGED crashes

Crash ==
    /\ crashes < MaxCrashes
    /\ crashes' = crashes + 1
    /\ ProcessStarts /\ NoFault

\* A broken process that is past its start stays up until someone restarts it.
Restart == broken /\ ~booting /\ ProcessStarts /\ UNCHANGED <<crashes, faults>>

-----------------------------------------------------------------------------
UpgradeStep(t) ==
    \/ BeginApply(t) \/ BeginResume(t)
    \/ RpApply(t) \/ RpResume(t) \/ RpRun(t) \/ RpCommit(t)
    \/ UpgradeDone(t) \/ NotifyAfterUpgrade(t)
    \/ Fail(t) \/ DropConfig(t) \/ UpdateConfigCache(t) \/ RemoveDir(t)

\* What the main thread does on its own once it has begun.
MainStep ==
    \/ SaveConfig \/ ApplyConfig \/ WaitTrigger \/ StartDownload \/ DownloadUFs \/ WaitUpgrade
    \/ Reject \/ DropReject
    \/ BootDownload \/ EnterDownload \/ NoConfig \/ ResumeDownload
    \/ BootUpgrade \/ BootIdle \/ BootUnread \/ BootReturns
    \/ UpgradeStep(Main)

\* The service as it is built: its adapter has the call of core_performUpgrade
\* commented out.
Next ==
    \/ UpdateNotification \/ CheckUpdates \/ PerformDownload
    \/ \E c \in Configs : AvailableConfig(c)
    \/ DownloadSucceeded \/ DownloadFailed
    \/ MainStep
    \/ Crash \/ Restart

Spec == Init /\ [][Next]_vars

\* With callers of core_performUpgrade, and the threads it starts for them.
ManualNext == Next \/ \E t \in Upgraders : PerformUpgrade(t) \/ UpgradeStep(t)

ManualSpec == Init /\ [][ManualNext]_vars

\* The operating system runs the main thread.  Nothing makes a download end, a
\* message come or a driver consent.
FairSpec == Spec /\ WF_vars(MainStep)

-----------------------------------------------------------------------------
Labels == {"idle", "boot", "saveConfig", "saved", "dropped", "droppedOnly", "applyConfig",
           "waitTrigger", "startDownload", "downloadUFs", "waitUpgrade", "reject", "dropOnly", "fail", "drop", "removeDir",
           "beginApply", "beginResume", "rpApply", "rpResume", "rpRun", "rpCommit",
           "upgradeDone", "notify", "enterDownload", "noConfig", "resumeDownload"}
Reports == [status : {"none", "PENDING", "SUCCESS", "FAILURE"}, config : Configs \cup {None}]

FlagsOK == {ready, consented, asked, broken, booting, autoUpgrade} \subseteq BOOLEAN

\* The type of the persistent and the volatile state.
TypeOK ==
    /\ FlagsOK
    /\ civgState \in CoreStates /\ lastState \in CoreStates
    /\ lastStatus \in {"OK", "ERROR", "CRITICAL"}
    /\ availConfig \in Configs \cup {None} /\ cache \in Configs \cup {None}
    /\ installed \in Nat /\ rpPending \in Configs \cup {None}
    /\ files \subseteq Configs /\ dl \in Configs \cup {None, LeftOver}
    /\ pc \in [Threads -> Labels] /\ arg \in [Threads -> Configs \cup {None}]
    /\ report \in Reports
    /\ crashes \in 0 .. MaxCrashes /\ faults \in 0 .. MaxFaults

\* An update the release package manager has begun and not closed can always be
\* resumed: the state from which core_init resumes it is stored, and so is the
\* config of that very update.
PendingIsResumable == rpPending # None => civgState = "UPGRADE" /\ availConfig = rpPending

\* A pending update leads from the installed version, so that a resume accepts it.
\* (Of the service, where the manager is called by one thread: nothing in core.c
\* keeps two threads out of it.)
PendingMatchesInstalled ==
    rpPending # None => HasUpdate(rpPending) /\ rpPending.from = installed

\* core_init never finds an interrupted upgrade without a config, which it can
\* only answer with the broken state, at every start anew.
UpgradeHasConfig == civgState = "UPGRADE" => availConfig # None

\* core.h: "Perform upgrade procedure if new RP is downloaded."  The service begins an
\* update only with all its files downloaded, across restarts and whatever other
\* updates were offered meanwhile.  (A caller of core_performUpgrade begins one that
\* is not: the state and the cached config it looks at are the same while
\* applyConfig waits for the driver's consent to the download.)
UpgradeNeedsDownload ==
    [][rpPending' # rpPending /\ rpPending' # None => rpPending' \in files]_vars

\* Nothing is downloaded but the update that is stored: a restart resumes the
\* download that was running.
DownloadIsStored == dl # None => dl = availConfig /\ civgState = "DOWNLOAD"

\* The backend is told of an outcome only after it was told, with nothing in
\* between, that this very update is pending, also when a power loss, a retry or
\* another config came in between; and of a success only when it is installed.
Outcome == {"SUCCESS", "FAILURE"}
OutcomeIsTrue ==
    [][report' # report /\ report'.status \in Outcome =>
          /\ report = [status |-> "PENDING", config |-> report'.config]
          /\ report'.status = "SUCCESS" =>
                report'.config # None /\ installed = report'.config.to]_vars

\* An upgrade that is under way comes to an end, over restarts too: the service
\* leaves the state, or is broken.
UpgradeConcludes == civgState = "UPGRADE" ~> (civgState # "UPGRADE" \/ broken)

\* What that needs besides fairness: a step of the main thread brings the upgrade
\* nearer to its end, and nothing that comes in between but a power loss undoes it.
Upgrading == civgState = "UPGRADE" /\ ~broken
UpgradeLeft ==
    CASE pc[Main] = "boot"                    -> 6
      [] pc[Main] = "beginResume"             -> 5
      [] pc[Main] \in {"rpApply", "rpResume"} -> 4
      [] pc[Main] = "rpRun"                   -> 3
      [] pc[Main] = "rpCommit"                -> 2
      [] OTHER                                -> 1
UpgradeAdvances ==
    [][Upgrading /\ ~Crash =>
          ~Upgrading' \/ UpgradeLeft' < UpgradeLeft \/ (~MainStep /\ UNCHANGED pc)]_vars

\* And that the main thread is never held up on the way.
UpgradeGoesOn == Upgrading => ENABLED <<MainStep>>_vars

\* The main thread does not sleep on once the driver has consented: unless the
\* process breaks or ends, the state becomes DOWNLOAD.  (Without the consent it
\* sleeps, and handles no message: applyConfig polls the trigger.)
ConsentIsServed ==
    pc[Main] = "waitTrigger" /\ ready ~> civgState = "DOWNLOAD" \/ broken \/ booting

\* Where the main thread is between the consent and the download, and that nothing
\* holds it up there.
Consenting   == ~broken /\ ~booting /\ (pc[Main] = "startDownload" \/ (pc[Main] = "waitTrigger" /\ ready))
ConsentGoesOn == Consenting => ENABLED <<MainStep>>_vars

-----------------------------------------------------------------------------
\* The record that the release package manager and this module keep together.
PendingUpdate == {rpPending} \ {None}
DoneUpdate    == IF At(Main, "rpCommit") THEN {arg[Main]} ELSE {}

Record == INSTANCE InstallRecord WITH Updates <- Configs, pending <- PendingUpdate, done <- DoneUpdate

\* Over power losses, failures and overtaking configs the manager is never called
\* to resume an update with the config of another, nor to begin one while one is
\* pending or while the version of the last is not on record.
RecordKept == Record!Spec

-----------------------------------------------------------------------------
\* The inductive invariants behind these properties (proved in CoreModesProofs
\* and CoreProofs), from what holds whatever threads upgrade to what holds only for
\* the service in ServiceMode.

\* With any threads: an update under way has the config the manager was handed.
ArgumentInv == \A t \in Threads : pc[t] \in {"rpRun", "rpCommit"} => arg[t] # None

\* Without threads but the main one: what the manager is called with, and where the
\* main thread is when it upgrades and downloads, with any config, and when the state
\* could not be read at the start.
RecordInv == At(Main, "rpCommit") => rpPending = None

\* While a left-over download goes on the main thread may be here only.
LeftOverLabels ==
    {"idle", "removeDir", "fail", "drop", "dropped", "dropOnly", "droppedOnly", "saveConfig",
     "saved", "applyConfig", "reject", "waitTrigger", "startDownload", "downloadUFs"}

SequentialInv ==
    /\ ~broken /\ lastState = "UPGRADE"
          => pc[Main] \in {"rpApply", "rpResume", "rpRun", "rpCommit", "upgradeDone", "fail"}
    /\ ~broken /\ pc[Main] \in {"rpRun", "rpCommit", "upgradeDone"}
          => cache # None /\ arg[Main] = cache
    /\ ~broken /\ pc[Main] = "upgradeDone" => installed = arg[Main].to
    /\ ~broken /\ pc[Main] \in {"downloadUFs", "resumeDownload"}
          => lastState = "DOWNLOAD"
    /\ dl \in Configs => ~broken /\ pc[Main] = "idle" /\ lastState = "DOWNLOAD" /\ cache = dl
    /\ dl = LeftOver => /\ ~broken /\ pc[Main] \in LeftOverLabels
                        /\ pc[Main] \in {"idle", "removeDir"} => ~HasUpdate(cache)
    /\ pc[Main] \in {"dropped", "droppedOnly"} => availConfig = None
    /\ ~broken /\ pc[Main] \in {"beginApply", "rpApply"} /\ HasUpdate(cache) => cache \in files

\* While an upgrade is on, the last report says so, and of the config that is cached.
ReportInv ==
    lastState = "UPGRADE" => report.status = "PENDING" /\ (~broken => report.config = cache)

\* What the service may count on: every update file has an url, and the stored state
\* can be read.
ServiceMode == ~MissingUrls /\ ~UnreadState

RpSteps  == {"rpApply", "rpResume", "rpRun", "rpCommit", "upgradeDone"}
Removing == {"drop", "dropped", "dropOnly", "droppedOnly"}

\* The statics follow the storage, but for a start that has not caught up.
MirrorInv ==
    /\ ~broken => /\ pc[Main] \in {"boot", "beginResume", "enterDownload", "noConfig"}
                      => lastState = "IDLE" /\ lastStatus = "OK"
                  /\ pc[Main] \notin {"boot", "beginResume", "enterDownload", "noConfig"}
                      => lastState = civgState
    /\ pc[Main] \in {"enterDownload", "noConfig"} => civgState = "DOWNLOAD"
    /\ pc[Main] = "beginResume" => civgState = "UPGRADE"
    /\ pc[Main] = "boot" => cache = None /\ ~broken
    /\ cache # None /\ pc[Main] \notin {"saved", "dropped", "droppedOnly"} => cache = availConfig
    /\ pc[Main] \in {"dropped", "droppedOnly"} => availConfig = None
    /\ broken => cache = None /\ lastStatus = "CRITICAL"

\* Where the main thread is when the service is upgrading.
UpgradeInv ==
    /\ ~broken /\ lastState = "UPGRADE" => pc[Main] \in RpSteps \cup {"fail"}
    /\ ~broken /\ pc[Main] \in RpSteps => civgState = "UPGRADE" /\ cache # None
    /\ ~broken /\ pc[Main] \in {"beginApply", "beginResume"} => cache # None
    /\ pc[Main] \in Removing => civgState # "UPGRADE"
    /\ ~broken /\ pc[Main] \in {"rpRun", "rpCommit", "upgradeDone"} => arg[Main] = cache
    /\ ~broken /\ pc[Main] = "upgradeDone" => installed = arg[Main].to
    /\ rpPending # None => broken \/ pc[Main] \in {"boot", "beginResume", "rpResume", "rpRun"}
    /\ pc[Main] = "rpRun" /\ ~broken => rpPending = arg[Main]

\* Where the main thread is when files are downloaded, and what they are for.
DownloadInv ==
    /\ dl # None => ~broken /\ pc[Main] = "idle" /\ cache = dl
    /\ ~broken /\ pc[Main] \in {"waitTrigger", "startDownload", "downloadUFs", "enterDownload",
                                "resumeDownload"} => HasUpdate(cache)
    /\ ~broken /\ pc[Main] \in {"downloadUFs", "resumeDownload", "waitUpgrade"}
          => lastState = "DOWNLOAD"
    /\ ~broken /\ pc[Main] \in {"beginApply", "rpApply"} => cache \in files

CoreInv ==
    /\ TypeOK
    /\ MirrorInv
    /\ UpgradeInv
    /\ DownloadInv
    /\ PendingIsResumable
    /\ PendingMatchesInstalled
    /\ UpgradeHasConfig
    /\ DownloadIsStored

-----------------------------------------------------------------------------
\* What the code's own documentation says, and the code does not do.

\* core.h: without auto-download a download "should wait for startDownload call".
\* (A trigger that came when no update was waiting stays, and serves the next.)
ConsentPerUpdate ==
    [][pc[Main] = "waitTrigger" /\ pc'[Main] = "startDownload" => consented]_vars

=============================================================================
