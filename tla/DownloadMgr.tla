---------------------------- MODULE DownloadMgr ----------------------------
(***************************************************************************)
(* The download manager (core/downloadmgr.c) on the client of the download *)
(* daemon (downloader/dumm_downloader/dumm_downloader.c), with the part of *)
(* the core that calls it (core/core.c).                                   *)
(*                                                                         *)
(* Of every update file the archive (META) is fetched and extracted first; *)
(* what it names (DATA) is fetched next.  The paths of the finished files  *)
(* are kept in storage, so that a restart fetches only the others.  All of *)
(* it runs on the main thread, between which steps the daemon goes on.     *)
(***************************************************************************)
EXTENDS Dumm

CONSTANTS
    Updates,    \* what the backend can offer
    UFs,        \* per update: its update files, in order
    NoUrl,      \* the update files that come without a url
    None,       \* a configuration without an update
    MaxCalls,   \* bound: configurations received
    MaxCrashes, \* bound: ends of the program
    MaxFaults,  \* bound: calls, extractions, transfers and daemons that fail
    MaxEvents   \* bound: all of these together

UfsOf(u) == {UFs[u][k] : k \in DOMAIN UFs[u]}
UF == UNION {UfsOf(u) : u \in Updates}

\* Every update file has a directory of its own below that of its update.
ASSUME UpdatesAssumption ==
    /\ \A u \in Updates :
        /\ UFs[u] \in Seq(UF) /\ UFs[u] # <<>>
        /\ \A j, k \in DOMAIN UFs[u] : UFs[u][j] = UFs[u][k] => j = k
    /\ \A u, v \in Updates : u # v => UfsOf(u) \cap UfsOf(v) = {}
    /\ None \notin Updates
    /\ NoUrl \subseteq UF

ASSUME FileAssumption == File = UF \X {"META", "DATA"}

ASSUME BoundsAssumption ==
    MaxCalls \in Nat /\ MaxCrashes \in Nat /\ MaxFaults \in Nat /\ MaxEvents \in Nat

VARIABLES
    civg,       \* durable: the core's state, as far as it is about downloads
    config,     \* durable: the update of the saved configuration
    slots,      \* durable: DI_PATH_KEY_FORMAT, the paths of the finished files
    size,       \* durable: DI_SIZE_KEY
    extracted,  \* durable: the update files whose archive is extracted
    pc,         \* where the main thread is
    next,       \* index of the loop it is in, 0 in a handler
    after,      \* what follows downloadmgr_cancel or cleanupDownloaded
    target,     \* the configuration a replaced download gives way to
    cur,        \* the path of the item at hand
    booting,    \* core_init has not returned
    items,      \* the download items (_firstItem), in no order that matters
    listed,     \* dumm_downloader's own list of ids
    tracked,    \* history: the updates that were removed or fetched since a removal last failed
    calls, crashes, faults

durable  == <<civg, config, slots, size, extracted>>
place    == <<pc, next, after, target, cur, booting>>
counters == <<tracked, calls, crashes, faults>>
vars     == <<daemonVars, durable, place, items, listed, counters>>

Meta(uf) == <<uf, "META">>
Data(uf) == <<uf, "DATA">>

Item == [file : File, id : 0 .. MaxIds]
HasItem(f) == \E it \in items : it.file = f
ActiveIds == {it.id : it \in items} \ {0}

\* Everything the download needs is on the disk.
Complete(u) ==
    /\ u \in Updates
    /\ \A uf \in UfsOf(u) :
        disk[Meta(uf)] = "complete" /\ disk[Data(uf)] = "complete" /\ uf \in extracted

Init ==
    /\ DaemonInit
    /\ civg = "IDLE" /\ config = None /\ slots = [i \in {} |-> NoPath] /\ size = 0 /\ extracted = {}
    /\ pc = "down" /\ next = 0 /\ after = "done" /\ target = None /\ cur = NoPath
    /\ booting = FALSE
    /\ items = {} /\ listed = {}
    /\ tracked = Updates /\ calls = 0 /\ crashes = 0 /\ faults = 0

Bounded == calls + crashes + faults < MaxEvents

Fault == Bounded /\ faults < MaxFaults /\ faults' = faults + 1

-----------------------------------------------------------------------------
\* Ways on.

GoTo(p) == pc' = p /\ UNCHANGED <<next, after, target, cur, booting>>

CancelThen(a) == pc' = "cancel" /\ after' = a /\ UNCHANGED <<next, target, cur, booting>>

CleanThen(a) == pc' = "clean" /\ next' = 0 /\ after' = a /\ UNCHANGED <<target, cur, booting>>

BackToIdle ==
    /\ pc' = "idle" /\ next' = 0 /\ after' = "done" /\ target' = None /\ cur' = NoPath
    /\ booting' = FALSE

\* Mutants: the first file that ends ends the download, and the last one does not.
SettledAnyway == CleanThen("done")

\* activeDownloads() == 0: everything is there (finalizeDownload(0)).
Settled == IF ActiveIds = {} THEN CleanThen("done") ELSE BackToIdle

\* Mutant: the files stay.
WorkDirKept == UNCHANGED <<obj, disk, extracted, tracked, faults>>

\* filetools_removeDir(WORK_DIR): at what it can not remove it stops, and
\* nobody looks at whether it did.
WorkDirRemoved ==
    \/ /\ obj' = Unlinked(obj, File) /\ disk' = Emptied(File) /\ extracted' = {}
       /\ tracked' = Updates
       /\ UNCHANGED faults
    \/ /\ Fault
       /\ \E F \in SUBSET File : obj' = Unlinked(obj, F) /\ disk' = Emptied(F)
       /\ extracted' \in SUBSET extracted
       /\ tracked' = {}

-----------------------------------------------------------------------------
\* startMetaDownload, startDataDownload and downloader_downloadItem.

\* Mutant: the item has no path yet.
ListingNoPath(f, i) == items' = items \cup {[file |-> NoPath, id |-> i]}

Listing(f, i) == items' = items \cup {[file |-> f, id |-> i]}

\* Mutant: the directory is the one above.
DirectoryAbove(f) == {Meta(f[1]), Data(f[1])}

\* What filetools_makePath removes before it makes the directory.
Directory(f) == IF f[2] = "META" THEN {Meta(f[1]), Data(f[1])} ELSE {f}

\* filetools_makePath when it has removed the files of F, which are all there are
\* unless it fails; nobody looks at whether it did.
PathMade(f, F) ==
    /\ disk' = Emptied(F)
    /\ \/ f[2] = "META" /\ extracted' = extracted \ {f[1]}
       \/ (f[2] = "DATA" \/ F # Directory(f)) /\ UNCHANGED extracted

Started(f) ==
    /\ bus /\ up /\ used < MaxIds
    /\ \E F \in SUBSET Directory(f) :
        /\ PathMade(f, F)
        /\ obj' = Created(Unlinked(obj, F), f)
        /\ IF F = Directory(f) THEN UNCHANGED faults ELSE Fault
    /\ used' = used + 1
    /\ Listing(f, used + 1)
    /\ listed' = listed \cup {used + 1}
    /\ UNCHANGED <<up, bus, sig>>

NotStarted(f) ==
    /\ Listing(f, 0)
    /\ \/ /\ ~bus
          /\ UNCHANGED <<obj, disk, extracted, faults>>
       \/ /\ bus
          /\ \E F \in SUBSET Directory(f) :
              /\ PathMade(f, F)
              /\ obj' = Unlinked(obj, F)
              /\ IF F = Directory(f) /\ ~up THEN UNCHANGED faults ELSE Fault
    /\ UNCHANGED <<used, up, bus, sig, listed>>

StartItem(f, p, n) ==
    /\ \/ Started(f) /\ pc' = p /\ next' = n /\ cur' = NoPath /\ UNCHANGED <<after, target, booting>>
       \/ NotStarted(f) /\ CancelThen("failed")
    /\ UNCHANGED <<civg, config, slots, size, tracked, calls, crashes>>

-----------------------------------------------------------------------------
\* availableConfigHandler: a configuration to download, or one that differs
\* from what is being downloaded; the same one is ignored.

Begin(u) ==
    /\ pc = "idle" /\ civg = "IDLE" /\ Bounded /\ calls < MaxCalls
    /\ civg' = "DOWNLOAD" /\ config' = u /\ calls' = calls + 1
    /\ GoTo("prepare")
    /\ UNCHANGED <<daemonVars, slots, size, extracted, items, listed, tracked, crashes, faults>>

Replace(u) ==
    /\ pc = "idle" /\ civg = "DOWNLOAD" /\ u # config /\ Bounded /\ calls < MaxCalls
    /\ calls' = calls + 1
    /\ pc' = "cancel" /\ after' = "replace" /\ target' = u
    /\ UNCHANGED <<daemonVars, durable, next, cur, booting, items, listed, tracked, crashes, faults>>

Replaced ==
    /\ pc = "replace"
    /\ WorkDirRemoved
    /\ config' = target
    /\ IF target = None THEN BackToIdle ELSE GoTo("prepare")
    /\ UNCHANGED <<used, up, bus, sig, civg, slots, size, items, listed, calls, crashes>>

\* downloadmgr_downloadUFs: what is left of another download refuses this one.
Prepare ==
    /\ pc = "prepare"
    /\ IF items # {}
         THEN GoTo("failed")
         ELSE /\ pc' = "starting" /\ next' = 1 /\ after' = "done" /\ target' = None /\ UNCHANGED <<cur, booting>>
    /\ UNCHANGED <<daemonVars, durable, items, listed, counters>>

\* An update file without a url ends the call, and what it has started goes on.
StartMeta ==
    /\ pc = "starting"
    /\ next \in DOMAIN UFs[config]
    /\ IF UFs[config][next] \in NoUrl
         THEN GoTo("failed") /\ UNCHANGED <<daemonVars, durable, items, listed, counters>>
         ELSE StartItem(Meta(UFs[config][next]), "starting", next + 1)

AllStarted ==
    /\ pc \in {"starting", "resuming"}
    /\ next \notin DOMAIN UFs[config]
    /\ Settled
    /\ UNCHANGED <<daemonVars, durable, items, listed, counters>>

-----------------------------------------------------------------------------
\* downloadmgr_resume, after what restoreDownloadedItems found.

ResumeFile ==
    /\ pc = "resuming"
    /\ next \in DOMAIN UFs[config]
    /\ LET uf == UFs[config][next] IN
       IF HasItem(Meta(uf))
         THEN /\ pc' = "extract" /\ cur' = Meta(uf) /\ UNCHANGED <<next, after, target, booting>>
              /\ UNCHANGED <<daemonVars, durable, items, listed, counters>>
         ELSE StartItem(Meta(uf), "resuming", next + 1)

\* extractUFFile and unpackMetaFile, for a handler and for a resumed file.
Extract ==
    /\ pc = "extract"
    /\ \/ /\ disk[cur] = "complete"
          /\ extracted' = extracted \cup {cur[1]}
          /\ IF next # 0 /\ HasItem(Data(cur[1]))
               THEN pc' = "resuming" /\ next' = next + 1 ELSE pc' = "data" /\ UNCHANGED next
          /\ UNCHANGED <<after, target, cur, booting, faults>>
       \/ /\ IF disk[cur] = "complete" THEN Fault ELSE UNCHANGED faults
          /\ CancelThen("failed")
          /\ UNCHANGED extracted
    /\ UNCHANGED <<daemonVars, civg, config, slots, size, items, listed, tracked, calls, crashes>>

StartData ==
    /\ pc = "data"
    /\ IF next = 0 THEN StartItem(Data(cur[1]), "idle", 0)
       ELSE StartItem(Data(cur[1]), "resuming", next + 1)

-----------------------------------------------------------------------------
\* The signals of the daemon, handled by the main loop.

\* dummObjectChangedHandler and finishedItemHandler
ItemFinished ==
    /\ pc = "idle" /\ sig # <<>> /\ Head(sig) # Lost
    /\ LET i  == Head(sig).id
           ok == Head(sig).state = "FINISHED" /\ up /\ obj[i] # NoObject
       IN /\ obj' = Released(obj, {i})
          /\ listed' = listed \ {i}
          /\ IF i \notin ActiveIds THEN GoTo("idle") /\ UNCHANGED items
             ELSE IF ~ok THEN CancelThen("failed") /\ UNCHANGED items
             ELSE \E it \in items :
                    /\ it.id = i
                    /\ items' = (items \ {it}) \cup {[it EXCEPT !.id = 0]}
                    /\ cur' = it.file
                    /\ pc' = "mark" /\ next' = 0 /\ UNCHANGED <<after, target, booting>>
    /\ sig' = Tail(sig)
    /\ UNCHANGED <<disk, used, up, bus, durable, counters>>

\* nameOwnerChangedHandler
DaemonLost ==
    /\ pc = "idle" /\ sig # <<>> /\ Head(sig) = Lost
    /\ bus' = FALSE /\ sig' = <<>> /\ listed' = {}
    /\ IF listed \cap ActiveIds # {} THEN CancelThen("failed") ELSE GoTo("idle")
    /\ UNCHANGED <<obj, disk, used, up, durable, items, counters>>

\* markDownloaded: the path, then the size.
MarkPath ==
    /\ pc = "mark"
    /\ slots' = [i \in DOMAIN slots \cup {size} |-> IF i = size THEN cur ELSE slots[i]]
    /\ GoTo("marked")
    /\ UNCHANGED <<daemonVars, civg, config, size, extracted, items, listed, counters>>

MarkSize ==
    /\ pc = "marked"
    /\ size' = size + 1
    /\ IF cur[2] = "META" THEN GoTo("extract") ELSE Settled
    /\ UNCHANGED <<daemonVars, civg, config, slots, extracted, items, listed, counters>>

-----------------------------------------------------------------------------
\* downloadmgr_cancel: what is active is aborted, without a proxy nothing is.
Cancel ==
    /\ pc = "cancel"
    /\ obj' = IF bus /\ up THEN AbortedAndReleased(ActiveIds) ELSE obj
    /\ CleanThen(after)
    /\ UNCHANGED <<disk, used, up, bus, sig, durable, items, listed, counters>>

\* cleanupDownloaded: the paths one by one, the size, the items.
CleanPath ==
    /\ pc = "clean" /\ next < size
    /\ slots' = [i \in DOMAIN slots \ {next} |-> slots[i]]
    /\ next' = next + 1
    /\ UNCHANGED <<daemonVars, civg, config, size, extracted, pc, after, target, cur, booting, items, listed, counters>>

CleanSize ==
    /\ pc = "clean" /\ next >= size
    /\ size' = 0 /\ items' = {}
    /\ pc' = after /\ next' = 0 /\ cur' = NoPath /\ UNCHANGED <<after, target, booting>>
    /\ UNCHANGED <<daemonVars, civg, config, slots, extracted, listed, counters>>

\* downloadmgr_resume starts from the beginning.
Again ==
    /\ pc = "again"
    /\ GoTo("prepare")
    /\ UNCHANGED <<daemonVars, durable, items, listed, counters>>

\* downloadFinishedHandler: what comes then is the core's (module Core).
Succeeded ==
    /\ pc = "done"
    /\ civg' = "IDLE"
    /\ tracked' = tracked \cup {config}
    /\ BackToIdle
    /\ UNCHANGED <<daemonVars, config, slots, size, extracted, items, listed, calls, crashes, faults>>

\* main ends if core_init reports the failure (main_service.c).
Failed ==
    /\ pc = "failed"
    /\ civg' = "IDLE" /\ config' = None
    /\ WorkDirRemoved
    /\ IF booting THEN GoTo("shutdown") ELSE BackToIdle
    /\ UNCHANGED <<used, up, bus, sig, slots, size, items, listed, calls, crashes>>

\* performUpgrade has used the files.
Upgraded ==
    /\ pc = "idle" /\ civg = "IDLE" /\ config # None
    /\ config' = None
    /\ WorkDirRemoved
    /\ UNCHANGED <<used, up, bus, sig, civg, slots, size, place, items, listed, calls, crashes>>

-----------------------------------------------------------------------------
\* The program starts (core_init), and restoreDownloadedItems reads the list.
Restorable == 0 .. size - 1 \subseteq DOMAIN slots

Boot ==
    /\ pc = "down"
    /\ bus' = TRUE
    /\ \/ /\ civg = "IDLE"
          /\ WorkDirRemoved
          /\ GoTo("idle")
          /\ UNCHANGED <<civg, items>>
       \/ /\ civg = "DOWNLOAD" /\ config = None
          /\ civg' = "IDLE"
          /\ GoTo("shutdown")
          /\ UNCHANGED <<obj, disk, extracted, tracked, faults, items>>
       \/ /\ civg = "DOWNLOAD" /\ config # None
          /\ IF Restorable
               THEN /\ items' = {[file |-> slots[k], id |-> 0] : k \in 0 .. size - 1}
                    /\ pc' = "resuming" /\ next' = 1 /\ UNCHANGED <<after, target, cur>>
               ELSE /\ pc' = "cancel" /\ after' = "again" /\ UNCHANGED <<next, target, cur>>
                    /\ UNCHANGED items
          /\ booting' = TRUE
          /\ UNCHANGED <<civg, obj, disk, extracted, tracked, faults>>
    /\ UNCHANGED <<used, up, sig, config, slots, size, listed, calls, crashes>>

\* The process is gone; the daemon's objects are not.
Ended ==
    /\ pc' = "down" /\ next' = 0 /\ after' = "done" /\ target' = None /\ cur' = NoPath
    /\ booting' = FALSE
    /\ bus' = FALSE /\ sig' = <<>>
    /\ items' = {} /\ listed' = {}
    /\ UNCHANGED <<obj, disk, used, up, durable, tracked, calls, faults>>

Crash == pc # "down" /\ Bounded /\ crashes < MaxCrashes /\ crashes' = crashes + 1 /\ Ended

\* core_cleanup: downloadmgr_cleanup cancels first.
Shutdown ==
    /\ pc = "idle" /\ Bounded /\ crashes < MaxCrashes
    /\ crashes' = crashes + 1
    /\ CancelThen("shutdown")
    /\ UNCHANGED <<daemonVars, durable, items, listed, tracked, calls, faults>>

ShutDown == pc = "shutdown" /\ Ended /\ UNCHANGED crashes

-----------------------------------------------------------------------------
\* What goes on beside the main thread.
manager == <<durable, place, items, listed>>

DaemonTakes == Take /\ UNCHANGED <<manager, counters>>

\* Without a url nothing is transferred.
TransferEnds(i) ==
    /\ obj[i].file \notin {Meta(uf) : uf \in NoUrl}
    /\ Transferred(i)
    /\ UNCHANGED <<manager, counters>>

DaemonFails ==
    /\ DaemonDies \/ \E i \in Ids : TransferStops(i)
    /\ Fault
    /\ UNCHANGED <<manager, tracked, calls, crashes>>

DaemonReturns == DaemonStarts /\ UNCHANGED <<manager, counters>>

\* The main loop waits.
Wait == pc = "idle" /\ sig = <<>> /\ UNCHANGED vars

Working ==
    \/ Replaced \/ Prepare \/ StartMeta \/ AllStarted \/ ResumeFile \/ Extract \/ StartData
    \/ ItemFinished \/ DaemonLost \/ MarkPath \/ MarkSize
    \/ Cancel \/ CleanPath \/ CleanSize \/ Again \/ Succeeded \/ Failed \/ ShutDown

Next ==
    \/ \E u \in Updates : Begin(u)
    \/ \E u \in Updates \cup {None} : Replace(u)
    \/ Working
    \/ Upgraded \/ Boot \/ Crash \/ Shutdown
    \/ DaemonTakes \/ DaemonFails \/ DaemonReturns
    \/ \E i \in Ids : TransferEnds(i)
    \/ Wait

Spec == Init /\ [][Next]_vars

\* The main loop does what it has to, the program is started again, and the
\* daemon gives the objects threads, whose transfers come to an end.
FairSpec ==
    /\ Spec
    /\ WF_vars(Working) /\ WF_vars(Boot) /\ WF_vars(DaemonTakes)
    /\ WF_vars(\E i \in Ids : TransferEnds(i))

-----------------------------------------------------------------------------
TypeOK ==
    /\ DaemonTypeOK
    /\ civg \in {"IDLE", "DOWNLOAD"}
    /\ config \in Updates \cup {None} /\ target \in Updates \cup {None}
    /\ size \in Nat /\ DOMAIN slots \subseteq Nat /\ slots \in [DOMAIN slots -> File]
    /\ extracted \subseteq UF
    /\ pc \in {"down", "idle", "prepare", "starting", "resuming", "extract", "data", "mark",
               "marked", "cancel", "clean", "done", "failed", "replace", "again", "shutdown"}
    /\ next \in Nat /\ booting \in BOOLEAN
    /\ after \in {"done", "failed", "replace", "again", "shutdown"}
    /\ cur \in File \cup {NoPath}
    /\ items \subseteq Item
    /\ listed \subseteq Ids
    /\ tracked \subseteq Updates
    /\ calls \in 0 .. MaxCalls /\ crashes \in 0 .. MaxCrashes /\ faults \in 0 .. MaxFaults

\* When the finished handler is told that a download succeeded, every file of
\* its update is on the disk and every archive extracted, whatever crashes,
\* retries and stale signals there were on the way (finalizeDownload).
SuccessIsComplete == pc = "done" => Complete(config)

\* A file the storage lists as downloaded is complete on the disk, at every
\* point where a crash can make the next start believe it (markDownloaded,
\* cleanupDownloaded, restoreDownloadedItems).
ListMatchesDisk ==
    Restorable => \A i \in 0 .. size - 1 : disk[slots[i]] = "complete"

\* While a download is on and the main loop waits, something is active, and the
\* manager will hear of all that is: each has a living object in the daemon, its
\* last signal is on the way, or the daemon's loss is and will be passed on.
SomeoneAnswers ==
    pc = "idle" /\ civg = "DOWNLOAD" /\ config # None =>
        /\ ActiveIds # {}
        /\ \A i \in ActiveIds :
            /\ i \in listed
            /\ \/ obj[i].state \in {"WAITING", "ACTIVE", "INTERRUPTED"}
               \/ \E k \in DOMAIN sig : sig[k] = Lost \/ sig[k].id = i

\* The manager does what downloading promises (module Download).  What a removal of
\* the work directory that failed has left there counts for nothing, until a removal
\* succeeds, or the update is downloaded.
Job == IF civg = "DOWNLOAD" THEN config ELSE None
D == INSTANCE Download WITH job  <- Job,
                            have <- {u \in Updates : Complete(u) /\ (u \in tracked \/ u = Job)}
DownloadImplemented == D!Spec


-----------------------------------------------------------------------------
\* The inductive invariant behind these properties, when every update file has an
\* url (proved in DownloadMgrProofs).
GivingUp   == {"cancel", "clean"}
Between    == {"prepare", "again", "replace", "done", "failed", "shutdown"}
Handling   == {"mark", "marked", "extract", "data"}
Fetching   == civg = "DOWNLOAD" /\ config # None

Done(f)    == \E it \in items : it.file = f /\ it.id = 0
Listed(f)  == \E k \in 0 .. size - 1 : slots[k] = f
Covered(uf) == HasItem(Data(uf)) \/ \E it \in items : it.file = Meta(uf) /\ it.id # 0

\* Where the main thread is, and what there is of a download then.
PlaceInv ==
    /\ civg = "IDLE" => /\ size = 0 /\ items = {}
                        /\ pc \in {"idle", "down", "shutdown"} \cup GivingUp
    /\ config = None => size = 0 /\ items = {}
    /\ pc \in Between => size = 0 /\ items = {}
    /\ pc \in {"starting", "resuming", "prepare", "again", "done", "failed"} \cup Handling => config # None
    /\ pc \in GivingUp => /\ after # "shutdown" => civg = "DOWNLOAD"
                          /\ after \in {"done", "failed", "again"} => config # None
                          /\ pc = "cancel" => after # "done"
    /\ pc = "replace" \/ (pc \in GivingUp /\ after = "replace") => target # config
    /\ pc = "down" => items = {} /\ listed = {} /\ sig = <<>> /\ ~bus
    /\ pc \in {"starting", "resuming"} => next \in 1 .. Len(UFs[config]) + 1
    /\ pc \in {"mark", "marked"} => next = 0

\* What the storage lists is there, and is finished for the manager, too.
ListInv ==
    /\ Restorable =>
        \A k \in 0 .. size - 1 :
            /\ slots[k][1] \in UfsOf(config)
            /\ disk[slots[k]] = "complete"
            /\ slots[k][2] = "DATA" => slots[k][1] \in extracted /\ Listed(Meta(slots[k][1]))
            /\ pc # "down" => Done(slots[k])
    /\ pc \notin {"down"} \cup GivingUp =>
        /\ Restorable
        /\ \A it \in items : it.id = 0 => Listed(it.file) \/ (pc \in {"mark", "marked"} /\ it.file = cur)

\* One item per file and per id; what is finished is there, and data follows the
\* extraction of its archive.
ItemInv ==
    /\ \A it \in items : it.file[1] \in UfsOf(config)
    /\ \A a, b \in items : a.file = b.file \/ (a.id = b.id /\ a.id # 0) => a = b
    /\ pc \notin GivingUp =>
        \A it \in items :
            /\ it.id = 0 => disk[it.file] = "complete"
            /\ it.file[2] = "DATA" => it.file[1] \in extracted /\ Done(Meta(it.file[1]))

\* The item at hand.
CurInv ==
    /\ pc \in Handling => Done(cur)
    /\ pc \in Handling /\ next = 0 /\ cur[2] = "META" => ~HasItem(Data(cur[1]))
    /\ pc \in {"extract", "data"} => cur[2] = "META"
    /\ pc \in {"extract", "data"} /\ next # 0 => next \in DOMAIN UFs[config] /\ cur = Meta(UFs[config][next])
    /\ pc = "data" => cur[1] \in extracted /\ ~HasItem(Data(cur[1]))
    /\ pc = "marked" => size \in DOMAIN slots /\ slots[size] = cur

\* Every update file is on its way, or its turn is still to come.
CoverInv ==
    /\ pc \in {"starting", "resuming"} \/ (pc \in {"extract", "data"} /\ next # 0) =>
        \A k \in DOMAIN UFs[config] :
            /\ k < next => Covered(UFs[config][k])
            /\ k >= next => \A it \in items : it.file[1] = UFs[config][k] => it.id = 0
    /\ pc = "starting" =>
        \A k \in DOMAIN UFs[config] : k >= next => \A it \in items : it.file[1] # UFs[config][k]
    /\ pc = "idle" /\ Fetching => \A uf \in UfsOf(config) : Covered(uf)
    /\ pc \in Handling /\ next = 0 =>
        \A uf \in UfsOf(config) : Covered(uf) \/ cur = Meta(uf)
    /\ pc = "done" \/ (pc = "clean" /\ after = "done") => Complete(config)

\* The objects of the daemon behind the active items, and what it says of them.
ObjectInv ==
    /\ \A i \in Ids : /\ obj[i] # NoObject => i <= used
                      /\ obj[i].state = "ACTIVE" => obj[i].fd # "closed"
    /\ \A k \in DOMAIN sig : sig[k].id <= used
    /\ \A it \in items : it.id <= used
    /\ pc \notin GivingUp =>
        \A it \in items : it.id # 0 =>
            /\ obj[it.id] # NoObject => obj[it.id].file = it.file /\ obj[it.id].fd # "unlinked"
            /\ (\E k \in DOMAIN sig : sig[k].id = it.id /\ sig[k].state = "FINISHED")
                  => disk[it.file] = "complete"

\* Whoever is waited for is alive, or its end is on the way.
AnswerInv ==
    /\ pc \notin GivingUp =>
        \A it \in items : it.id # 0 =>
            /\ bus /\ it.id \in listed
            /\ \/ obj[it.id].state \in {"WAITING", "ACTIVE", "INTERRUPTED"}
               \/ \E k \in DOMAIN sig : sig[k] = Lost \/ sig[k].id = it.id
    /\ pc = "idle" /\ Fetching => \E it \in items : it.id # 0

\* Of the updates that are not downloaded now everything is there, or no archive,
\* unless a removal failed.
OthersInv ==
    \A u \in Updates : u \in tracked /\ (u # config \/ civg = "IDLE") =>
        Complete(u) \/ \A uf \in UfsOf(u) : uf \notin extracted

ManagerInv ==
    /\ TypeOK
    /\ PlaceInv
    /\ ListInv
    /\ ItemInv
    /\ CurInv
    /\ CoverInv
    /\ ObjectInv
    /\ AnswerInv
    /\ OthersInv

=============================================================================
