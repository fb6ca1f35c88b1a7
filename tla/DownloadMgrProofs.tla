------------------------- MODULE DownloadMgrProofs -------------------------
(***************************************************************************)
(* Proofs about DownloadMgr: when every update file has an url, ManagerInv *)
(* is inductive, for any updates and any number of files, downloads,       *)
(* crashes and failures, and the safety properties of the runs follow.     *)
(***************************************************************************)
EXTENDS DownloadMgr, SequenceTheorems, TLAPS

(* A path says which file of which update file it is. *)
LEMMA FileFacts ==
    /\ \A f \in File : /\ f[1] \in UF /\ f[2] \in {"META", "DATA"}
                       /\ f[2] = "META" => f = Meta(f[1])
                       /\ f[2] = "DATA" => f = Data(f[1])
    /\ \A uf \in UF : Meta(uf) \in File /\ Data(uf) \in File
    /\ \A uf : /\ Meta(uf)[1] = uf /\ Meta(uf)[2] = "META"
               /\ Data(uf)[1] = uf /\ Data(uf)[2] = "DATA"
BY FileAssumption DEF Meta, Data

(* The update files of an update are those of its list. *)
LEMMA UfFacts ==
    ASSUME NEW u \in Updates
    PROVE  /\ UfsOf(u) \subseteq UF
           /\ Len(UFs[u]) \in Nat /\ DOMAIN UFs[u] = 1 .. Len(UFs[u])
           /\ \A k \in DOMAIN UFs[u] : UFs[u][k] \in UfsOf(u)
           /\ \A uf \in UfsOf(u) : \E k \in DOMAIN UFs[u] : uf = UFs[u][k]
           /\ \A j, k \in DOMAIN UFs[u] : UFs[u][j] = UFs[u][k] => j = k
<1>1. UFs[u] \in Seq(UF)  BY UpdatesAssumption
<1>2. Len(UFs[u]) \in Nat /\ DOMAIN UFs[u] = 1 .. Len(UFs[u])  BY <1>1
<1>3. \A k \in DOMAIN UFs[u] : UFs[u][k] \in UF  BY <1>1
<1>. QED  BY <1>2, <1>3, UpdatesAssumption DEF UfsOf

(* An object is released, or stays what it was. *)
LEMMA ReleasedFacts ==
    ASSUME NEW S, obj \in [Ids -> Object]
    PROVE  /\ Released(obj, S) \in [Ids -> Object]
           /\ \A i \in Ids : Released(obj, S)[i] \in {obj[i], NoObject}
           /\ \A i \in Ids : i \in S => Released(obj, S)[i] = NoObject
           /\ \A i \in Ids : i \notin S => Released(obj, S)[i] = obj[i]
BY DEF Released, Object

(* Of the objects that have a file of F open its name is gone; the others stay. *)
LEMMA UnlinkedFacts ==
    ASSUME NEW F, obj \in [Ids -> Object]
    PROVE  /\ Unlinked(obj, F) \in [Ids -> Object]
           /\ \A i \in Ids :
                /\ Unlinked(obj, F)[i].state = obj[i].state
                /\ Unlinked(obj, F)[i].file = obj[i].file
                /\ Unlinked(obj, F)[i] = NoObject <=> obj[i] = NoObject
                /\ Unlinked(obj, F)[i].fd = "closed" <=> obj[i].fd = "closed"
                /\ obj[i].file \notin F => Unlinked(obj, F)[i] = obj[i]
<1>1. \A i \in Ids : obj[i] \in Object /\ Unlinked(obj, F)[i] =
            IF obj[i].file \in F /\ obj[i].fd = "open" THEN [obj[i] EXCEPT !.fd = "unlinked"] ELSE obj[i]
  BY DEF Unlinked
<1>2. \A i \in Ids : obj[i].fd = "open" =>
        obj[i] \in [state : DownloadState, file : File, fd : Descriptor]
  BY <1>1 DEF Object, NoObject
<1>3. \A i \in Ids : Unlinked(obj, F)[i] \in Object
  BY <1>1, <1>2 DEF Object, Descriptor
<1>4. Unlinked(obj, F) \in [Ids -> Object]
  BY <1>3 DEF Unlinked
<1>5. ASSUME NEW i \in Ids
      PROVE  /\ Unlinked(obj, F)[i].state = obj[i].state
             /\ Unlinked(obj, F)[i].file = obj[i].file
             /\ Unlinked(obj, F)[i] = NoObject <=> obj[i] = NoObject
             /\ Unlinked(obj, F)[i].fd = "closed" <=> obj[i].fd = "closed"
             /\ obj[i].file \notin F => Unlinked(obj, F)[i] = obj[i]
  <2>1. CASE obj[i].file \in F /\ obj[i].fd = "open"
    <3>. DEFINE o == obj[i]  n == Unlinked(obj, F)[i]
    <3>1. o \in [state : DownloadState, file : File, fd : Descriptor] /\ n = [o EXCEPT !.fd = "unlinked"]
      BY <1>1, <1>2, <2>1
    <3>. HIDE DEF o, n
    <3>2. n.state = o.state /\ n.file = o.file /\ n.fd = "unlinked"
      BY <3>1
    <3>3. n # NoObject
      BY <3>2 DEF NoObject
    <3>4. o.fd = "open" /\ o # NoObject /\ o.file \in F
      BY <2>1 DEF o, NoObject
    <3>. QED  BY <3>2, <3>3, <3>4 DEF o, n
  <2>2. CASE ~(obj[i].file \in F /\ obj[i].fd = "open")
    BY <1>1, <2>2
  <2>. QED  BY <2>1, <2>2
<1>. QED  BY <1>4, <1>5

(* The files of F are gone. *)
LEMMA EmptiedFacts ==
    ASSUME NEW F, disk \in [File -> {"absent", "partial", "complete"}]
    PROVE  /\ Emptied(F) \in [File -> {"absent", "partial", "complete"}]
           /\ \A f \in File : f \notin F => Emptied(F)[f] = disk[f]
BY DEF Emptied

(* When every update file is on its way and nothing is active, all is there. *)
LEMMA AllThere ==
    ASSUME TypeOK, ItemInv, pc \notin GivingUp, config \in Updates, ActiveIds = {},
           \A uf \in UfsOf(config) : Covered(uf)
    PROVE  Complete(config)
<1>1. \A it \in items : it.id = 0
  BY DEF ActiveIds, TypeOK, Item
<1>2. ASSUME NEW uf \in UfsOf(config)
      PROVE  disk[Meta(uf)] = "complete" /\ disk[Data(uf)] = "complete" /\ uf \in extracted
  <2>1. Covered(uf)
    OBVIOUS
  <2>2. PICK it \in items : it.file = Data(uf)
    BY <1>1, <2>1 DEF Covered, HasItem
  <2>3. disk[Data(uf)] = "complete" /\ uf \in extracted /\ Done(Meta(uf))
    BY <1>1, <2>2, FileFacts DEF ItemInv
  <2>. QED  BY <2>3 DEF Done, ItemInv
<1>. QED  BY <1>2 DEF Complete

(* The first signal is handled; the others move up. *)
LEMMA TailFacts ==
    ASSUME sig \in Seq(Signal), sig # <<>>
    PROVE  /\ Tail(sig) \in Seq(Signal) /\ Head(sig) \in Signal
           /\ 1 \in DOMAIN sig /\ Head(sig) = sig[1]
           /\ \A k \in DOMAIN Tail(sig) : k + 1 \in DOMAIN sig /\ Tail(sig)[k] = sig[k + 1]
           /\ \A k \in DOMAIN sig : k = 1 \/ (k - 1 \in DOMAIN Tail(sig) /\ Tail(sig)[k - 1] = sig[k])
OBVIOUS

USE DEF ManagerInv, Fetching, GivingUp, Between, Handling, GoTo, CancelThen, CleanThen, BackToIdle,
        daemonVars, durable, place, counters, manager

(* What is left of another download refuses this one, or the list starts anew. *)
LEMMA PrepareInductive ==
    ASSUME ManagerInv, Prepare
    PROVE  ManagerInv'
<1>. USE DEF Prepare
<1>1. TypeOK'
  BY BoundsAssumption, DaemonAssumption DEF TypeOK, DaemonTypeOK, Fault, Bounded
<1>2. PlaceInv'
  BY DEF PlaceInv
<1>3. ListInv'
  BY DEF ListInv, Restorable, Listed, Done
<1>4. ItemInv'
  BY DEF ItemInv, Done
<1>5. CurInv'
  BY DEF CurInv, Done, HasItem
<1>6. CoverInv'
  BY UfFacts DEF CoverInv, Covered, HasItem, Complete, PlaceInv, TypeOK
<1>7. ObjectInv'
  BY DEF ObjectInv
<1>8. AnswerInv'
  BY DEF AnswerInv
<1>9. OthersInv'
  BY DEF OthersInv, Complete
<1>. QED  BY <1>1, <1>2, <1>3, <1>4, <1>5, <1>6, <1>7, <1>8, <1>9

(* A path is dropped from the list, which cannot be read back from here on. *)
LEMMA CleanPathInductive ==
    ASSUME ManagerInv, CleanPath
    PROVE  ManagerInv'
<1>. USE DEF CleanPath
<1>1. TypeOK'
  BY BoundsAssumption, DaemonAssumption DEF TypeOK, DaemonTypeOK, Fault, Bounded
<1>2. PlaceInv'
  BY DEF PlaceInv
<1>3. ListInv'
  BY DEF ListInv, Restorable, Listed, Done
<1>4. ItemInv'
  BY DEF ItemInv, Done
<1>5. CurInv'
  BY DEF CurInv, Done, HasItem
<1>6. CoverInv'
  BY DEF CoverInv, Covered, HasItem, Complete
<1>7. ObjectInv'
  BY DEF ObjectInv
<1>8. AnswerInv'
  BY DEF AnswerInv
<1>9. OthersInv'
  BY DEF OthersInv, Complete
<1>. QED  BY <1>1, <1>2, <1>3, <1>4, <1>5, <1>6, <1>7, <1>8, <1>9

(* The list and the items are gone, what was to follow follows. *)
LEMMA CleanSizeInductive ==
    ASSUME ManagerInv, CleanSize
    PROVE  ManagerInv'
<1>. USE DEF CleanSize
<1>1. TypeOK'
  BY BoundsAssumption, DaemonAssumption DEF TypeOK, DaemonTypeOK, Fault, Bounded
<1>2. PlaceInv'
  BY DEF PlaceInv, TypeOK
<1>3. ListInv'
  BY DEF ListInv, Restorable, Listed, Done
<1>4. ItemInv'
  BY DEF ItemInv, Done
<1>5. CurInv'
  BY DEF CurInv, Done, HasItem, TypeOK
<1>6. CoverInv'
  BY DEF CoverInv, Covered, HasItem, Complete, TypeOK
<1>7. ObjectInv'
  BY DEF ObjectInv
<1>8. AnswerInv'
  BY DEF AnswerInv, TypeOK
<1>9. OthersInv'
  BY DEF OthersInv, Complete
<1>. QED  BY <1>1, <1>2, <1>3, <1>4, <1>5, <1>6, <1>7, <1>8, <1>9

(* What is active is aborted; nothing is claimed of the items until they are gone. *)
LEMMA CancelInductive ==
    ASSUME ManagerInv, Cancel
    PROVE  ManagerInv'
<1>. USE DEF Cancel, AbortedAndReleased
<1>1. TypeOK'
  BY ReleasedFacts DEF TypeOK, DaemonTypeOK
<1>2. PlaceInv'
  BY DEF PlaceInv
<1>3. ListInv'
  BY DEF ListInv, Restorable, Listed, Done
<1>4. ItemInv'
  BY DEF ItemInv, Done
<1>5. CurInv'
  BY DEF CurInv, Done, HasItem
<1>6. CoverInv'
  BY DEF CoverInv, Covered, HasItem, Complete, PlaceInv
<1>7. ObjectInv'
  BY ReleasedFacts DEF ObjectInv, NoObject, TypeOK, DaemonTypeOK
<1>8. AnswerInv'
  BY DEF AnswerInv
<1>9. OthersInv'
  BY DEF OthersInv, Complete
<1>. QED  BY <1>1, <1>2, <1>3, <1>4, <1>5, <1>6, <1>7, <1>8, <1>9

(* The finished handler has been told: the files stay for the upgrade. *)
LEMMA SucceededInductive ==
    ASSUME ManagerInv, Succeeded
    PROVE  ManagerInv'
<1>. USE DEF Succeeded
<1>1. TypeOK'
  <2>1. config \in Updates
    BY DEF PlaceInv, TypeOK
  <2>2. DaemonTypeOK'
    BY DEF TypeOK, DaemonTypeOK
  <2>3. tracked' \subseteq Updates
    BY <2>1 DEF TypeOK
  <2>. QED  BY <2>2, <2>3 DEF TypeOK
<1>2. PlaceInv'
  BY DEF PlaceInv
<1>3. ListInv'
  BY DEF ListInv, Restorable, Listed, Done
<1>4. ItemInv'
  BY DEF ItemInv, Done
<1>5. CurInv'
  BY DEF CurInv, Done, HasItem
<1>6. CoverInv'
  BY DEF CoverInv, Covered, HasItem, Complete
<1>7. ObjectInv'
  BY DEF ObjectInv
<1>8. AnswerInv'
  BY DEF AnswerInv
<1>9. OthersInv'
  BY DEF OthersInv, Complete, CoverInv
<1>. QED  BY <1>1, <1>2, <1>3, <1>4, <1>5, <1>6, <1>7, <1>8, <1>9

(* The program is told to end and cancels first. *)
LEMMA ShutdownInductive ==
    ASSUME ManagerInv, Shutdown
    PROVE  ManagerInv'
<1>. USE DEF Shutdown
<1>1. TypeOK'
  BY BoundsAssumption, DaemonAssumption DEF TypeOK, DaemonTypeOK, Fault, Bounded
<1>2. PlaceInv'
  BY DEF PlaceInv
<1>3. ListInv'
  BY DEF ListInv, Restorable, Listed, Done
<1>4. ItemInv'
  BY DEF ItemInv, Done
<1>5. CurInv'
  BY DEF CurInv, Done, HasItem
<1>6. CoverInv'
  BY DEF CoverInv, Covered, HasItem, Complete
<1>7. ObjectInv'
  BY DEF ObjectInv
<1>8. AnswerInv'
  BY DEF AnswerInv
<1>9. OthersInv'
  BY DEF OthersInv, Complete
<1>. QED  BY <1>1, <1>2, <1>3, <1>4, <1>5, <1>6, <1>7, <1>8, <1>9

(* The path is written behind the end of the list, where nobody reads it yet. *)
LEMMA MarkPathInductive ==
    ASSUME ManagerInv, MarkPath
    PROVE  ManagerInv'
<1>. USE DEF MarkPath
<1>1. TypeOK'
  BY FileFacts DEF TypeOK, DaemonTypeOK, CurInv, Done, Item
<1>2. PlaceInv'
  BY DEF PlaceInv
<1>3. ListInv'
  BY DEF ListInv, Restorable, Listed, Done
<1>4. ItemInv'
  BY DEF ItemInv, Done
<1>5. CurInv'
  BY DEF CurInv, Done, HasItem
<1>6. CoverInv'
  BY DEF CoverInv, Covered, HasItem, Complete
<1>7. ObjectInv'
  BY DEF ObjectInv
<1>8. AnswerInv'
  BY DEF AnswerInv
<1>9. OthersInv'
  BY DEF OthersInv, Complete
<1>. QED  BY <1>1, <1>2, <1>3, <1>4, <1>5, <1>6, <1>7, <1>8, <1>9

(* The program is gone; the list, the files and the daemon's objects stay. *)
LEMMA CrashInductive ==
    ASSUME ManagerInv, Crash
    PROVE  ManagerInv'
<1>. USE DEF Crash, Ended
<1>1. TypeOK'
  <2>1. DaemonTypeOK'
    BY EmptySeq DEF TypeOK, DaemonTypeOK
  <2>2. crashes' \in 0 .. MaxCrashes
    BY BoundsAssumption DEF TypeOK
  <2>. QED  BY <2>1, <2>2 DEF TypeOK
<1>2. PlaceInv'
  BY DEF PlaceInv
<1>3. ListInv'
  BY DEF ListInv, Restorable, Listed, Done
<1>4. ItemInv'
  BY DEF ItemInv, Done
<1>5. CurInv'
  BY DEF CurInv, Done, HasItem
<1>6. CoverInv'
  BY DEF CoverInv, Covered, HasItem, Complete
<1>7. ObjectInv'
  BY DEF ObjectInv
<1>8. AnswerInv'
  BY DEF AnswerInv
<1>9. OthersInv'
  BY DEF OthersInv, Complete
<1>. QED  BY <1>1, <1>2, <1>3, <1>4, <1>5, <1>6, <1>7, <1>8, <1>9

(* The program has ended. *)
LEMMA ShutDownInductive ==
    ASSUME ManagerInv, ShutDown
    PROVE  ManagerInv'
<1>. USE DEF ShutDown, Ended
<1>1. TypeOK'
  <2>1. DaemonTypeOK'
    BY EmptySeq DEF TypeOK, DaemonTypeOK
  <2>2. crashes' \in 0 .. MaxCrashes
    BY BoundsAssumption DEF TypeOK
  <2>. QED  BY <2>1, <2>2 DEF TypeOK
<1>2. PlaceInv'
  BY DEF PlaceInv
<1>3. ListInv'
  BY DEF ListInv, Restorable, Listed, Done
<1>4. ItemInv'
  BY DEF ItemInv, Done
<1>5. CurInv'
  BY DEF CurInv, Done, HasItem
<1>6. CoverInv'
  BY DEF CoverInv, Covered, HasItem, Complete
<1>7. ObjectInv'
  BY DEF ObjectInv
<1>8. AnswerInv'
  BY DEF AnswerInv
<1>9. OthersInv'
  BY DEF OthersInv, Complete
<1>. QED  BY <1>1, <1>2, <1>3, <1>4, <1>5, <1>6, <1>7, <1>8, <1>9

(* The daemon has its name on the bus again. *)
LEMMA DaemonReturnsInductive ==
    ASSUME ManagerInv, DaemonReturns
    PROVE  ManagerInv'
<1>. USE DEF DaemonReturns, DaemonStarts
<1>1. TypeOK'
  BY BoundsAssumption, DaemonAssumption DEF TypeOK, DaemonTypeOK, Fault, Bounded
<1>2. PlaceInv'
  BY DEF PlaceInv
<1>3. ListInv'
  BY DEF ListInv, Restorable, Listed, Done
<1>4. ItemInv'
  BY DEF ItemInv, Done
<1>5. CurInv'
  BY DEF CurInv, Done, HasItem
<1>6. CoverInv'
  BY DEF CoverInv, Covered, HasItem, Complete
<1>7. ObjectInv'
  BY DEF ObjectInv
<1>8. AnswerInv'
  BY DEF AnswerInv
<1>9. OthersInv'
  BY DEF OthersInv, Complete
<1>. QED  BY <1>1, <1>2, <1>3, <1>4, <1>5, <1>6, <1>7, <1>8, <1>9

(* A resume that could not read the list starts from the beginning. *)
LEMMA AgainInductive ==
    ASSUME ManagerInv, Again
    PROVE  ManagerInv'
<1>. USE DEF Again
<1>1. TypeOK'
  BY BoundsAssumption, DaemonAssumption DEF TypeOK, DaemonTypeOK, Fault, Bounded
<1>2. PlaceInv'
  BY DEF PlaceInv
<1>3. ListInv'
  BY DEF ListInv, Restorable, Listed, Done
<1>4. ItemInv'
  BY DEF ItemInv, Done
<1>5. CurInv'
  BY DEF CurInv, Done, HasItem
<1>6. CoverInv'
  BY DEF CoverInv, Covered, HasItem, Complete
<1>7. ObjectInv'
  BY DEF ObjectInv
<1>8. AnswerInv'
  BY DEF AnswerInv
<1>9. OthersInv'
  BY DEF OthersInv, Complete
<1>. QED  BY <1>1, <1>2, <1>3, <1>4, <1>5, <1>6, <1>7, <1>8, <1>9

(* Nothing happens. *)
LEMMA StutterInductive ==
    ASSUME ManagerInv, UNCHANGED vars
    PROVE  ManagerInv'
<1>. USE DEF vars
<1>1. TypeOK'
  BY BoundsAssumption, DaemonAssumption DEF TypeOK, DaemonTypeOK, Fault, Bounded
<1>2. PlaceInv'
  BY DEF PlaceInv
<1>3. ListInv'
  BY DEF ListInv, Restorable, Listed, Done
<1>4. ItemInv'
  BY DEF ItemInv, Done
<1>5. CurInv'
  BY DEF CurInv, Done, HasItem
<1>6. CoverInv'
  BY DEF CoverInv, Covered, HasItem, Complete
<1>7. ObjectInv'
  BY DEF ObjectInv
<1>8. AnswerInv'
  BY DEF AnswerInv
<1>9. OthersInv'
  BY DEF OthersInv, Complete
<1>. QED  BY <1>1, <1>2, <1>3, <1>4, <1>5, <1>6, <1>7, <1>8, <1>9

(* Every update file has had its turn: if nothing is active all is there. *)
LEMMA AllStartedInductive ==
    ASSUME ManagerInv, AllStarted
    PROVE  ManagerInv'
<1>. USE DEF AllStarted, Settled
<1>1. TypeOK'
  <2>1. DaemonTypeOK'
    BY DEF TypeOK, DaemonTypeOK
  <2>2. booting' \in BOOLEAN
    BY DEF TypeOK
  <2>3. /\ pc' \in {"clean", "idle"} /\ next' = 0 /\ after' = "done"
        /\ target' \in {target, None} /\ cur' \in {cur, NoPath}
    BY DEF TypeOK
  <2>. QED  BY <2>1, <2>2, <2>3 DEF TypeOK
<1>2. PlaceInv'
  BY DEF PlaceInv, TypeOK
<1>3. ListInv'
  BY DEF ListInv, Restorable, Listed, Done
<1>4. ItemInv'
  BY DEF ItemInv, Done
<1>5. CurInv'
  BY DEF CurInv, Done, HasItem
<1>6. CoverInv'
  <2>1. config \in Updates /\ Fetching
    BY DEF PlaceInv, TypeOK
  <2>2. \A uf \in UfsOf(config) : Covered(uf)
    BY <2>1, UfFacts DEF PlaceInv, CoverInv
  <2>3. ActiveIds = {} => Complete(config)
    BY <2>1, <2>2, AllThere
  <2>. QED  BY <2>1, <2>2, <2>3 DEF CoverInv, Covered, HasItem, Complete
<1>7. ObjectInv'
  BY DEF ObjectInv
<1>8. AnswerInv'
  BY DEF AnswerInv, ActiveIds
<1>9. OthersInv'
  BY DEF OthersInv, Complete
<1>. QED  BY <1>1, <1>2, <1>3, <1>4, <1>5, <1>6, <1>7, <1>8, <1>9

(* Whether or not the work directory could be removed, objects and files are what they can
   be, and no archive is extracted that was not; if it could, none is. *)
LEMMA RemovalFacts ==
    ASSUME TypeOK, WorkDirRemoved
    PROVE  /\ obj' \in [Ids -> Object]
           /\ \A i \in Ids :
                /\ obj'[i].state = obj[i].state
                /\ obj'[i].file = obj[i].file
                /\ obj'[i] = NoObject <=> obj[i] = NoObject
                /\ obj'[i].fd = "closed" <=> obj[i].fd = "closed"
           /\ disk' \in [File -> {"absent", "partial", "complete"}]
           /\ extracted' \subseteq extracted
           /\ tracked' = {} \/ (tracked' = Updates /\ extracted' = {})
           /\ faults' \in 0 .. MaxFaults
<1>1. PICK F \in SUBSET File : obj' = Unlinked(obj, F) /\ disk' = Emptied(F)
  BY DEF WorkDirRemoved
<1>2. /\ extracted' \subseteq extracted
      /\ tracked' = {} \/ (tracked' = Updates /\ extracted' = {})
  BY DEF WorkDirRemoved
<1>3. faults' = faults \/ Fault
  BY DEF WorkDirRemoved
<1>4. faults' \in 0 .. MaxFaults
  BY <1>3, BoundsAssumption DEF Fault, TypeOK
<1>5. obj \in [Ids -> Object] /\ disk \in [File -> {"absent", "partial", "complete"}]
  BY DEF TypeOK, DaemonTypeOK
<1>6. disk' \in [File -> {"absent", "partial", "complete"}]
  BY <1>1, <1>5, EmptiedFacts
<1>7. /\ obj' \in [Ids -> Object]
      /\ \A i \in Ids :
           /\ obj'[i].state = obj[i].state
           /\ obj'[i].file = obj[i].file
           /\ obj'[i] = NoObject <=> obj[i] = NoObject
           /\ obj'[i].fd = "closed" <=> obj[i].fd = "closed"
  BY <1>1, <1>5, UnlinkedFacts
<1>. QED  BY <1>2, <1>4, <1>6, <1>7

(* The upgrade has used the files. *)
LEMMA UpgradedInductive ==
    ASSUME ManagerInv, Upgraded
    PROVE  ManagerInv'
<1>. USE DEF Upgraded
<1>1. TypeOK'
  <2>1. DaemonTypeOK'
    BY RemovalFacts DEF TypeOK, DaemonTypeOK
  <2>2. booting' \in BOOLEAN
    BY DEF TypeOK
  <2>3. pc' = pc
    BY DEF TypeOK
  <2>. QED  BY <2>1, <2>2, <2>3, RemovalFacts DEF TypeOK
<1>2. PlaceInv'
  BY DEF PlaceInv
<1>3. ListInv'
  BY DEF ListInv, Restorable, Listed, Done, PlaceInv
<1>4. ItemInv'
  BY DEF ItemInv, Done, PlaceInv
<1>5. CurInv'
  BY DEF CurInv, Done, HasItem
<1>6. CoverInv'
  BY DEF CoverInv, Covered, HasItem, Complete
<1>7. ObjectInv'
  BY RemovalFacts DEF ObjectInv, PlaceInv, TypeOK, DaemonTypeOK
<1>8. AnswerInv'
  BY DEF AnswerInv, PlaceInv
<1>9. OthersInv'
  BY RemovalFacts DEF OthersInv, Complete
<1>. QED  BY <1>1, <1>2, <1>3, <1>4, <1>5, <1>6, <1>7, <1>8, <1>9

(* A failure leaves no file, no archive and no configuration. *)
LEMMA FailedInductive ==
    ASSUME ManagerInv, Failed
    PROVE  ManagerInv'
<1>. USE DEF Failed
<1>1. TypeOK'
  <2>1. DaemonTypeOK'
    BY RemovalFacts DEF TypeOK, DaemonTypeOK
  <2>2. booting' \in BOOLEAN
    BY DEF TypeOK
  <2>3. /\ pc' \in {"shutdown", "idle"} /\ next' \in {next, 0} /\ after' \in {after, "done"}
        /\ target' \in {target, None} /\ cur' \in {cur, NoPath}
    BY DEF TypeOK
  <2>. QED  BY <2>1, <2>2, <2>3, RemovalFacts DEF TypeOK
<1>2. PlaceInv'
  BY DEF PlaceInv
<1>3. ListInv'
  BY DEF ListInv, Restorable, Listed, Done, PlaceInv
<1>4. ItemInv'
  BY DEF ItemInv, Done, PlaceInv
<1>5. CurInv'
  BY DEF CurInv, Done, HasItem
<1>6. CoverInv'
  BY DEF CoverInv, Covered, HasItem, Complete
<1>7. ObjectInv'
  BY RemovalFacts DEF ObjectInv, PlaceInv, TypeOK, DaemonTypeOK
<1>8. AnswerInv'
  BY DEF AnswerInv, PlaceInv
<1>9. OthersInv'
  BY RemovalFacts DEF OthersInv, Complete
<1>. QED  BY <1>1, <1>2, <1>3, <1>4, <1>5, <1>6, <1>7, <1>8, <1>9

(* The new configuration starts without the files of the old one. *)
LEMMA ReplacedInductive ==
    ASSUME ManagerInv, Replaced
    PROVE  ManagerInv'
<1>. USE DEF Replaced
<1>1. TypeOK'
  <2>1. DaemonTypeOK'
    BY RemovalFacts DEF TypeOK, DaemonTypeOK
  <2>2. booting' \in BOOLEAN
    BY DEF TypeOK
  <2>3. /\ pc' \in {"prepare", "idle"} /\ next' \in {next, 0} /\ after' \in {after, "done"}
        /\ target' \in {target, None} /\ cur' \in {cur, NoPath}
    BY DEF TypeOK
  <2>. QED  BY <2>1, <2>2, <2>3, RemovalFacts DEF TypeOK
<1>2. PlaceInv'
  BY DEF PlaceInv
<1>3. ListInv'
  BY DEF ListInv, Restorable, Listed, Done, PlaceInv
<1>4. ItemInv'
  BY DEF ItemInv, Done, PlaceInv
<1>5. CurInv'
  BY DEF CurInv, Done, HasItem
<1>6. CoverInv'
  BY DEF CoverInv, Covered, HasItem, Complete
<1>7. ObjectInv'
  BY RemovalFacts DEF ObjectInv, PlaceInv, TypeOK, DaemonTypeOK
<1>8. AnswerInv'
  BY DEF AnswerInv, PlaceInv
<1>9. OthersInv'
  BY RemovalFacts DEF OthersInv, Complete
<1>. QED  BY <1>1, <1>2, <1>3, <1>4, <1>5, <1>6, <1>7, <1>8, <1>9

(* The daemon is gone: what was active is given up. *)
LEMMA DaemonLostInductive ==
    ASSUME ManagerInv, DaemonLost
    PROVE  ManagerInv'
<1>. USE DEF DaemonLost
<1>1. TypeOK'
  <2>1. DaemonTypeOK'
    BY EmptySeq DEF TypeOK, DaemonTypeOK
  <2>. QED  BY <2>1 DEF TypeOK
<1>2. PlaceInv'
  BY DEF PlaceInv, TypeOK, ActiveIds
<1>3. ListInv'
  BY DEF ListInv, Restorable, Listed, Done
<1>4. ItemInv'
  BY DEF ItemInv, Done
<1>5. CurInv'
  BY DEF CurInv, Done, HasItem
<1>6. CoverInv'
  BY DEF CoverInv, Covered, HasItem, Complete
<1>7. ObjectInv'
  BY DEF ObjectInv
<1>8. AnswerInv'
  BY DEF AnswerInv, ActiveIds, TypeOK, Item
<1>9. OthersInv'
  BY DEF OthersInv, Complete
<1>. QED  BY <1>1, <1>2, <1>3, <1>4, <1>5, <1>6, <1>7, <1>8, <1>9

(* A signal is handled: of an item nobody waits for, of one that failed, or of one whose
   file is on the disk, since only that is announced as finished. *)
LEMMA ItemFinishedInductive ==
    ASSUME ManagerInv, ItemFinished
    PROVE  ManagerInv'
<1>. DEFINE i  == Head(sig).id
            ok == Head(sig).state = "FINISHED" /\ up /\ obj[i] # NoObject
<1>1. sig \in Seq(Signal) /\ sig # <<>> /\ Head(sig) # Lost /\ i \in Ids
  BY TailFacts DEF TypeOK, DaemonTypeOK, ItemFinished, Signal
<1>2. /\ obj' = Released(obj, {i}) /\ listed' = listed \ {i} /\ sig' = Tail(sig) /\ pc = "idle"
      /\ UNCHANGED <<disk, used, up, bus, durable, counters>>
  BY DEF ItemFinished
<1>3. /\ DaemonTypeOK'
      /\ \A j \in Ids : obj'[j] \in {obj[j], NoObject} /\ (j # i => obj'[j] = obj[j])
  BY <1>1, <1>2, ReleasedFacts, TailFacts DEF TypeOK, DaemonTypeOK
<1>4. /\ \A k \in DOMAIN sig' : \E j \in DOMAIN sig : sig'[k] = sig[j]
      /\ \A j \in Ids : j # i /\ (\E k \in DOMAIN sig : sig[k] = Lost \/ sig[k].id = j)
            => \E k \in DOMAIN sig' : sig'[k] = Lost \/ sig'[k].id = j
  <2>1. /\ \A k \in DOMAIN sig' : k + 1 \in DOMAIN sig /\ sig'[k] = sig[k + 1]
        /\ \A k \in DOMAIN sig : k = 1 \/ (k - 1 \in DOMAIN sig' /\ sig'[k - 1] = sig[k])
        /\ sig[1].id = i /\ sig[1] # Lost
    BY <1>1, <1>2, TailFacts
  <2>2. ASSUME NEW j \in Ids, j # i, NEW k \in DOMAIN sig, sig[k] = Lost \/ sig[k].id = j
        PROVE  \E l \in DOMAIN sig' : sig'[l] = Lost \/ sig'[l].id = j
    <3>1. k # 1
      BY <2>1, <2>2
    <3>. QED  BY <2>1, <2>2, <3>1
  <2>. QED  BY <2>1, <2>2
<1>5. \A it \in items : it.id \in 0 .. MaxIds /\ (it.id = 0 \/ it.id \in Ids)
  BY DaemonAssumption DEF TypeOK, Item, Ids
<1>5a. /\ \A j \in Ids : /\ obj'[j] # NoObject => j <= used'
                         /\ obj'[j].state = "ACTIVE" => obj'[j].fd # "closed"
       /\ \A k \in DOMAIN sig' : sig'[k].id <= used'
  <2>1. ASSUME NEW j \in Ids
        PROVE  (obj'[j] # NoObject => j <= used') /\ (obj'[j].state = "ACTIVE" => obj'[j].fd # "closed")
    <3>1. CASE obj'[j] = obj[j]
      BY <1>2, <3>1 DEF ObjectInv
    <3>2. CASE obj'[j] = NoObject
      BY <3>2 DEF NoObject
    <3>. QED  BY <1>3, <3>1, <3>2
  <2>2. ASSUME NEW k \in DOMAIN sig'
        PROVE  sig'[k].id <= used'
    BY <1>2, <1>4 DEF ObjectInv
  <2>. QED  BY <2>1, <2>2
<1>5b. \A it \in items, k \in DOMAIN sig' :
         pc \notin GivingUp /\ it.id # 0 /\ sig'[k].id = it.id /\ sig'[k].state = "FINISHED" => disk[it.file] = "complete"
  BY <1>4 DEF ObjectInv
<1>. HIDE DEF i, ok
<1>6. CASE i \notin ActiveIds /\ GoTo("idle") /\ UNCHANGED items
  <2>1. TypeOK'
    BY <1>1, <1>2, <1>3, <1>6 DEF TypeOK
  <2>2. PlaceInv'
    BY <1>1, <1>2, <1>3, <1>4, <1>5, <1>6 DEF PlaceInv
  <2>3. ListInv'
    BY <1>1, <1>2, <1>3, <1>4, <1>5, <1>6 DEF ListInv, Restorable, Listed, Done
  <2>4. ItemInv'
    BY <1>1, <1>2, <1>3, <1>4, <1>5, <1>6 DEF ItemInv, Done
  <2>5. CurInv'
    BY <1>1, <1>2, <1>3, <1>4, <1>5, <1>6 DEF CurInv, Done, HasItem
  <2>6. CoverInv'
    BY <1>1, <1>2, <1>3, <1>4, <1>5, <1>6 DEF CoverInv, Covered, HasItem, Complete
  <2>7. ObjectInv'
    <3>1. \A it \in items' : it.id <= used'
      BY <1>2, <1>6 DEF ObjectInv
    <3>2. ASSUME NEW it \in items', it.id # 0
          PROVE  /\ obj'[it.id] # NoObject => obj'[it.id].file = it.file /\ obj'[it.id].fd # "unlinked"
                 /\ (\E k \in DOMAIN sig' : sig'[k].id = it.id /\ sig'[k].state = "FINISHED")
                       => disk'[it.file] = "complete"
      BY <1>2, <1>3, <1>5, <1>5b, <1>6, <3>2 DEF ObjectInv
    <3>. QED  BY <1>5a, <3>1, <3>2 DEF ObjectInv
  <2>8. AnswerInv'
    <3>1. ASSUME NEW it \in items', it.id # 0
          PROVE  /\ bus' /\ it.id \in listed'
                 /\ \/ obj'[it.id].state \in {"WAITING", "ACTIVE", "INTERRUPTED"}
                    \/ \E k \in DOMAIN sig' : sig'[k] = Lost \/ sig'[k].id = it.id
      <4>1. it \in items /\ it.id \in Ids /\ it.id # i
        BY <1>5, <1>6, <3>1 DEF ActiveIds
      <4>2. /\ bus /\ it.id \in listed
            /\ \/ obj[it.id].state \in {"WAITING", "ACTIVE", "INTERRUPTED"}
               \/ \E k \in DOMAIN sig : sig[k] = Lost \/ sig[k].id = it.id
        BY <1>2, <3>1, <4>1 DEF AnswerInv
      <4>. QED  BY <1>2, <1>3, <1>4, <4>1, <4>2
    <3>. QED  BY <1>2, <1>6, <3>1 DEF AnswerInv
  <2>9. OthersInv'
    BY <1>1, <1>2, <1>3, <1>4, <1>5, <1>6 DEF OthersInv, Complete
  <2>. QED  BY <2>1, <2>2, <2>3, <2>4, <2>5, <2>6, <2>7, <2>8, <2>9
<1>7. CASE i \in ActiveIds /\ CancelThen("failed") /\ UNCHANGED items
  <2>1. TypeOK'
    BY <1>1, <1>2, <1>3, <1>7 DEF TypeOK
  <2>2. PlaceInv'
    BY <1>1, <1>2, <1>7 DEF PlaceInv, TypeOK, ActiveIds
  <2>3. ListInv'
    BY <1>1, <1>2, <1>3, <1>4, <1>7 DEF ListInv, Restorable, Listed, Done
  <2>4. ItemInv'
    BY <1>1, <1>2, <1>3, <1>4, <1>7 DEF ItemInv, Done
  <2>5. CurInv'
    BY <1>1, <1>2, <1>3, <1>4, <1>7 DEF CurInv, Done, HasItem
  <2>6. CoverInv'
    BY <1>1, <1>2, <1>3, <1>4, <1>7 DEF CoverInv, Covered, HasItem, Complete
  <2>7. ObjectInv'
    BY <1>2, <1>5a, <1>7 DEF ObjectInv
  <2>8. AnswerInv'
    BY <1>1, <1>2, <1>3, <1>4, <1>7 DEF AnswerInv
  <2>9. OthersInv'
    BY <1>1, <1>2, <1>3, <1>4, <1>7 DEF OthersInv, Complete
  <2>. QED  BY <2>1, <2>2, <2>3, <2>4, <2>5, <2>6, <2>7, <2>8, <2>9
<1>8. ASSUME i \in ActiveIds, ok, NEW it \in items, it.id = i,
             items' = (items \ {it}) \cup {[it EXCEPT !.id = 0]},
             cur' = it.file, pc' = "mark", next' = 0, UNCHANGED <<after, target, booting>>
      PROVE  ManagerInv'
  <2>. DEFINE new == [it EXCEPT !.id = 0]
  <2>a. /\ it \in Item /\ new \in Item /\ new.file = it.file /\ new.id = 0 /\ it.id # 0 /\ new # it
        /\ items' = (items \ {it}) \cup {new}
    BY <1>8, DaemonAssumption DEF TypeOK, Item, ActiveIds
  <2>. HIDE DEF new
  <2>b. \A x \in items : x = it \/ (x \in items' /\ x.id # i /\ x.file # it.file)
    BY <1>8, <2>a DEF ItemInv
  <2>c. disk[it.file] = "complete"
    BY <1>1, <1>2, <1>8, <2>a, TailFacts DEF ObjectInv, ok, i
  <2>d. civg = "DOWNLOAD" /\ config # None
    BY <1>2 DEF PlaceInv, TypeOK
  <2>e. \A f : Done(f) => Done(f)'
    BY <2>a, <2>b DEF Done
  <2>f. \A f : HasItem(f)' <=> HasItem(f)
    BY <2>a, <2>b DEF HasItem
  <2>1. TypeOK'
    BY <1>1, <1>2, <1>3, <1>8, <2>a DEF TypeOK, Item
  <2>2. PlaceInv'
    BY <1>2, <1>8, <2>d DEF PlaceInv
  <2>3. ListInv'
    BY <1>2, <1>8, <2>a, <2>b, <2>e DEF ListInv, Restorable, Listed
  <2>4. ItemInv'
    BY <1>2, <1>8, <2>a, <2>b, <2>c, <2>e DEF ItemInv
  <2>5. CurInv'
    <3>1. Done(cur)'
      BY <1>8, <2>a DEF Done
    <3>2. it.file[2] = "META" => ~HasItem(Data(it.file[1]))
      BY <1>2, <2>a, <2>b, FileFacts DEF ItemInv, HasItem, Done, Item
    <3>. QED  BY <1>8, <2>f, <3>1, <3>2 DEF CurInv
  <2>6. CoverInv'
    BY <1>2, <1>8, <2>a, <2>b, <2>d, <2>f DEF CoverInv, Covered
  <2>7. ObjectInv'
    <3>1. \A x \in items' : x.id # 0 => x \in items
      BY <2>a
    <3>2. ASSUME NEW x \in items'
          PROVE  x.id <= used'
      BY <1>2, <2>a, <3>1, DaemonAssumption DEF ObjectInv, TypeOK, DaemonTypeOK
    <3>3. ASSUME NEW x \in items', x.id # 0
          PROVE  /\ obj'[x.id] # NoObject => obj'[x.id].file = x.file /\ obj'[x.id].fd # "unlinked"
                 /\ (\E k \in DOMAIN sig' : sig'[k].id = x.id /\ sig'[k].state = "FINISHED")
                       => disk'[x.file] = "complete"
      BY <1>2, <1>3, <1>5, <1>5b, <3>1, <3>3 DEF ObjectInv
    <3>. QED  BY <1>5a, <3>2, <3>3 DEF ObjectInv
  <2>8. AnswerInv'
    <3>1. ASSUME NEW x \in items', x.id # 0
          PROVE  /\ bus' /\ x.id \in listed'
                 /\ \/ obj'[x.id].state \in {"WAITING", "ACTIVE", "INTERRUPTED"}
                    \/ \E k \in DOMAIN sig' : sig'[k] = Lost \/ sig'[k].id = x.id
      <4>1. x \in items /\ x.id \in Ids /\ x.id # i
        BY <1>5, <2>a, <2>b, <3>1
      <4>2. /\ bus /\ x.id \in listed
            /\ \/ obj[x.id].state \in {"WAITING", "ACTIVE", "INTERRUPTED"}
               \/ \E k \in DOMAIN sig : sig[k] = Lost \/ sig[k].id = x.id
        BY <1>2, <3>1, <4>1 DEF AnswerInv
      <4>. QED  BY <1>2, <1>3, <1>4, <4>1, <4>2
    <3>. QED  BY <1>8, <3>1 DEF AnswerInv
  <2>9. OthersInv'
    BY <1>1, <1>2, <1>3, <1>4, <1>5, <1>8, <2>a, <2>b, <2>c, <2>d, <2>e, <2>f DEF OthersInv, Complete
  <2>. QED  BY <2>1, <2>2, <2>3, <2>4, <2>5, <2>6, <2>7, <2>8, <2>9
<1>. QED  BY <1>6, <1>7, <1>8 DEF ItemFinished, i, ok

(* A download begins with nothing listed and no item. *)
LEMMA BeginInductive ==
    ASSUME ManagerInv, NEW u \in Updates, Begin(u)
    PROVE  ManagerInv'
<1>. USE DEF Begin
<1>1. TypeOK'
  <2>1. DaemonTypeOK'
    BY DEF TypeOK, DaemonTypeOK
  <2>2. calls' \in 0 .. MaxCalls
    BY BoundsAssumption DEF TypeOK
  <2>. QED  BY <2>1, <2>2 DEF TypeOK
<1>2. PlaceInv'
  BY UpdatesAssumption DEF PlaceInv
<1>3. ListInv'
  BY DEF ListInv, Restorable, Listed, Done, PlaceInv
<1>4. ItemInv'
  BY DEF ItemInv, Done, PlaceInv
<1>5. CurInv'
  BY DEF CurInv, Done, HasItem
<1>6. CoverInv'
  BY DEF CoverInv, Covered, HasItem, Complete
<1>7. ObjectInv'
  BY DEF ObjectInv
<1>8. AnswerInv'
  BY DEF AnswerInv
<1>9. OthersInv'
  BY DEF OthersInv, Complete
<1>. QED  BY <1>1, <1>2, <1>3, <1>4, <1>5, <1>6, <1>7, <1>8, <1>9

(* Another configuration is at hand: the download is cancelled first. *)
LEMMA ReplaceInductive ==
    ASSUME ManagerInv, NEW u \in Updates \cup {None}, Replace(u)
    PROVE  ManagerInv'
<1>. USE DEF Replace
<1>1. TypeOK'
  <2>1. DaemonTypeOK'
    BY DEF TypeOK, DaemonTypeOK
  <2>2. calls' \in 0 .. MaxCalls
    BY BoundsAssumption DEF TypeOK
  <2>. QED  BY <2>1, <2>2 DEF TypeOK
<1>2. PlaceInv'
  BY DEF PlaceInv
<1>3. ListInv'
  BY DEF ListInv, Restorable, Listed, Done
<1>4. ItemInv'
  BY DEF ItemInv, Done
<1>5. CurInv'
  BY DEF CurInv, Done, HasItem
<1>6. CoverInv'
  BY DEF CoverInv, Covered, HasItem, Complete
<1>7. ObjectInv'
  BY DEF ObjectInv
<1>8. AnswerInv'
  BY DEF AnswerInv
<1>9. OthersInv'
  BY DEF OthersInv, Complete
<1>. QED  BY <1>1, <1>2, <1>3, <1>4, <1>5, <1>6, <1>7, <1>8, <1>9

(* The list grows by the path behind its end; what follows is the extraction, or the end
   of the download when nothing is active. *)
LEMMA MarkSizeInductive ==
    ASSUME ManagerInv, MarkSize
    PROVE  ManagerInv'
<1>. USE DEF MarkSize
<1>1. TypeOK'
  <2>1. DaemonTypeOK'
    BY DEF TypeOK, DaemonTypeOK
  <2>1a. booting' \in BOOLEAN
    BY ZenonT(30) DEF TypeOK, Settled
  <2>2. /\ size' \in Nat /\ pc' \in {"extract", "clean", "idle"} /\ next' \in Nat
        /\ after' \in {"done", after} /\ target' \in {target, None} /\ cur' \in {cur, NoPath}
    BY DEF TypeOK, Settled
  <2>. QED  BY <2>1, <2>1a, <2>2 DEF TypeOK
<1>2. PlaceInv'
  BY DEF PlaceInv, TypeOK, Settled
<1>3. ListInv'
  <2>1. /\ 0 .. size - 1 \subseteq DOMAIN slots /\ size \in DOMAIN slots /\ slots[size] = cur
        /\ size \in Nat /\ config # None /\ cur \in File /\ pc' # "down"
    BY DEF ListInv, CurInv, PlaceInv, Restorable, TypeOK, Settled, Done, Item
  <2>2. \A k \in 0 .. size' - 1 : k = size \/ k \in 0 .. size - 1
    BY <2>1
  <2>3. \A f : Listed(f)' <=> Listed(f) \/ f = cur
    BY <2>1, <2>2 DEF Listed
  <2>4. Done(cur) /\ \A f : Done(f)' <=> Done(f)
    BY DEF Done, CurInv
  <2>5. /\ cur[1] \in UfsOf(config) /\ disk[cur] = "complete"
        /\ cur[2] = "DATA" => cur[1] \in extracted /\ Done(Meta(cur[1]))
    BY <2>4 DEF ItemInv, Done
  <2>6. cur[2] = "DATA" => Listed(Meta(cur[1]))
    BY <2>1, <2>5, FileFacts DEF ListInv, Done
  <2>7. \A k \in 0 .. size - 1 :
            /\ slots[k][1] \in UfsOf(config)
            /\ disk[slots[k]] = "complete"
            /\ slots[k][2] = "DATA" => slots[k][1] \in extracted /\ Listed(Meta(slots[k][1]))
            /\ Done(slots[k])
    BY <2>1 DEF ListInv, Restorable
  <2>8. \A it \in items : it.id = 0 => Listed(it.file) \/ it.file = cur
    BY DEF ListInv
  <2>. QED  BY <2>1, <2>2, <2>3, <2>4, <2>5, <2>6, <2>7, <2>8 DEF ListInv, Restorable
<1>4. ItemInv'
  BY DEF ItemInv, Done, Settled
<1>5. CurInv'
  <2>1. pc' \in {"extract", "clean", "idle"} /\ (pc' = "extract" => cur[2] = "META" /\ cur' = cur /\ next' = next)
    BY DEF Settled
  <2>. QED  BY <2>1 DEF CurInv, Done, HasItem, PlaceInv
<1>6. CoverInv'
  <2>1. config \in Updates /\ Fetching /\ next = 0 /\ UNCHANGED <<config, civg, items, disk, extracted>>
    BY DEF PlaceInv, TypeOK
  <2>2. CASE cur[2] = "META"
    BY <2>1, <2>2 DEF CoverInv, Covered, HasItem
  <2>3. CASE cur[2] # "META"
    <3>1. \A uf \in UfsOf(config) : Covered(uf)
      BY <2>1, <2>3, FileFacts DEF CoverInv
    <3>2. ActiveIds = {} => Complete(config)
      BY <2>1, <3>1, AllThere
    <3>3. pc' = "idle" \/ (pc' = "clean" /\ ActiveIds = {})
      BY <2>3 DEF Settled
    <3>. QED  BY <2>1, <3>1, <3>2, <3>3 DEF CoverInv, Covered, HasItem, Complete
  <2>. QED  BY <2>2, <2>3
<1>7. ObjectInv'
  BY DEF ObjectInv, Settled
<1>8. AnswerInv'
  BY DEF AnswerInv, ActiveIds, Settled
<1>9. OthersInv'
  BY DEF OthersInv, Complete, Settled
<1>. QED  BY <1>1, <1>2, <1>3, <1>4, <1>5, <1>6, <1>7, <1>8, <1>9

(* The archive of the item at hand is extracted, or the download is given up. *)
LEMMA ExtractInductive ==
    ASSUME ManagerInv, Extract
    PROVE  ManagerInv'
<1>. USE DEF Extract
<1>1. TypeOK'
  <2>1. DaemonTypeOK' /\ booting' \in BOOLEAN
    BY DEF TypeOK, DaemonTypeOK
  <2>2. extracted' \subseteq UF
    BY FileFacts DEF TypeOK, CurInv, Done, Item
  <2>3. faults' \in 0 .. MaxFaults
    BY BoundsAssumption DEF TypeOK, Fault
  <2>4. /\ pc' \in {"resuming", "data", "cancel"} /\ next' \in Nat /\ after' \in {after, "failed"}
        /\ target' = target /\ cur' = cur
    BY DEF TypeOK
  <2>. QED  BY <2>1, <2>2, <2>3, <2>4 DEF TypeOK
<1>2. PlaceInv'
  <2>1. config \in Updates /\ civg = "DOWNLOAD" /\ pc' \in {"resuming", "data", "cancel"}
    BY DEF PlaceInv, TypeOK
  <2>2. pc' = "resuming" => next' \in 1 .. Len(UFs[config]) + 1
    BY <2>1, UfFacts DEF CurInv, TypeOK
  <2>3. pc' = "cancel" => after' = "failed"
    BY DEF PlaceInv
  <2>. QED  BY <2>1, <2>2, <2>3 DEF PlaceInv
<1>3. ListInv'
  BY DEF ListInv, Restorable, Listed, Done
<1>4. ItemInv'
  BY DEF ItemInv, Done
<1>5. CurInv'
  BY DEF CurInv, Done, HasItem
<1>6. CoverInv'
  <2>1. config \in Updates /\ Fetching /\ UNCHANGED <<config, items, civg>>
    BY DEF PlaceInv, TypeOK
  <2>2. CASE pc' = "cancel"
    BY <2>2 DEF CoverInv
  <2>3. CASE pc' = "data"
    <3>1. next' = next /\ cur' = cur
      BY <2>3
    <3>. QED  BY <2>1, <2>3, <3>1 DEF CoverInv, Covered, HasItem
  <2>4. CASE pc' = "resuming" /\ next' = next + 1 /\ next # 0 /\ HasItem(Data(cur[1]))
    <3>1. next \in DOMAIN UFs[config] /\ cur = Meta(UFs[config][next]) /\ next \in Nat
      BY <2>4 DEF CurInv, TypeOK
    <3>2. Covered(UFs[config][next])
      BY <2>4, <3>1, FileFacts DEF Covered
    <3>3. \A k \in DOMAIN UFs[config] : k < next + 1 => k < next \/ k = next
      BY <2>1, <3>1, UfFacts
    <3>4. \A k \in DOMAIN UFs[config] : k >= next + 1 => k >= next
      BY <2>1, <3>1, UfFacts
    <3>. QED  BY <2>1, <2>4, <3>1, <3>2, <3>3, <3>4 DEF CoverInv, Covered, HasItem
  <2>. QED  BY <2>2, <2>3, <2>4
<1>7. ObjectInv'
  BY DEF ObjectInv
<1>8. AnswerInv'
  BY DEF AnswerInv
<1>9. OthersInv'
  <2>1. config \in Updates /\ civg = "DOWNLOAD" /\ cur[1] \in UfsOf(config)
    BY DEF PlaceInv, TypeOK, CurInv, Done, ItemInv
  <2>2. \A u \in Updates : u # config => cur[1] \notin UfsOf(u)
    BY <2>1, UpdatesAssumption
  <2>. QED  BY <2>1, <2>2 DEF OthersInv, Complete
<1>. QED  BY <1>1, <1>2, <1>3, <1>4, <1>5, <1>6, <1>7, <1>8, <1>9

(* An item is started, or the download is given up: of the files of the other    *)
(* items, of what is listed and of the other updates nothing is touched.         *)
LEMMA StartItemInductive ==
    ASSUME ManagerInv, NEW f \in File, NEW p, NEW n, StartItem(f, p, n),
           config \in Updates, civg = "DOWNLOAD", pc \in {"starting", "resuming", "data"},
           f[1] \in UfsOf(config), \A it \in items : it.file \notin Directory(f),
           f[2] = "DATA" => f[1] \in extracted /\ Done(Meta(f[1])),
           \/ p \in {"starting", "resuming"} /\ n \in 1 .. Len(UFs[config]) + 1
           \/ p = "idle" /\ n = 0,
           pc' = p => CoverInv'
    PROVE  ManagerInv'
<1>0. /\ \A it \in items : /\ it.file[1] \in UfsOf(config)
                           /\ it.id = 0 => disk[it.file] = "complete"
                           /\ it.file[2] = "DATA" => it.file[1] \in extracted /\ Done(Meta(it.file[1]))
      /\ \A a, b \in items : a.file = b.file \/ (a.id = b.id /\ a.id # 0) => a = b
  BY DEF ItemInv
<1>0a. \A it \in items :
        /\ it.file \in File /\ it.id \in Int /\ it.id <= used /\ (it.id # 0 => it.id \in Ids)
        /\ it.id # 0 =>
            /\ obj[it.id] # NoObject => obj[it.id].file = it.file /\ obj[it.id].fd # "unlinked"
            /\ (\E k \in DOMAIN sig : sig[k].id = it.id /\ sig[k].state = "FINISHED")
                  => disk[it.file] = "complete"
            /\ bus /\ it.id \in listed
            /\ \/ obj[it.id].state \in {"WAITING", "ACTIVE", "INTERRUPTED"}
               \/ \E k \in DOMAIN sig : sig[k] = Lost \/ sig[k].id = it.id
  <2>1. \A it \in items : it.file \in File /\ it.id \in 0 .. MaxIds
    BY DEF TypeOK, Item
  <2>2. \A it \in items : it.id \in Int /\ (it.id # 0 => it.id \in Ids)
    BY <2>1, DaemonAssumption DEF Ids
  <2>. QED  BY <2>1, <2>2 DEF ObjectInv, AnswerInv
<1>1. /\ UNCHANGED <<up, bus, sig, civg, config, slots, size, tracked, calls, crashes, target, booting>>
      /\ used' \in 0 .. MaxIds /\ faults' \in 0 .. MaxFaults
  <2>1. UNCHANGED <<up, bus, sig, civg, config, slots, size, tracked, calls, crashes, target, booting>>
    BY DEF StartItem, Started, NotStarted
  <2>2. used' \in 0 .. MaxIds
    BY DaemonAssumption DEF StartItem, Started, NotStarted, TypeOK, DaemonTypeOK
  <2>3. faults' = faults \/ Fault
    BY DEF StartItem, Started, NotStarted
  <2>4. faults' \in 0 .. MaxFaults
    BY <2>3, BoundsAssumption DEF Fault, TypeOK
  <2>. QED  BY <2>1, <2>2, <2>4
<1>2. /\ disk' \in [File -> {"absent", "partial", "complete"}]
      /\ \A g \in File : g \notin Directory(f) => disk'[g] = disk[g]
      /\ extracted' \subseteq extracted
      /\ \A uf \in extracted : uf \in extracted' \/ (f[2] = "META" /\ uf = f[1])
  <2>1. CASE UNCHANGED <<disk, extracted>>
    BY <2>1 DEF TypeOK, DaemonTypeOK
  <2>2. CASE \E F \in SUBSET Directory(f) : PathMade(f, F)
    <3>1. PICK F \in SUBSET Directory(f) : PathMade(f, F)
      BY <2>2
    <3>2. disk' = Emptied(F) /\ extracted' \in {extracted, extracted \ {f[1]}}
          /\ (f[2] = "DATA" => extracted' = extracted)
      BY <3>1 DEF PathMade
    <3>3. f[2] \in {"META", "DATA"}
      BY FileFacts
    <3>. QED  BY <3>2, <3>3, EmptiedFacts DEF TypeOK, DaemonTypeOK
  <2>. QED  BY <2>1, <2>2 DEF StartItem, Started, NotStarted
<1>3. /\ f \in Directory(f)
      /\ f[2] = "META" => Data(f[1]) \in Directory(f)
      /\ \A g \in Directory(f) : g[1] = f[1]
  BY FileFacts DEF Directory
<1>4. \A it \in items : /\ it \in Item /\ it.file # f /\ disk'[it.file] = disk[it.file]
                        /\ it.file[2] = "DATA" /\ it.file[1] \in extracted => it.file[1] \in extracted'
  BY <1>2, <1>3, FileFacts DEF TypeOK, Item
<1>5. \A u \in Updates : u # config => \A uf \in UfsOf(u) :
        disk'[Meta(uf)] = disk[Meta(uf)] /\ disk'[Data(uf)] = disk[Data(uf)]
          /\ (uf \in extracted' <=> uf \in extracted)
  BY <1>2, <1>3, UfFacts, FileFacts, UpdatesAssumption
<1>6. OthersInv'
  BY <1>1, <1>5 DEF OthersInv, Complete
<1>7. ASSUME \A g : Done(g) => Done(g)', pc' # "down",
             pc' \notin GivingUp => \A it \in items' : it.id = 0 => it \in items
      PROVE  ListInv'
  <2>1. \A g : Listed(g)' <=> Listed(g)
    BY <1>1 DEF Listed
  <2>2. /\ Restorable /\ Restorable' /\ \A it \in items : it.id = 0 => Listed(it.file)
        /\ \A k \in 0 .. size - 1 :
            /\ slots[k][1] \in UfsOf(config)
            /\ disk[slots[k]] = "complete"
            /\ slots[k][2] = "DATA" => slots[k][1] \in extracted /\ Listed(Meta(slots[k][1]))
            /\ Done(slots[k])
    BY <1>1 DEF ListInv, Restorable
  <2>3. \A k \in 0 .. size - 1 :
            /\ disk'[slots[k]] = "complete"
            /\ slots[k][2] = "DATA" => slots[k][1] \in extracted'
    <3>1. ASSUME NEW k \in 0 .. size - 1
          PROVE  /\ disk'[slots[k]] = "complete"
                 /\ slots[k][2] = "DATA" => slots[k][1] \in extracted'
      <4>1. PICK it \in items : it.file = slots[k]
        BY <2>2 DEF Done
      <4>. QED  BY <1>4, <2>2, <4>1
    <3>. QED  BY <3>1
  <2>. QED  BY <1>1, <1>7, <2>1, <2>2, <2>3 DEF ListInv
<1>8. CASE /\ Started(f) /\ pc' = p /\ next' = n /\ cur' = NoPath /\ UNCHANGED <<after, target, booting>>
  <2>0. PICK F \in SUBSET Directory(f) : obj' = Created(Unlinked(obj, F), f)
    BY <1>8 DEF Started
  <2>. DEFINE new == [file |-> f, id |-> used + 1]
              o   == Unlinked(obj, F)
              made == [state |-> "WAITING", file |-> f, fd |-> "closed"]
  <2>1. /\ used \in Nat /\ used + 1 \in Ids /\ used' = used + 1 /\ new \in Item
        /\ new.file = f /\ new.id = used + 1 /\ new.id # 0
    BY <1>8, DaemonAssumption DEF Started, TypeOK, DaemonTypeOK, Ids, Item
  <2>2. items' = items \cup {new} /\ listed' = listed \cup {used + 1} /\ bus /\ obj' = [o EXCEPT ![used + 1] = made]
    BY <1>8, <2>0 DEF Started, Listing, Created
  <2>3. /\ o \in [Ids -> Object] /\ made \in Object /\ made # NoObject
        /\ made.state = "WAITING" /\ made.file = f /\ made.fd = "closed"
    BY UnlinkedFacts DEF TypeOK, DaemonTypeOK, Object, DownloadState, Descriptor, NoObject
  <2>. HIDE DEF new, o, made
  <2>4. /\ obj' \in [Ids -> Object] /\ obj'[used + 1] = made
        /\ \A i \in Ids : i # used + 1 => obj'[i] = o[i]
    BY <2>1, <2>2, <2>3
  <2>5. \A i \in Ids : /\ o[i].state = obj[i].state /\ o[i].file = obj[i].file
                       /\ o[i] = NoObject <=> obj[i] = NoObject
                       /\ o[i].fd = "closed" <=> obj[i].fd = "closed"
                       /\ obj[i].file \notin Directory(f) => o[i] = obj[i]
    BY UnlinkedFacts DEF o, TypeOK, DaemonTypeOK
  <2>6. \A it \in items : it.id <= used /\ it.id # used + 1 /\ (it.id # 0 => it.id \in Ids)
    BY <1>0a, <2>1
  <2>7. \A g : Done(g)' <=> Done(g)
    BY <2>1, <2>2 DEF Done
  <2>8. TypeOK'
    BY <1>1, <1>2, <1>8, <2>1, <2>2, <2>4 DEF TypeOK, DaemonTypeOK
  <2>9. PlaceInv'
    BY <1>1, <1>8, UpdatesAssumption DEF PlaceInv
  <2>10. ListInv'
    BY <1>7, <1>8, <2>1, <2>2, <2>7
  <2>11. ItemInv'
    <3>1. \A it \in items' : it.file[1] \in UfsOf(config)
      BY <2>1, <2>2 DEF ItemInv
    <3>2. \A a, b \in items' : a.file = b.file \/ (a.id = b.id /\ a.id # 0) => a = b
      BY <1>0, <1>4, <2>1, <2>2, <2>6
    <3>3. \A it \in items' : it.id = 0 => disk'[it.file] = "complete"
      BY <1>0, <1>4, <2>1, <2>2
    <3>4. \A it \in items' : it.file[2] = "DATA" => it.file[1] \in extracted' /\ Done(Meta(it.file[1]))'
      <4>1. ASSUME NEW it \in items', it.file[2] = "DATA"
            PROVE  it.file[1] \in extracted' /\ Done(Meta(it.file[1]))'
        <5>1. CASE it = new
          BY <1>2, <2>1, <2>7, <4>1, <5>1
        <5>2. CASE it \in items
          BY <1>0, <1>4, <2>7, <4>1, <5>2
        <5>. QED  BY <2>2, <5>1, <5>2
      <4>. QED  BY <4>1
    <3>. QED  BY <1>1, <3>1, <3>2, <3>3, <3>4 DEF ItemInv
  <2>12. CurInv'
    BY <1>8 DEF CurInv
  <2>13. ObjectInv'
    <3>1. \A i \in Ids : (obj'[i] # NoObject => i <= used') /\ (obj'[i].state = "ACTIVE" => obj'[i].fd # "closed")
      <4>1. ASSUME NEW i \in Ids
            PROVE  (obj'[i] # NoObject => i <= used') /\ (obj'[i].state = "ACTIVE" => obj'[i].fd # "closed")
        <5>1. CASE i = used + 1
          BY <2>1, <2>3, <2>4, <5>1
        <5>2. CASE i # used + 1
          <6>1. obj[i] # NoObject => i <= used
            BY DEF ObjectInv
          <6>2. obj[i].state = "ACTIVE" => obj[i].fd # "closed"
            BY DEF ObjectInv
          <6>3. obj'[i] = o[i] /\ i \in Int
            BY <2>4, <5>2 DEF Ids
          <6>. QED  BY <2>1, <2>5, <6>1, <6>2, <6>3
        <5>. QED  BY <5>1, <5>2
      <4>. QED  BY <4>1
    <3>2. \A k \in DOMAIN sig' : sig'[k].id <= used /\ sig'[k].id <= used' /\ sig[k].id \in Nat
      BY <1>1, <2>1, DaemonAssumption DEF ObjectInv, TypeOK, DaemonTypeOK, Signal, Lost, Ids
    <3>3. \A it \in items' : it.id <= used'
      BY <1>0a, <2>1, <2>2
    <3>4. ASSUME NEW it \in items', it.id # 0
          PROVE  /\ obj'[it.id] # NoObject => obj'[it.id].file = it.file /\ obj'[it.id].fd # "unlinked"
                 /\ (\E k \in DOMAIN sig' : sig'[k].id = it.id /\ sig'[k].state = "FINISHED")
                       => disk'[it.file] = "complete"
      <4>1. CASE it = new
        <5>1. \A k \in DOMAIN sig' : sig'[k].id # it.id
          BY <1>1, <2>1, <3>2, <4>1
        <5>. QED  BY <2>1, <2>3, <2>4, <4>1, <5>1
      <4>2. CASE it \in items
        <5>1. /\ obj[it.id] # NoObject => obj[it.id].file = it.file /\ obj[it.id].fd # "unlinked"
              /\ (\E k \in DOMAIN sig : sig[k].id = it.id /\ sig[k].state = "FINISHED")
                    => disk[it.file] = "complete"
          BY <1>0a, <3>4, <4>2
        <5>2. it.id \in Ids /\ obj'[it.id] = o[it.id]
          BY <2>4, <2>6, <3>4, <4>2
        <5>3. obj'[it.id] # NoObject => obj'[it.id] = obj[it.id]
          <6>1. obj[it.id] = NoObject <=> o[it.id] = NoObject
            BY <2>5, <5>2
          <6>2. obj[it.id] # NoObject => o[it.id] = obj[it.id]
            BY <2>5, <4>2, <5>1, <5>2
          <6>. QED  BY <5>2, <6>1, <6>2
        <5>4. obj'[it.id] # NoObject => obj[it.id] # NoObject
          BY <2>5, <5>2
        <5>. QED  BY <1>1, <1>4, <4>2, <5>1, <5>3, <5>4
      <4>. QED  BY <2>2, <4>1, <4>2
    <3>. QED  BY <3>1, <3>2, <3>3, <3>4 DEF ObjectInv
  <2>14. AnswerInv'
    <3>1. ASSUME NEW it \in items', it.id # 0
          PROVE  /\ bus' /\ it.id \in listed'
                 /\ \/ obj'[it.id].state \in {"WAITING", "ACTIVE", "INTERRUPTED"}
                    \/ \E k \in DOMAIN sig' : sig'[k] = Lost \/ sig'[k].id = it.id
      <4>1. CASE it = new
        BY <1>1, <2>1, <2>2, <2>3, <2>4, <4>1
      <4>2. CASE it \in items
        <5>1. it.id \in Ids /\ obj'[it.id].state = obj[it.id].state
          BY <1>0a, <2>4, <2>5, <2>6, <3>1, <4>2
        <5>. QED  BY <1>0a, <1>1, <2>2, <3>1, <4>2, <5>1
      <4>. QED  BY <2>2, <4>1, <4>2
    <3>2. \E it \in items' : it.id # 0
      BY <2>1, <2>2
    <3>. QED  BY <3>1, <3>2 DEF AnswerInv
  <2>. QED  BY <1>6, <1>8, <2>8, <2>9, <2>10, <2>11, <2>12, <2>13, <2>14
<1>9. CASE NotStarted(f) /\ CancelThen("failed")
  <2>. DEFINE new == [file |-> f, id |-> 0]
  <2>1. new \in Item /\ new.file = f /\ new.id = 0 /\ items' = items \cup {new} /\ UNCHANGED <<used, listed>>
    BY <1>9, DaemonAssumption DEF NotStarted, Listing, Item
  <2>. HIDE DEF new
  <2>2. /\ obj' \in [Ids -> Object]
        /\ \A i \in Ids : /\ obj'[i].state = obj[i].state
                          /\ obj'[i] = NoObject <=> obj[i] = NoObject
                          /\ obj'[i].fd = "closed" <=> obj[i].fd = "closed"
    <3>1. obj' = obj \/ \E F \in SUBSET Directory(f) : obj' = Unlinked(obj, F)
      BY <1>9 DEF NotStarted
    <3>2. obj \in [Ids -> Object]
      BY DEF TypeOK, DaemonTypeOK
    <3>3. CASE obj' = obj
      BY <3>2, <3>3
    <3>4. CASE \E F \in SUBSET Directory(f) : obj' = Unlinked(obj, F)
      BY <3>2, <3>4, UnlinkedFacts
    <3>. QED  BY <3>1, <3>3, <3>4
  <2>3. \A g : Done(g) => Done(g)'
    BY <2>1 DEF Done
  <2>4. TypeOK'
    BY <1>1, <1>2, <1>9, <2>1, <2>2 DEF TypeOK, DaemonTypeOK
  <2>5. PlaceInv'
    BY <1>1, <1>9, UpdatesAssumption DEF PlaceInv
  <2>6. ListInv'
    BY <1>7, <1>9, <2>3
  <2>7. ItemInv'
    BY <1>0, <1>1, <1>4, <1>9, <2>1 DEF ItemInv
  <2>8. CurInv' /\ CoverInv'
    BY <1>9 DEF CurInv, CoverInv
  <2>9. ObjectInv'
    <3>1. ASSUME NEW i \in Ids
          PROVE  (obj'[i] # NoObject => i <= used') /\ (obj'[i].state = "ACTIVE" => obj'[i].fd # "closed")
      <4>1. (obj[i] # NoObject => i <= used) /\ (obj[i].state = "ACTIVE" => obj[i].fd # "closed")
        BY DEF ObjectInv
      <4>. QED  BY <2>1, <2>2, <4>1
    <3>2. \A k \in DOMAIN sig' : sig'[k].id <= used'
      BY <1>1, <2>1 DEF ObjectInv
    <3>3. \A it \in items' : it.id <= used'
      BY <1>0a, <2>1 DEF TypeOK, DaemonTypeOK
    <3>. QED  BY <1>9, <3>1, <3>2, <3>3 DEF ObjectInv
  <2>10. AnswerInv'
    BY <1>9 DEF AnswerInv
  <2>. QED  BY <1>6, <2>4, <2>5, <2>6, <2>7, <2>8, <2>9, <2>10
<1>. QED  BY <1>8, <1>9 DEF StartItem

(* What has been started is one active item more, and what was covered still is. *)
LEMMA StartedFacts ==
    ASSUME TypeOK, NEW f, NEW p, NEW n, p # "cancel", StartItem(f, p, n), pc' = p
    PROVE  /\ \E new : new.file = f /\ new.id # 0 /\ items' = items \cup {new}
           /\ next' = n /\ UNCHANGED <<civg, config>>
           /\ \A uf : Covered(uf) => Covered(uf)'
<1>1. Started(f) /\ next' = n
  BY DEF StartItem
<1>. DEFINE new == [file |-> f, id |-> used + 1]
<1>2. new.file = f /\ new.id # 0 /\ items' = items \cup {new}
  BY <1>1 DEF Started, Listing, TypeOK, DaemonTypeOK
<1>. HIDE DEF new
<1>. QED  BY <1>1, <1>2 DEF StartItem, Covered, HasItem

(* The archives of the update files are started one after the other. *)
LEMMA StartMetaInductive ==
    ASSUME ManagerInv, NoUrl = {}, StartMeta
    PROVE  ManagerInv'
<1>0. PICK uf : uf = UFs[config][next]
  OBVIOUS
<1>1. /\ pc = "starting" /\ next \in DOMAIN UFs[config]
      /\ StartItem(Meta(uf), "starting", next + 1)
  BY <1>0 DEF StartMeta
<1>2. config \in Updates /\ civg = "DOWNLOAD"
  BY <1>1 DEF PlaceInv, TypeOK
<1>3. uf \in UfsOf(config) /\ Meta(uf) \in File /\ next + 1 \in 1 .. Len(UFs[config]) + 1
  BY <1>0, <1>1, <1>2, UfFacts, FileFacts
<1>4. \A it \in items : it.file \notin Directory(Meta(uf))
  <2>1. \A it \in items : it.file[1] # uf
    BY <1>0, <1>1, <1>2, <1>3, UfFacts DEF CoverInv
  <2>. QED  BY <2>1, FileFacts DEF Directory
<1>5. ASSUME pc' = "starting"
      PROVE  CoverInv'
  <2>1. PICK new : new.file = Meta(uf) /\ new.id # 0 /\ items' = items \cup {new}
    BY <1>1, <1>5, StartedFacts
  <2>2. next' = next + 1 /\ UNCHANGED <<civg, config>> /\ \A x : Covered(x) => Covered(x)'
    BY <1>1, <1>5, StartedFacts
  <2>3. Covered(uf)'
    BY <2>1 DEF Covered
  <2>4. \A k \in DOMAIN UFs[config] : k < next + 1 => Covered(UFs[config][k])'
    <3>1. \A k \in DOMAIN UFs[config] : k < next + 1 => k < next \/ k = next
      BY <1>1, <1>2, UfFacts
    <3>. QED  BY <1>0, <1>1, <2>2, <2>3, <3>1 DEF CoverInv
  <2>5. \A k \in DOMAIN UFs[config] : k >= next + 1 => \A it \in items' : it.file[1] # UFs[config][k]
    <3>1. \A k \in DOMAIN UFs[config] : k >= next + 1 => k >= next /\ k # next
      BY <1>1, <1>2, UfFacts
    <3>2. \A k \in DOMAIN UFs[config] : k >= next + 1 => UFs[config][k] # uf
      BY <1>0, <1>1, <1>2, <3>1, UfFacts
    <3>. QED  BY <1>0, <1>1, <2>1, <3>1, <3>2, FileFacts DEF CoverInv
  <2>. QED  BY <1>5, <2>2, <2>4, <2>5 DEF CoverInv
<1>. QED  BY <1>1, <1>2, <1>3, <1>4, <1>5, StartItemInductive, FileFacts

(* An update file whose archive is there goes on with the extraction; the archive *)
(* of any other is started.                                                       *)
LEMMA ResumeFileInductive ==
    ASSUME ManagerInv, ResumeFile
    PROVE  ManagerInv'
<1>0. PICK uf : uf = UFs[config][next]
  OBVIOUS
<1>1. pc = "resuming" /\ next \in DOMAIN UFs[config]
  BY DEF ResumeFile
<1>2. config \in Updates /\ civg = "DOWNLOAD"
  BY <1>1 DEF PlaceInv, TypeOK
<1>3. uf \in UfsOf(config) /\ Meta(uf) \in File /\ next + 1 \in 1 .. Len(UFs[config]) + 1 /\ next # 0
  BY <1>0, <1>1, <1>2, UfFacts, FileFacts
<1>4. CASE HasItem(Meta(uf))
  <2>1. /\ pc' = "extract" /\ cur' = Meta(uf)
        /\ UNCHANGED <<next, after, target, booting, daemonVars, durable, items, listed, counters>>
    BY <1>0, <1>4 DEF ResumeFile
  <2>2. Done(Meta(uf))
    BY <1>0, <1>1, <1>2, <1>4, FileFacts, UfFacts DEF CoverInv, HasItem, Done
  <2>3. TypeOK'
    BY <1>3, <2>1 DEF TypeOK, DaemonTypeOK
  <2>4. PlaceInv'
    BY <1>1, <1>2, <2>1 DEF PlaceInv
  <2>5. ListInv'
    BY <1>1, <2>1 DEF ListInv, Restorable, Listed, Done
  <2>6. ItemInv'
    BY <1>1, <2>1 DEF ItemInv, Done
  <2>7. CurInv'
    BY <1>0, <1>1, <1>3, <2>1, <2>2, FileFacts DEF CurInv, Done
  <2>8. CoverInv'
    BY <1>1, <1>3, <2>1 DEF CoverInv, Covered, HasItem
  <2>9. ObjectInv'
    BY <1>1, <2>1 DEF ObjectInv
  <2>10. AnswerInv'
    BY <1>1, <2>1 DEF AnswerInv
  <2>11. OthersInv'
    BY <2>1 DEF OthersInv, Complete
  <2>. QED  BY <2>3, <2>4, <2>5, <2>6, <2>7, <2>8, <2>9, <2>10, <2>11
<1>5. CASE ~HasItem(Meta(uf))
  <2>1. StartItem(Meta(uf), "resuming", next + 1)
    BY <1>0, <1>5 DEF ResumeFile
  <2>2. \A it \in items : it.file \notin Directory(Meta(uf))
    <3>1. \A it \in items : it.file # Meta(uf) /\ it.file # Data(uf)
      BY <1>1, <1>5, FileFacts DEF HasItem, ItemInv, Done
    <3>. QED  BY <3>1, FileFacts DEF Directory
  <2>3. ASSUME pc' = "resuming"
        PROVE  CoverInv'
    <3>1. PICK new : new.file = Meta(uf) /\ new.id # 0 /\ items' = items \cup {new}
      BY <2>1, <2>3, StartedFacts
    <3>2. next' = next + 1 /\ UNCHANGED <<civg, config>> /\ \A x : Covered(x) => Covered(x)'
      BY <2>1, <2>3, StartedFacts
    <3>3. Covered(uf)'
      BY <3>1 DEF Covered
    <3>4. \A k \in DOMAIN UFs[config] : k < next + 1 => Covered(UFs[config][k])'
      <4>1. \A k \in DOMAIN UFs[config] : k < next + 1 => k < next \/ k = next
        BY <1>1, <1>2, UfFacts
      <4>. QED  BY <1>0, <1>1, <3>2, <3>3, <4>1 DEF CoverInv
    <3>5. \A k \in DOMAIN UFs[config] : k >= next + 1 =>
            \A it \in items' : it.file[1] = UFs[config][k] => it.id = 0
      <4>1. \A k \in DOMAIN UFs[config] : k >= next + 1 => k >= next /\ k # next
        BY <1>1, <1>2, UfFacts
      <4>2. \A k \in DOMAIN UFs[config] : k >= next + 1 => UFs[config][k] # uf
        BY <1>0, <1>1, <1>2, <4>1, UfFacts
      <4>. QED  BY <1>0, <1>1, <3>1, <4>1, <4>2, FileFacts DEF CoverInv
    <3>. QED  BY <2>3, <3>2, <3>4, <3>5 DEF CoverInv
  <2>. QED  BY <1>1, <1>2, <1>3, <2>1, <2>2, <2>3, StartItemInductive, FileFacts
<1>. QED  BY <1>4, <1>5

(* Once its archive is extracted, the data of an update file is started. *)
LEMMA StartDataInductive ==
    ASSUME ManagerInv, StartData
    PROVE  ManagerInv'
<1>0. PICK uf : uf = cur[1]
  OBVIOUS
<1>. DEFINE f == Data(uf)
<1>1. pc = "data"
  BY DEF StartData
<1>2. config \in Updates /\ civg = "DOWNLOAD"
  BY <1>1 DEF PlaceInv, TypeOK
<1>3. /\ cur[2] = "META" /\ uf \in extracted /\ ~HasItem(f) /\ Done(cur)
      /\ next # 0 => next \in DOMAIN UFs[config] /\ cur = Meta(UFs[config][next])
  BY <1>0, <1>1 DEF CurInv
<1>4. /\ cur \in File /\ uf \in UfsOf(config) /\ f \in File /\ f[1] = uf /\ f[2] = "DATA"
      /\ Meta(f[1]) = cur
  BY <1>0, <1>3, FileFacts DEF Done, ItemInv, TypeOK, Item
<1>5. \A it \in items : it.file \notin Directory(f)
  BY <1>3, <1>4 DEF HasItem, Directory
<1>6. CASE next = 0
  <2>1. StartItem(f, "idle", 0)
    BY <1>0, <1>6 DEF StartData
  <2>2. ASSUME pc' = "idle"
        PROVE  CoverInv'
    <3>1. PICK new : new.file = f /\ new.id # 0 /\ items' = items \cup {new}
      BY <2>1, <2>2, StartedFacts
    <3>2. UNCHANGED <<civg, config>> /\ \A x : Covered(x) => Covered(x)'
      BY <2>1, <2>2, StartedFacts
    <3>3. Covered(uf)'
      BY <3>1 DEF Covered, HasItem
    <3>4. \A x \in UfsOf(config) : Covered(x) \/ x = uf
      BY <1>0, <1>1, <1>6, FileFacts DEF CoverInv
    <3>. QED  BY <2>2, <3>2, <3>3, <3>4 DEF CoverInv
  <2>. QED  BY <1>1, <1>2, <1>3, <1>4, <1>5, <2>1, <2>2, StartItemInductive
<1>7. CASE next # 0
  <2>1. StartItem(f, "resuming", next + 1)
    BY <1>0, <1>7 DEF StartData
  <2>2. /\ next \in DOMAIN UFs[config] /\ next + 1 \in 1 .. Len(UFs[config]) + 1
        /\ uf = UFs[config][next]
    BY <1>0, <1>2, <1>3, <1>7, UfFacts, FileFacts
  <2>3. ASSUME pc' = "resuming"
        PROVE  CoverInv'
    <3>1. PICK new : new.file = f /\ new.id # 0 /\ items' = items \cup {new}
      BY <2>1, <2>3, StartedFacts
    <3>2. next' = next + 1 /\ UNCHANGED <<civg, config>> /\ \A x : Covered(x) => Covered(x)'
      BY <2>1, <2>3, StartedFacts
    <3>3. Covered(uf)'
      BY <3>1 DEF Covered, HasItem
    <3>4. \A k \in DOMAIN UFs[config] : k < next + 1 => Covered(UFs[config][k])'
      <4>1. \A k \in DOMAIN UFs[config] : k < next + 1 => k < next \/ k = next
        BY <1>2, <2>2, UfFacts
      <4>. QED  BY <1>1, <1>7, <2>2, <3>2, <3>3, <4>1 DEF CoverInv
    <3>5. \A k \in DOMAIN UFs[config] : k >= next + 1 =>
            \A it \in items' : it.file[1] = UFs[config][k] => it.id = 0
      <4>1. \A k \in DOMAIN UFs[config] : k >= next + 1 => k >= next /\ k # next
        BY <1>2, <2>2, UfFacts
      <4>2. \A k \in DOMAIN UFs[config] : k >= next + 1 => UFs[config][k] # uf
        BY <1>2, <2>2, <4>1, UfFacts
      <4>. QED  BY <1>1, <1>4, <1>7, <3>1, <4>1, <4>2 DEF CoverInv
    <3>. QED  BY <2>3, <3>2, <3>4, <3>5 DEF CoverInv
  <2>. QED  BY <1>1, <1>2, <1>3, <1>4, <1>5, <2>1, <2>2, <2>3, StartItemInductive
<1>. QED  BY <1>6, <1>7

(* The program starts from nothing, gives up what it cannot read back, or takes *)
(* over the files the storage lists.                                            *)
LEMMA BootInductive ==
    ASSUME ManagerInv, Boot
    PROVE  ManagerInv'
<1>1. /\ pc = "down" /\ bus' = TRUE /\ UNCHANGED <<used, up, sig, config, slots, size, listed, calls, crashes>>
      /\ items = {} /\ sig = <<>>
  BY DEF Boot, PlaceInv
<1>2. CASE /\ civg = "IDLE" /\ WorkDirRemoved
           /\ GoTo("idle") /\ UNCHANGED <<civg, items>>
  <2>1. TypeOK'
    <3>1. DaemonTypeOK'
      BY <1>1, <1>2, RemovalFacts DEF TypeOK, DaemonTypeOK
    <3>2. booting' \in BOOLEAN
      BY <1>2 DEF TypeOK
    <3>. QED  BY <1>1, <1>2, <3>1, <3>2, RemovalFacts DEF TypeOK
  <2>2. size = 0
    BY <1>2 DEF PlaceInv
  <2>3. PlaceInv' /\ ItemInv' /\ CurInv' /\ CoverInv' /\ AnswerInv'
    BY <1>1, <1>2, <2>2 DEF PlaceInv, ItemInv, CurInv, CoverInv, AnswerInv
  <2>4. ListInv'
    BY <1>1, <1>2, <2>2 DEF ListInv, Restorable
  <2>5. ObjectInv'
    BY <1>1, <1>2, RemovalFacts DEF ObjectInv
  <2>6. OthersInv'
    BY <1>2, RemovalFacts DEF OthersInv
  <2>. QED  BY <2>1, <2>3, <2>4, <2>5, <2>6
<1>3. CASE /\ civg = "DOWNLOAD" /\ config = None /\ civg' = "IDLE" /\ GoTo("shutdown")
           /\ UNCHANGED <<obj, disk, extracted, tracked, faults, items>>
  <2>1. TypeOK'
    <3>1. DaemonTypeOK' /\ booting' \in BOOLEAN
      BY <1>1, <1>3 DEF TypeOK, DaemonTypeOK
    <3>. QED  BY <1>1, <1>3, <3>1 DEF TypeOK
  <2>2. size = 0
    BY <1>3 DEF PlaceInv
  <2>3. PlaceInv' /\ ItemInv' /\ CurInv' /\ CoverInv' /\ AnswerInv'
    BY <1>1, <1>3, <2>2 DEF PlaceInv, ItemInv, CurInv, CoverInv, AnswerInv
  <2>4. ListInv'
    BY <1>1, <1>3, <2>2 DEF ListInv, Restorable
  <2>5. ObjectInv'
    BY <1>1, <1>3 DEF ObjectInv
  <2>6. OthersInv'
    BY <1>1, <1>3, UpdatesAssumption DEF OthersInv, Complete
  <2>. QED  BY <2>1, <2>3, <2>4, <2>5, <2>6
<1>4. ASSUME civg = "DOWNLOAD", config # None, booting' = TRUE, UNCHANGED <<civg, obj, disk, extracted, tracked, faults>>,
             \/ /\ Restorable
                /\ items' = {[file |-> slots[k], id |-> 0] : k \in 0 .. size - 1}
                /\ pc' = "resuming" /\ next' = 1 /\ UNCHANGED <<after, target, cur>>
             \/ /\ ~Restorable
                /\ pc' = "cancel" /\ after' = "again" /\ UNCHANGED <<next, target, cur, items>>
      PROVE  ManagerInv'
  <2>0. DaemonTypeOK' /\ booting' \in BOOLEAN
    BY <1>1, <1>4 DEF TypeOK, DaemonTypeOK
  <2>1. OthersInv'
    BY <1>1, <1>4 DEF OthersInv, Complete
  <2>2. CASE ~Restorable
    <3>1. TypeOK'
      BY <1>1, <1>4, <2>0, <2>2 DEF TypeOK
    <3>2. PlaceInv' /\ ItemInv' /\ CurInv' /\ CoverInv' /\ AnswerInv'
      BY <1>1, <1>4, <2>2 DEF PlaceInv, ItemInv, CurInv, CoverInv, AnswerInv
    <3>3. ListInv'
      BY <1>1, <1>4, <2>2 DEF ListInv, Restorable
    <3>4. ObjectInv'
      BY <1>1, <1>4, <2>2 DEF ObjectInv
    <3>. QED  BY <2>1, <3>1, <3>2, <3>3, <3>4
  <2>3. CASE Restorable
    <3>1. items' = {[file |-> slots[k], id |-> 0] : k \in 0 .. size - 1} /\ pc' = "resuming" /\ next' = 1
          /\ UNCHANGED <<after, target, cur>>
      BY <1>4, <2>3
    <3>2. \A k \in 0 .. size - 1 :
            /\ slots[k] \in File /\ slots[k][1] \in UfsOf(config) /\ disk[slots[k]] = "complete"
            /\ slots[k][2] = "DATA" => slots[k][1] \in extracted /\ Listed(Meta(slots[k][1]))
      BY <2>3 DEF ListInv, Restorable, TypeOK
    <3>3. \A it \in items' : it.id = 0 /\ \E k \in 0 .. size - 1 : it.file = slots[k] /\ it = [file |-> slots[k], id |-> 0]
      BY <3>1
    <3>a. \A k \in 0 .. size - 1 : \E it \in items' : it.file = slots[k] /\ it.id = 0
      <4>1. ASSUME NEW k \in 0 .. size - 1
            PROVE  [file |-> slots[k], id |-> 0] \in items'
        BY <3>1
      <4>. QED  BY <4>1
    <3>4. \A f : Listed(f) => Done(f)'
      BY <3>a DEF Listed, Done
    <3>5. \A k \in 0 .. size - 1 : Done(slots[k])'
      BY <1>1, <3>a DEF Done
    <3>6. TypeOK'
      <4>1. items' \subseteq Item
        BY <3>1, <3>2, DaemonAssumption DEF Item
      <4>. QED  BY <1>1, <1>4, <2>0, <3>1, <4>1 DEF TypeOK
    <3>7. PlaceInv'
      <4>1. config \in Updates /\ Len(UFs[config]) \in Nat
        BY <1>4, UfFacts DEF TypeOK
      <4>. QED  BY <1>1, <1>4, <3>1, <4>1 DEF PlaceInv
    <3>8. ListInv'
      <4>1. \A f : Listed(f)' <=> Listed(f)
        BY <1>1 DEF Listed
      <4>2. \A it \in items' : Listed(it.file)
        BY <3>3 DEF Listed
      <4>. QED  BY <1>1, <1>4, <2>3, <3>1, <3>2, <3>5, <4>1, <4>2 DEF ListInv, Restorable
    <3>9. ItemInv'
      <4>1. \A it \in items' : /\ it.id = 0 /\ it.file[1] \in UfsOf(config) /\ disk[it.file] = "complete"
                               /\ it.file[2] = "DATA" => it.file[1] \in extracted /\ Done(Meta(it.file[1]))'
        BY <3>2, <3>3, <3>4
      <4>2. \A a, b \in items' : a.file = b.file => a = b
        BY <3>3
      <4>. QED  BY <1>1, <1>4, <4>1, <4>2 DEF ItemInv
    <3>10. CurInv' /\ CoverInv'
      <4>1. config \in Updates /\ DOMAIN UFs[config] = 1 .. Len(UFs[config]) /\ Len(UFs[config]) \in Nat
        BY <1>4, UfFacts DEF TypeOK
      <4>. QED  BY <1>1, <1>4, <3>1, <3>3, <4>1 DEF CurInv, CoverInv
    <3>11. ObjectInv' /\ AnswerInv'
      BY <1>1, <1>4, <3>1, <3>3 DEF ObjectInv, AnswerInv, TypeOK, DaemonTypeOK
    <3>. QED  BY <2>1, <3>6, <3>7, <3>8, <3>9, <3>10, <3>11
  <2>. QED  BY <2>2, <2>3
<1>5. QED
  <2>1. \/ /\ civg = "IDLE" /\ WorkDirRemoved
           /\ GoTo("idle") /\ UNCHANGED <<civg, items>>
        \/ /\ civg = "DOWNLOAD" /\ config = None /\ civg' = "IDLE" /\ GoTo("shutdown")
           /\ UNCHANGED <<obj, disk, extracted, tracked, faults, items>>
        \/ /\ civg = "DOWNLOAD" /\ config # None /\ booting' = TRUE /\ UNCHANGED <<civg, obj, disk, extracted, tracked, faults>>
           /\ IF Restorable
               THEN /\ items' = {[file |-> slots[k], id |-> 0] : k \in 0 .. size - 1}
                    /\ pc' = "resuming" /\ next' = 1 /\ UNCHANGED <<after, target, cur>>
               ELSE /\ pc' = "cancel" /\ after' = "again" /\ UNCHANGED <<next, target, cur>>
                    /\ UNCHANGED items
    BY DEF Boot
  <2>. QED  BY <1>2, <1>3, <1>4, <2>1

(* A signal goes to the end of the line, for a client that listens. *)
LEMMA AppendFacts ==
    ASSUME sig \in Seq(Signal), NEW e \in Signal, sig' = Append(sig, e)
    PROVE  /\ sig' \in Seq(Signal)
           /\ \A k \in DOMAIN sig : k \in DOMAIN sig' /\ sig'[k] = sig[k]
           /\ \A k \in DOMAIN sig' : (k \in DOMAIN sig /\ sig'[k] = sig[k]) \/ sig'[k] = e
           /\ \E k \in DOMAIN sig' : sig'[k] = e
<1>1. /\ Len(sig) \in Nat /\ DOMAIN sig = 1 .. Len(sig) /\ sig' \in Seq(Signal)
      /\ Len(sig') = Len(sig) + 1 /\ DOMAIN sig' = 1 .. Len(sig) + 1
  OBVIOUS
<1>2. sig'[Len(sig) + 1] = e /\ \A k \in 1 .. Len(sig) : sig'[k] = sig[k]
  OBVIOUS
<1>3. \A k \in 1 .. Len(sig) + 1 : k \in 1 .. Len(sig) \/ k = Len(sig) + 1
  BY <1>1
<1>4. \A k \in 1 .. Len(sig) : k \in 1 .. Len(sig) + 1
  BY <1>1
<1>5. Len(sig) + 1 \in 1 .. Len(sig) + 1
  BY <1>1
<1>. QED  BY <1>1, <1>2, <1>3, <1>4, <1>5

LEMMA AnnounceFacts ==
    ASSUME sig \in Seq(Signal), NEW i \in Ids, NEW s, Announce(i, s)
    PROVE  /\ sig' \in Seq(Signal)
           /\ \A k \in DOMAIN sig : k \in DOMAIN sig' /\ sig'[k] = sig[k]
           /\ \A k \in DOMAIN sig' : \/ k \in DOMAIN sig /\ sig'[k] = sig[k]
                                     \/ sig'[k].id = i /\ sig'[k].state = s
           /\ bus /\ s \in {"FINISHED", "ERROR"} => \E k \in DOMAIN sig' : sig'[k].id = i
           /\ ~bus => sig' = sig
<1>1. CASE bus /\ s \in {"FINISHED", "ERROR"}
  <2>. DEFINE e == [id |-> i, state |-> s]
  <2>1. e \in Signal /\ e.id = i /\ e.state = s
    BY <1>1 DEF Signal
  <2>2. sig' = Append(sig, e)
    BY <1>1 DEF Announce
  <2>. HIDE DEF e
  <2>. QED  BY <1>1, <2>1, <2>2, AppendFacts
<1>2. CASE ~(bus /\ s \in {"FINISHED", "ERROR"})
  BY <1>2 DEF Announce
<1>. QED  BY <1>1, <1>2

(* The state of an object changes; its file stays, and its descriptor is there as *)
(* long as it is active.                                                          *)
LEMMA MovedFacts ==
    ASSUME obj \in [Ids -> Object], NEW i \in Ids, obj[i] # NoObject, NEW s \in DownloadState
    PROVE  /\ Moved(i, s) \in [Ids -> Object]
           /\ \A j \in Ids : j # i => Moved(i, s)[j] = obj[j]
           /\ Moved(i, s)[i].state = s /\ Moved(i, s)[i].file = obj[i].file
           /\ s = "ACTIVE" => Moved(i, s)[i].fd # "closed"
           /\ Moved(i, s)[i].fd = "unlinked" => obj[i].fd = "unlinked"
<1>. DEFINE o  == obj[i]
            fd == IF s \notin {"ACTIVE", "PAUSED"} THEN "closed" ELSE IF o.fd = "closed" THEN "open" ELSE o.fd
            m  == [o EXCEPT !.state = s, !.fd = fd]
<1>1. o \in [state : DownloadState, file : File, fd : Descriptor]
  BY DEF Object
<1>2. Moved(i, s) = [obj EXCEPT ![i] = m]
  BY <1>1 DEF Moved
<1>3. fd \in Descriptor /\ (s = "ACTIVE" => fd # "closed") /\ (fd = "unlinked" => o.fd = "unlinked")
  BY <1>1 DEF Descriptor
<1>. HIDE DEF o, fd
<1>4. /\ m \in [state : DownloadState, file : File, fd : Descriptor]
      /\ m.state = s /\ m.file = o.file /\ m.fd = fd
  BY <1>1, <1>3
<1>5. m \in Object
  BY <1>4 DEF Object
<1>. HIDE DEF m
<1>. QED  BY <1>2, <1>3, <1>4, <1>5 DEF o

(* A step of the daemon that takes no finished file away, gives no object another *)
(* file, tells of a success only when the file is there, and forgets nobody who    *)
(* is waited for.                                                                  *)
LEMMA DaemonInductive ==
    ASSUME ManagerInv, UNCHANGED <<manager, tracked, calls, crashes, used, bus>>, DaemonTypeOK', faults' \in 0 .. MaxFaults,
           \A g \in File : disk[g] = "complete" => disk'[g] = "complete",
           \A i \in Ids : /\ obj'[i] # NoObject => /\ obj[i] # NoObject /\ obj'[i].file = obj[i].file
                                                   /\ obj'[i].fd = "unlinked" => obj[i].fd = "unlinked"
                          /\ obj'[i].state = "ACTIVE" => obj'[i].fd # "closed",
           \A k \in DOMAIN sig : k \in DOMAIN sig' /\ sig'[k] = sig[k],
           \A k \in DOMAIN sig' : \/ k \in DOMAIN sig /\ sig'[k] = sig[k]
                                  \/ /\ sig'[k].id <= used
                                     /\ sig'[k].state = "FINISHED" /\ pc \notin GivingUp =>
                                          \A it \in items : it.id # 0 /\ it.id = sig'[k].id => disk'[it.file] = "complete",
           ~bus => sig' = sig,
           bus => \A i \in Ids : obj[i].state \in {"WAITING", "ACTIVE", "INTERRUPTED"} =>
                    \/ obj'[i].state \in {"WAITING", "ACTIVE", "INTERRUPTED"}
                    \/ \E k \in DOMAIN sig' : sig'[k] = Lost \/ sig'[k].id = i
    PROVE  ManagerInv'
<1>0. \A it \in items : it.file \in File /\ (it.id # 0 => it.id \in Ids)
  <2>1. \A it \in items : it.file \in File /\ it.id \in 0 .. MaxIds
    BY DEF TypeOK, Item
  <2>. QED  BY <2>1, DaemonAssumption DEF Ids
<1>1. TypeOK'
  <2>1. booting' \in BOOLEAN
    BY DEF TypeOK
  <2>. QED  BY <2>1 DEF TypeOK
<1>2. PlaceInv'
  BY DEF PlaceInv
<1>3. ListInv'
  <2>1. Restorable => \A k \in 0 .. size - 1 : slots[k] \in File
    BY DEF Restorable, TypeOK
  <2>2. Restorable' <=> Restorable
    BY DEF Restorable
  <2>3. \A f : (Listed(f)' <=> Listed(f)) /\ (Done(f)' <=> Done(f))
    BY DEF Listed, Done
  <2>. QED  BY <2>1, <2>2, <2>3 DEF ListInv
<1>4. ItemInv'
  BY <1>0 DEF ItemInv, Done
<1>5. CurInv'
  BY DEF CurInv, Done, HasItem
<1>6. \A u \in Updates : Complete(u) => Complete(u)'
  BY UfFacts, FileFacts DEF Complete
<1>7. CoverInv'
  <2>1. \A uf : Covered(uf)' <=> Covered(uf)
    BY DEF Covered, HasItem
  <2>2. Complete(config) => Complete(config)'
    BY <1>6 DEF Complete
  <2>. QED  BY <2>1, <2>2 DEF CoverInv
<1>8. ObjectInv'
  <2>1. \A i \in Ids : (obj'[i] # NoObject => i <= used') /\ (obj'[i].state = "ACTIVE" => obj'[i].fd # "closed")
    BY DEF ObjectInv
  <2>2. \A k \in DOMAIN sig' : sig'[k].id <= used'
    BY DEF ObjectInv
  <2>3. \A it \in items' : it.id <= used'
    BY DEF ObjectInv
  <2>4. ASSUME pc' \notin GivingUp, NEW it \in items', it.id # 0
        PROVE  /\ obj'[it.id] # NoObject => obj'[it.id].file = it.file /\ obj'[it.id].fd # "unlinked"
               /\ (\E k \in DOMAIN sig' : sig'[k].id = it.id /\ sig'[k].state = "FINISHED")
                     => disk'[it.file] = "complete"
    <3>1. /\ it \in items /\ it.id \in Ids /\ it.file \in File
          /\ obj[it.id] # NoObject => obj[it.id].file = it.file /\ obj[it.id].fd # "unlinked"
          /\ (\E k \in DOMAIN sig : sig[k].id = it.id /\ sig[k].state = "FINISHED") => disk[it.file] = "complete"
      BY <1>0, <2>4 DEF ObjectInv
    <3>2. obj'[it.id] # NoObject => obj'[it.id].file = it.file /\ obj'[it.id].fd # "unlinked"
      BY <3>1
    <3>3. ASSUME NEW k \in DOMAIN sig', sig'[k].id = it.id, sig'[k].state = "FINISHED"
          PROVE  disk'[it.file] = "complete"
      BY <2>4, <3>1, <3>3
    <3>. QED  BY <3>2, <3>3
  <2>. QED  BY <2>1, <2>2, <2>3, <2>4 DEF ObjectInv
<1>9. AnswerInv'
  <2>1. ASSUME pc' \notin GivingUp, NEW it \in items', it.id # 0
        PROVE  /\ bus' /\ it.id \in listed'
               /\ \/ obj'[it.id].state \in {"WAITING", "ACTIVE", "INTERRUPTED"}
                  \/ \E k \in DOMAIN sig' : sig'[k] = Lost \/ sig'[k].id = it.id
    <3>1. /\ bus /\ it.id \in listed /\ it.id \in Ids
          /\ \/ obj[it.id].state \in {"WAITING", "ACTIVE", "INTERRUPTED"}
             \/ \E k \in DOMAIN sig : sig[k] = Lost \/ sig[k].id = it.id
      BY <1>0, <2>1 DEF AnswerInv
    <3>. QED  BY <3>1
  <2>. QED  BY <2>1 DEF AnswerInv
<1>10. OthersInv'
  BY <1>6 DEF OthersInv
<1>. QED  BY <1>1, <1>2, <1>3, <1>4, <1>5, <1>7, <1>8, <1>9, <1>10

(* The change of an object's state is such a step, if a file is complete when its *)
(* transfer ends.                                                                 *)
LEMMA ChangeStateInductive ==
    ASSUME ManagerInv, UNCHANGED <<manager, tracked, calls, crashes, used, bus, up>>, faults' \in 0 .. MaxFaults,
           NEW i \in Ids, obj[i] # NoObject, NEW new \in {"ACTIVE", "FINISHED", "ERROR", "INTERRUPTED"},
           ChangeState(i, new),
           disk' \in [File -> {"absent", "partial", "complete"}],
           \A g \in File : disk[g] = "complete" => disk'[g] = "complete",
           new = "FINISHED" => obj[i].state = "ACTIVE" /\ (obj[i].fd = "open" => disk'[obj[i].file] = "complete")
    PROVE  ManagerInv'
<1>. DEFINE s == Reached(i, new)
<1>1. s \in DownloadState /\ s \in {"ACTIVE", "FINISHED", "ERROR", "INTERRUPTED"} /\ (s = "FINISHED" => new = "FINISHED")
  BY DEF Reached, DownloadState
<1>2. obj' = Moved(i, s) /\ Announce(i, s)
  BY DEF ChangeState
<1>. HIDE DEF s
<1>3. obj \in [Ids -> Object] /\ sig \in Seq(Signal)
  BY DEF TypeOK, DaemonTypeOK
<1>4. /\ obj' \in [Ids -> Object]
      /\ \A j \in Ids : j # i => obj'[j] = obj[j]
      /\ obj'[i].state = s /\ obj'[i].file = obj[i].file
      /\ s = "ACTIVE" => obj'[i].fd # "closed"
      /\ obj'[i].fd = "unlinked" => obj[i].fd = "unlinked"
  BY <1>1, <1>2, <1>3, MovedFacts
<1>5. /\ sig' \in Seq(Signal)
      /\ \A k \in DOMAIN sig : k \in DOMAIN sig' /\ sig'[k] = sig[k]
      /\ \A k \in DOMAIN sig' : \/ k \in DOMAIN sig /\ sig'[k] = sig[k]
                                \/ sig'[k].id = i /\ sig'[k].state = s
      /\ bus /\ s \in {"FINISHED", "ERROR"} => \E k \in DOMAIN sig' : sig'[k].id = i
      /\ ~bus => sig' = sig
  BY <1>2, <1>3, AnnounceFacts
<1>6. /\ \A j \in Ids : obj[j].state = "ACTIVE" => obj[j].fd # "closed"
      /\ i <= used
  BY DEF ObjectInv
<1>7. DaemonTypeOK'
  BY <1>4, <1>5 DEF TypeOK, DaemonTypeOK
<1>8. ASSUME NEW j \in Ids
      PROVE  /\ obj'[j] # NoObject => /\ obj[j] # NoObject /\ obj'[j].file = obj[j].file
                                      /\ obj'[j].fd = "unlinked" => obj[j].fd = "unlinked"
             /\ obj'[j].state = "ACTIVE" => obj'[j].fd # "closed"
  BY <1>4, <1>6
<1>9. ASSUME NEW k \in DOMAIN sig', sig'[k].id = i, sig'[k].state = s
      PROVE  /\ sig'[k].id <= used
             /\ sig'[k].state = "FINISHED" /\ pc \notin GivingUp =>
                  \A it \in items : it.id # 0 /\ it.id = sig'[k].id => disk'[it.file] = "complete"
  <2>1. ASSUME s = "FINISHED", pc \notin GivingUp, NEW it \in items, it.id # 0, it.id = i
        PROVE  disk'[it.file] = "complete"
    <3>1. obj[i].file = it.file /\ obj[i].fd # "unlinked"
      BY <2>1 DEF ObjectInv
    <3>2. obj[i].fd \in {"closed", "open", "unlinked"}
      BY <1>3 DEF Object, Descriptor, NoObject
    <3>. QED  BY <1>1, <1>6, <2>1, <3>1, <3>2
  <2>. QED  BY <1>6, <1>9, <2>1
<1>10. ASSUME bus, NEW j \in Ids, obj[j].state \in {"WAITING", "ACTIVE", "INTERRUPTED"}
       PROVE  \/ obj'[j].state \in {"WAITING", "ACTIVE", "INTERRUPTED"}
              \/ \E k \in DOMAIN sig' : sig'[k] = Lost \/ sig'[k].id = j
  BY <1>1, <1>4, <1>5, <1>10
<1>. QED  BY <1>5, <1>7, <1>8, <1>9, <1>10, DaemonInductive

(* The daemon gives an object a thread. *)
LEMMA DaemonTakesInductive ==
    ASSUME ManagerInv, DaemonTakes
    PROVE  ManagerInv'
<1>1. PICK i \in Waiting :
        /\ ChangeState(i, "ACTIVE")
        /\ disk' = IF ~Locked(i) /\ disk[obj[i].file] = "absent"
                     THEN [disk EXCEPT ![obj[i].file] = "partial"] ELSE disk
        /\ UNCHANGED <<used, up, bus, manager, counters>>
  BY DEF DaemonTakes, Take
<1>2. i \in Ids /\ obj[i] # NoObject
  BY DEF Waiting, NoObject
<1>3. /\ disk' \in [File -> {"absent", "partial", "complete"}]
      /\ \A g \in File : disk[g] = "complete" => disk'[g] = "complete"
  <2>1. disk \in [File -> {"absent", "partial", "complete"}]
    BY DEF TypeOK, DaemonTypeOK
  <2>2. disk' = disk \/ (disk[obj[i].file] = "absent" /\ disk' = [disk EXCEPT ![obj[i].file] = "partial"])
    BY <1>1
  <2>. QED  BY <2>1, <2>2
<1>4. faults' \in 0 .. MaxFaults
  BY <1>1 DEF TypeOK
<1>. QED  BY <1>1, <1>2, <1>3, <1>4, ChangeStateInductive

(* A transfer comes to its end. *)
LEMMA TransferEndsInductive ==
    ASSUME ManagerInv, NEW i \in Ids, TransferEnds(i)
    PROVE  ManagerInv'
<1>1. /\ obj[i].state = "ACTIVE" /\ ChangeState(i, "FINISHED")
      /\ disk' = IF obj[i].fd = "open" THEN [disk EXCEPT ![obj[i].file] = "complete"] ELSE disk
      /\ UNCHANGED <<used, up, bus, manager, counters>>
  BY DEF TransferEnds, Transferred
<1>2. obj[i] # NoObject
  BY <1>1 DEF NoObject
<1>3. obj[i].file \in File
  BY <1>2 DEF TypeOK, DaemonTypeOK, Object
<1>4. /\ disk' \in [File -> {"absent", "partial", "complete"}]
      /\ \A g \in File : disk[g] = "complete" => disk'[g] = "complete"
      /\ obj[i].fd = "open" => disk'[obj[i].file] = "complete"
  <2>1. disk \in [File -> {"absent", "partial", "complete"}]
    BY DEF TypeOK, DaemonTypeOK
  <2>. QED  BY <1>1, <1>3, <2>1
<1>5. faults' \in 0 .. MaxFaults
  BY <1>1 DEF TypeOK
<1>. QED  BY <1>1, <1>2, <1>4, <1>5, ChangeStateInductive

(* A transfer or the whole daemon fails. *)
LEMMA DaemonFailsInductive ==
    ASSUME ManagerInv, DaemonFails
    PROVE  ManagerInv'
<1>1. UNCHANGED <<manager, tracked, calls, crashes>> /\ faults' \in 0 .. MaxFaults
  BY BoundsAssumption DEF DaemonFails, Fault, TypeOK
<1>2. CASE DaemonDies
  <2>1. /\ up' = FALSE /\ obj' = [i \in Ids |-> NoObject] /\ UNCHANGED <<disk, used, bus>>
        /\ sig' = IF bus THEN Append(sig, Lost) ELSE sig
    BY <1>2 DEF DaemonDies
  <2>2. obj' \in [Ids -> Object] /\ \A i \in Ids : obj'[i] = NoObject
    BY <2>1 DEF Object
  <2>3. sig \in Seq(Signal) /\ Lost \in Signal
    BY DEF TypeOK, DaemonTypeOK, Signal
  <2>4. /\ sig' \in Seq(Signal)
        /\ \A k \in DOMAIN sig : k \in DOMAIN sig' /\ sig'[k] = sig[k]
        /\ \A k \in DOMAIN sig' : (k \in DOMAIN sig /\ sig'[k] = sig[k]) \/ sig'[k] = Lost
        /\ bus => \E k \in DOMAIN sig' : sig'[k] = Lost
        /\ ~bus => sig' = sig
    <3>1. CASE bus
      BY <2>1, <2>3, <3>1, AppendFacts
    <3>2. CASE ~bus
      BY <2>1, <2>3, <3>2
    <3>. QED  BY <3>1, <3>2
  <2>5. DaemonTypeOK'
    BY <2>1, <2>2, <2>4 DEF TypeOK, DaemonTypeOK
  <2>6. Lost.id <= used /\ Lost.state # "FINISHED" /\ NoObject.state # "ACTIVE"
    BY DEF Lost, NoObject, TypeOK, DaemonTypeOK
  <2>7. \A k \in DOMAIN sig' : \/ k \in DOMAIN sig /\ sig'[k] = sig[k]
                               \/ sig'[k].id <= used /\ sig'[k].state # "FINISHED"
    BY <2>4, <2>6
  <2>. QED  BY <1>1, <2>1, <2>2, <2>4, <2>5, <2>6, <2>7, DaemonInductive
<1>3. ASSUME NEW i \in Ids, TransferStops(i)
      PROVE  ManagerInv'
  <2>1. PICK s \in {"ERROR", "INTERRUPTED"} :
          obj[i].state = "ACTIVE" /\ ChangeState(i, s) /\ UNCHANGED <<disk, used, up, bus>>
    BY <1>3 DEF TransferStops
  <2>2. obj[i] # NoObject
    BY <2>1 DEF NoObject
  <2>3. disk' \in [File -> {"absent", "partial", "complete"}]
    BY <2>1 DEF TypeOK, DaemonTypeOK
  <2>. QED  BY <1>1, <2>1, <2>2, <2>3, ChangeStateInductive
<1>. QED  BY <1>2, <1>3 DEF DaemonFails

(* Nothing is downloaded, nothing is there. *)
LEMMA InitHolds ==
    ASSUME Init
    PROVE  ManagerInv
<1>. USE DEF Init, DaemonInit
<1>1. TypeOK
  <2>1. DaemonTypeOK
    <3>1. obj \in [Ids -> Object] /\ disk \in [File -> {"absent", "partial", "complete"}]
      BY DEF Object
    <3>2. sig \in Seq(Signal)
      BY EmptySeq
    <3>3. used \in 0 .. MaxIds /\ up = TRUE /\ bus = FALSE
      BY DaemonAssumption
    <3>. QED  BY <3>1, <3>2, <3>3 DEF DaemonTypeOK
  <2>2. booting \in BOOLEAN
    OBVIOUS
  <2>3. \A i \in DOMAIN slots : FALSE
    OBVIOUS
  <2>. QED  BY <2>1, <2>2, <2>3, BoundsAssumption DEF TypeOK
<1>2. PlaceInv
  BY DEF PlaceInv
<1>3. ListInv
  BY DEF ListInv, Restorable
<1>4. ItemInv /\ CurInv /\ CoverInv /\ AnswerInv
  BY DEF ItemInv, CurInv, CoverInv, AnswerInv
<1>5. ObjectInv
  BY DEF ObjectInv, NoObject
<1>6. OthersInv
  BY DEF OthersInv
<1>. QED  BY <1>1, <1>2, <1>3, <1>4, <1>5, <1>6

(* Every step keeps the invariant. *)
LEMMA NextInductive ==
    ASSUME ManagerInv, NoUrl = {}, [Next]_vars
    PROVE  ManagerInv'
<1>1. CASE UNCHANGED vars
  BY <1>1, StutterInductive
<1>2. ASSUME NEW u \in Updates, Begin(u)
      PROVE  ManagerInv'
  BY <1>2, BeginInductive
<1>3. ASSUME NEW u \in Updates \cup {None}, Replace(u)
      PROVE  ManagerInv'
  BY <1>3, ReplaceInductive
<1>4. CASE Working
  <2>1. CASE Replaced
    BY <2>1, ReplacedInductive
  <2>2. CASE Prepare
    BY <2>2, PrepareInductive
  <2>3. CASE StartMeta
    BY <2>3, StartMetaInductive
  <2>4. CASE AllStarted
    BY <2>4, AllStartedInductive
  <2>5. CASE ResumeFile
    BY <2>5, ResumeFileInductive
  <2>6. CASE Extract
    BY <2>6, ExtractInductive
  <2>7. CASE StartData
    BY <2>7, StartDataInductive
  <2>8. CASE ItemFinished
    BY <2>8, ItemFinishedInductive
  <2>9. CASE DaemonLost
    BY <2>9, DaemonLostInductive
  <2>10. CASE MarkPath
    BY <2>10, MarkPathInductive
  <2>11. CASE MarkSize
    BY <2>11, MarkSizeInductive
  <2>12. CASE Cancel
    BY <2>12, CancelInductive
  <2>13. CASE CleanPath
    BY <2>13, CleanPathInductive
  <2>14. CASE CleanSize
    BY <2>14, CleanSizeInductive
  <2>15. CASE Again
    BY <2>15, AgainInductive
  <2>16. CASE Succeeded
    BY <2>16, SucceededInductive
  <2>17. CASE Failed
    BY <2>17, FailedInductive
  <2>18. CASE ShutDown
    BY <2>18, ShutDownInductive
  <2>. QED  BY <1>4, <2>1, <2>2, <2>3, <2>4, <2>5, <2>6, <2>7, <2>8, <2>9, <2>10, <2>11, <2>12, <2>13,
               <2>14, <2>15, <2>16, <2>17, <2>18 DEF Working
<1>5. CASE Upgraded
  BY <1>5, UpgradedInductive
<1>6. CASE Boot
  BY <1>6, BootInductive
<1>7. CASE Crash
  BY <1>7, CrashInductive
<1>8. CASE Shutdown
  BY <1>8, ShutdownInductive
<1>9. CASE DaemonTakes
  BY <1>9, DaemonTakesInductive
<1>10. CASE DaemonFails
  BY <1>10, DaemonFailsInductive
<1>11. CASE DaemonReturns
  BY <1>11, DaemonReturnsInductive
<1>12. ASSUME NEW i \in Ids, TransferEnds(i)
       PROVE  ManagerInv'
  BY <1>12, TransferEndsInductive
<1>13. CASE Wait
  BY <1>13, StutterInductive DEF Wait
<1>. QED  BY <1>1, <1>2, <1>3, <1>4, <1>5, <1>6, <1>7, <1>8, <1>9, <1>10, <1>11, <1>12, <1>13 DEF Next

(* When every update file has an url, the download manager keeps its invariant,  *)
(* however many updates, files, crashes and failures there are.                  *)
THEOREM ManagerInvariance ==
    ASSUME NoUrl = {}
    PROVE  Spec => []ManagerInv
<1>1. Init => ManagerInv
  BY InitHolds
<1>2. ManagerInv /\ [Next]_vars => ManagerInv'
  BY NextInductive
<1>. QED  BY <1>1, <1>2, PTL DEF Spec

(* The manager's and the daemon's variables have their types. *)
THEOREM TypeCorrect ==
    ASSUME NoUrl = {}
    PROVE  Spec => []TypeOK
<1>1. ManagerInv => TypeOK
  OBVIOUS
<1>. QED  BY <1>1, ManagerInvariance, PTL

(* A download that is told to have succeeded has all its files on the disk and  *)
(* all its archives extracted (finalizeDownload).                               *)
THEOREM SuccessComplete ==
    ASSUME NoUrl = {}
    PROVE  Spec => []SuccessIsComplete
<1>1. ManagerInv => SuccessIsComplete
  BY DEF SuccessIsComplete, CoverInv
<1>. QED  BY <1>1, ManagerInvariance, PTL

(* What the storage lists as downloaded is on the disk, in every state in which *)
(* a crash could make the next start believe it (restoreDownloadedItems).       *)
THEOREM ListedIsThere ==
    ASSUME NoUrl = {}
    PROVE  Spec => []ListMatchesDisk
<1>1. ManagerInv => ListMatchesDisk
  BY DEF ListMatchesDisk, ListInv
<1>. QED  BY <1>1, ManagerInvariance, PTL

(* While the main loop waits for a download something is active, and of all that *)
(* is the manager will hear (finishedItemHandler, nameOwnerChangedHandler).      *)
THEOREM EndIsHeard ==
    ASSUME NoUrl = {}
    PROVE  Spec => []SomeoneAnswers
<1>1. ASSUME ManagerInv
      PROVE  SomeoneAnswers
  <2>1. \A i \in ActiveIds : \E it \in items : it.id = i /\ it.id # 0
    BY DEF ActiveIds
  <2>. QED  BY <1>1, <2>1 DEF SomeoneAnswers, AnswerInv, ActiveIds
<1>. QED  BY <1>1, ManagerInvariance, PTL

(* Nothing is complete when no archive is extracted: an update has a file. *)
LEMMA NothingExtracted ==
    ASSUME NEW u \in Updates, \A uf \in UfsOf(u) : uf \notin extracted
    PROVE  ~Complete(u)
<1>1. UfsOf(u) # {}
  <2>1. UFs[u] \in Seq(UF) /\ UFs[u] # <<>>
    BY UpdatesAssumption
  <2>2. 1 \in DOMAIN UFs[u]
    BY <2>1
  <2>. QED  BY <2>2 DEF UfsOf
<1>. QED  BY <1>1 DEF Complete

(* A step that keeps the job and touches the files of no other update is work, or *)
(* not seen from outside.                                                         *)
LEMMA WorkIsSeen ==
    ASSUME ManagerInv, UNCHANGED <<civg, config, tracked>>,
           \A u \in Updates : u \in tracked /\ (u # config \/ civg = "IDLE") => (Complete(u)' <=> Complete(u))
    PROVE  [D!Next]_(D!downloadVars)
<1>. DEFINE have == {u \in Updates : Complete(u) /\ (u \in tracked \/ u = Job)}
<1>1. Job' = Job
  BY DEF Job
<1>2. \A u \in Updates \ {Job} : u \in have' <=> u \in have
  <2>1. \A u \in Updates \ {Job} : u # config \/ civg = "IDLE"
    BY DEF Job, TypeOK
  <2>. QED  BY <1>1, <2>1
<1>3. CASE Job = None
  <2>1. have' = have
    BY <1>2, <1>3, UpdatesAssumption
  <2>. QED  BY <1>1, <2>1 DEF D!downloadVars
<1>4. CASE Job # None
  <2>1. Job \in Updates /\ have \subseteq Updates /\ have' \subseteq Updates
    BY <1>4 DEF Job, TypeOK
  <2>. HIDE DEF have
  <2>2. CASE Job \in have'
    <3>1. have' = have \cup {Job}
      BY <1>2, <2>1, <2>2
    <3>. QED  BY <1>1, <1>4, <3>1 DEF D!Work, D!Next, have
  <2>3. CASE Job \notin have'
    <3>1. have' = have \ {Job}
      BY <1>2, <2>1, <2>3
    <3>. QED  BY <1>1, <1>4, <3>1 DEF D!Work, D!Next, have
  <2>. QED  BY <2>2, <2>3
<1>. QED  BY <1>3, <1>4

(* Of what was removed, or was to be, nothing counts that is not downloaded then. *)
LEMMA RemovedIsGone ==
    ASSUME TypeOK, WorkDirRemoved
    PROVE  {u \in Updates : Complete(u)' /\ u \in tracked'} = {}
<1>1. ASSUME NEW u \in Updates, u \in tracked'
      PROVE  ~Complete(u)'
  <2>1. extracted' = {}
    BY <1>1, RemovalFacts
  <2>2. UFs[u] \in Seq(UF) /\ UFs[u] # <<>>
    BY UpdatesAssumption
  <2>3. 1 \in DOMAIN UFs[u]
    BY <2>2
  <2>. QED  BY <2>1, <2>3 DEF UfsOf, Complete
<1>. QED  BY <1>1

(* The daemon takes no finished file away. *)
LEMMA FinishedStays ==
    ASSUME TypeOK, DaemonTakes \/ DaemonFails \/ \E i \in Ids : TransferEnds(i)
    PROVE  \A g \in File : disk[g] = "complete" => disk'[g] = "complete"
<1>1. disk \in [File -> {"absent", "partial", "complete"}]
  BY DEF TypeOK, DaemonTypeOK
<1>2. CASE DaemonTakes
  <2>1. PICK i \in Ids :
          disk' = disk \/ (disk[obj[i].file] = "absent" /\ disk' = [disk EXCEPT ![obj[i].file] = "partial"])
    BY <1>2 DEF DaemonTakes, Take, Waiting
  <2>. QED  BY <1>1, <2>1
<1>3. CASE DaemonFails
  BY <1>3 DEF DaemonFails, DaemonDies, TransferStops
<1>4. ASSUME NEW i \in Ids, TransferEnds(i)
      PROVE  \A g \in File : disk[g] = "complete" => disk'[g] = "complete"
  BY <1>1, <1>4 DEF TransferEnds, Transferred
<1>. QED  BY <1>2, <1>3, <1>4

(* Whatever is started belongs to the update that is downloaded. *)
LEMMA OthersUntouched ==
    ASSUME ManagerInv, NEW f \in File, NEW p, NEW n, StartItem(f, p, n),
           config \in Updates, f[1] \in UfsOf(config)
    PROVE  \A u \in Updates : u # config => (Complete(u)' <=> Complete(u))
<1>1. \/ \E F \in SUBSET Directory(f) : PathMade(f, F)
      \/ UNCHANGED <<disk, extracted>>
  BY DEF StartItem, Started, NotStarted
<1>2. \A g \in Directory(f) : g[1] = f[1]
  BY FileFacts DEF Directory
<1>3. \A u \in Updates : u # config => \A uf \in UfsOf(u) :
        /\ disk'[Meta(uf)] = disk[Meta(uf)] /\ disk'[Data(uf)] = disk[Data(uf)]
        /\ uf \in extracted' <=> uf \in extracted
  BY <1>1, <1>2, EmptiedFacts, UfFacts, FileFacts, UpdatesAssumption DEF PathMade, TypeOK, DaemonTypeOK
<1>. QED  BY <1>3 DEF Complete

(* Every step is one of module Download, or is not seen from outside. *)
LEMMA NextRefined ==
    ASSUME ManagerInv, NoUrl = {}, [Next]_vars
    PROVE  [D!Next]_(D!downloadVars)
<1>. DEFINE have == {u \in Updates : Complete(u) /\ (u \in tracked \/ u = Job)}
<1>0. WorkDirRemoved => have' \subseteq {Job'}
  BY RemovedIsGone
<1>1. ASSUME UNCHANGED <<civg, config, disk, extracted, tracked>>
      PROVE  [D!Next]_(D!downloadVars)
  BY <1>1 DEF Complete, Job, D!downloadVars
<1>2. ASSUME NEW u \in Updates, Begin(u)
      PROVE  D!Next
  <2>1. Job = None /\ Job' = u /\ UNCHANGED tracked /\ \A v \in Updates : Complete(v)' <=> Complete(v)
    BY <1>2 DEF Begin, Complete, Job
  <2>2. have' \in {have, have \cup {u}}
    <3>1. \A v \in Updates \ {u} : v \in have' <=> v \in have
      BY <2>1, UpdatesAssumption
    <3>2. u \in have => u \in have'
      BY <2>1
    <3>3. have \subseteq Updates /\ have' \subseteq Updates
      OBVIOUS
    <3>. HIDE DEF have
    <3>. QED  BY <3>1, <3>2, <3>3
  <2>3. D!Begin(u)
    BY <2>1, <2>2 DEF D!Begin
  <2>. QED  BY <2>3 DEF D!Next
<1>3. CASE Replaced
  <2>1. civg = "DOWNLOAD" /\ civg' = civg /\ config' = target /\ target # config /\ WorkDirRemoved
    BY <1>3 DEF Replaced, PlaceInv, TypeOK
  <2>2. config \in Updates \cup {None} /\ target \in Updates \cup {None}
    BY DEF TypeOK
  <2>3. Job = config /\ Job' = target
    BY <2>1 DEF Job
  <2>4. have' \in {{}, {target}} /\ (target = None => have' = {})
    <3>1. have' \subseteq {target} /\ have' \subseteq Updates
      BY <1>0, <2>1, <2>3
    <3>. QED  BY <3>1, UpdatesAssumption
  <2>5. CASE config # None /\ target # None
    BY <2>1, <2>2, <2>3, <2>4, <2>5 DEF D!Next, D!Switch
  <2>6. CASE target = None
    BY <2>1, <2>2, <2>3, <2>4, <2>6 DEF D!Next, D!Fail
  <2>7. CASE config = None
    BY <2>1, <2>2, <2>3, <2>4, <2>7 DEF D!Next, D!Begin
  <2>. QED  BY <2>5, <2>6, <2>7
<1>4. CASE Succeeded
  <2>1. civg = "DOWNLOAD" /\ config \in Updates /\ Complete(config)
    BY <1>4 DEF Succeeded, PlaceInv, CoverInv, TypeOK
  <2>2. Job = config /\ Job' = None /\ tracked' = tracked \cup {config}
        /\ \A v \in Updates : Complete(v)' <=> Complete(v)
    BY <1>4, <2>1 DEF Succeeded, Complete, Job
  <2>3. have' = have /\ Job \in have
    BY <2>1, <2>2, UpdatesAssumption
  <2>4. D!Succeed
    BY <2>2, <2>3 DEF D!Succeed
  <2>. QED  BY <2>4 DEF D!Next
<1>5. CASE Failed
  <2>1. civg = "DOWNLOAD" /\ config # None
    BY <1>5 DEF Failed, PlaceInv, TypeOK
  <2>2. Job # None /\ Job' = None /\ WorkDirRemoved
    BY <1>5, <2>1 DEF Failed, Job
  <2>3. have' = {}
    BY <1>0, <2>2, UpdatesAssumption
  <2>4. D!Fail
    BY <2>2, <2>3 DEF D!Fail
  <2>. QED  BY <2>4 DEF D!Next
<1>6. ASSUME Upgraded \/ (Boot /\ civg = "IDLE")
      PROVE  D!Next
  <2>1. Job = None /\ Job' = None /\ WorkDirRemoved
    BY <1>6 DEF Upgraded, Boot, Job
  <2>2. have' = {}
    BY <1>0, <2>1, UpdatesAssumption
  <2>3. D!Clear
    BY <2>1, <2>2 DEF D!Clear
  <2>. QED  BY <2>3 DEF D!Next
<1>7. CASE Boot
  <2>1. CASE civg = "IDLE"
    BY <1>6, <1>7, <2>1
  <2>2. CASE civg = "DOWNLOAD" /\ config = None /\ civg' = "IDLE" /\ UNCHANGED <<config, disk, extracted, tracked>>
    BY <2>2 DEF Complete, Job, D!downloadVars
  <2>3. CASE UNCHANGED <<civg, config, disk, extracted, tracked>>
    BY <1>1, <2>3
  <2>. QED  BY <1>7, <2>1, <2>2, <2>3 DEF Boot
<1>8. CASE DaemonTakes \/ DaemonFails \/ \E i \in Ids : TransferEnds(i)
  <2>1. UNCHANGED <<civg, config, extracted, tracked>>
    BY <1>8 DEF DaemonTakes, DaemonFails, TransferEnds
  <2>2. \A u \in Updates : Complete(u) => Complete(u)'
    BY <1>8, <2>1, FinishedStays, UfFacts, FileFacts DEF Complete
  <2>3. ASSUME NEW u \in Updates, u \in tracked, u # config \/ civg = "IDLE", ~Complete(u)
        PROVE  ~Complete(u)'
    <3>1. \A uf \in UfsOf(u) : uf \notin extracted'
      BY <2>1, <2>3 DEF OthersInv
    <3>2. UfsOf(u) # {}
      <4>1. UFs[u] \in Seq(UF) /\ UFs[u] # <<>>
        BY UpdatesAssumption
      <4>2. 1 \in DOMAIN UFs[u]
        BY <4>1
      <4>. QED  BY <4>2 DEF UfsOf
    <3>. QED  BY <3>1, <3>2 DEF Complete
  <2>. QED  BY <2>1, <2>2, <2>3, WorkIsSeen
<1>9. ASSUME NEW f \in File, NEW p, NEW n, StartItem(f, p, n), civg = "DOWNLOAD", config \in Updates,
             f[1] \in UfsOf(config)
      PROVE  [D!Next]_(D!downloadVars)
  <2>1. UNCHANGED <<civg, config, tracked>>
    BY <1>9 DEF StartItem
  <2>. QED  BY <1>9, <2>1, OthersUntouched, WorkIsSeen
<1>10. CASE StartMeta
  <2>1. civg = "DOWNLOAD" /\ config \in Updates /\ next \in DOMAIN UFs[config]
    BY <1>10 DEF StartMeta, PlaceInv, TypeOK
  <2>2. PICK f \in File : f[1] \in UfsOf(config) /\ StartItem(f, "starting", next + 1)
    BY <1>10, <2>1, UfFacts, FileFacts DEF StartMeta
  <2>. QED  BY <1>9, <2>1, <2>2
<1>11. CASE ResumeFile
  <2>1. civg = "DOWNLOAD" /\ config \in Updates /\ next \in DOMAIN UFs[config]
    BY <1>11 DEF ResumeFile, PlaceInv, TypeOK
  <2>2. CASE HasItem(Meta(UFs[config][next]))
    BY <1>1, <1>11, <2>2 DEF ResumeFile
  <2>3. CASE ~HasItem(Meta(UFs[config][next]))
    <3>1. PICK f \in File : f[1] \in UfsOf(config) /\ StartItem(f, "resuming", next + 1)
      BY <1>11, <2>1, <2>3, UfFacts, FileFacts DEF ResumeFile
    <3>. QED  BY <1>9, <2>1, <3>1
  <2>. QED  BY <2>2, <2>3
<1>12. CASE StartData
  <2>1. civg = "DOWNLOAD" /\ config \in Updates /\ cur[1] \in UfsOf(config)
    BY <1>12 DEF StartData, PlaceInv, TypeOK, CurInv, Done, ItemInv
  <2>2. PICK f : f = Data(cur[1])
    OBVIOUS
  <2>3. f \in File /\ f[1] \in UfsOf(config)
    BY <2>1, <2>2, UfFacts, FileFacts
  <2>4. StartItem(f, "idle", 0) \/ StartItem(f, "resuming", next + 1)
    BY <1>12, <2>2 DEF StartData
  <2>. QED  BY <1>9, <2>1, <2>3, <2>4
<1>13. CASE Extract
  <2>1. civg = "DOWNLOAD" /\ config \in Updates /\ cur[1] \in UfsOf(config)
    BY <1>13 DEF Extract, PlaceInv, TypeOK, CurInv, Done, ItemInv
  <2>2. UNCHANGED <<civg, config, disk, tracked>> /\ (extracted' = extracted \/ extracted' = extracted \cup {cur[1]})
    BY <1>13 DEF Extract
  <2>3. \A u \in Updates : u # config => cur[1] \notin UfsOf(u)
    BY <2>1, UpdatesAssumption
  <2>4. \A u \in Updates : u # config => (Complete(u)' <=> Complete(u))
    BY <2>2, <2>3 DEF Complete
  <2>. QED  BY <2>1, <2>2, <2>4, WorkIsSeen
<1>14. ASSUME \/ Prepare \/ AllStarted \/ ItemFinished \/ DaemonLost \/ MarkPath \/ MarkSize \/ Cancel
              \/ CleanPath \/ CleanSize \/ Again \/ ShutDown \/ Crash \/ Shutdown \/ DaemonReturns \/ Wait
              \/ UNCHANGED vars \/ \E u \in Updates \cup {None} : Replace(u)
       PROVE  UNCHANGED <<civg, config, disk, extracted, tracked>>
  BY <1>14 DEF Prepare, AllStarted, ItemFinished, DaemonLost, MarkPath, MarkSize, Cancel, CleanPath, CleanSize,
               Again, ShutDown, Crash, Ended, Shutdown, DaemonReturns, DaemonStarts, Wait, vars, Replace
<1>. QED  BY <1>1, <1>2, <1>3, <1>4, <1>5, <1>6, <1>7, <1>8, <1>10, <1>11, <1>12, <1>13, <1>14 DEF Next, Working

(* The manager implements what downloading promises: it ends a download with     *)
(* everything in place or with nothing, and no crash, no loss of the daemon and  *)
(* no replacement on the way is seen from outside.                               *)
THEOREM DownloadRefined ==
    ASSUME NoUrl = {}
    PROVE  Spec => DownloadImplemented
<1>1. Init => D!Init
  <2>1. ASSUME Init
        PROVE  \A u \in Updates : ~Complete(u)
    BY <2>1, NothingExtracted DEF Init
  <2>. QED  BY <2>1 DEF Init, D!Init, Job
<1>2. ManagerInv /\ [Next]_vars => [D!Next]_(D!downloadVars)
  BY NextRefined
<1>. QED  BY <1>1, <1>2, ManagerInvariance, PTL DEF Spec, DownloadImplemented, D!Spec

=============================================================================
