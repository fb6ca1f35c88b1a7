----------------------------- MODULE RPManager -----------------------------
(***************************************************************************)
(* The release package manager (modules/rpmanager/rpmanager.c): it applies *)
(* the update files (UFs) of one release package in order, rolls them back *)
(* when one fails, and resumes an update or a rollback that a power loss   *)
(* cut short.                                                              *)
(*                                                                         *)
(* What survives a crash: the three keys of the "rpmanager" storage        *)
(* (rpState, lastUf, installed), the images on the device, and the update  *)
(* itself, which the caller keeps in its own storage.  Everything else is  *)
(* a C static or a local.  A step is one write to the storage, or the      *)
(* start or the end of one update, rollback or recover script: a crash can *)
(* fall between any two of them.                                           *)
(*                                                                         *)
(* The scripts come with the update and are external.  They are given the  *)
(* meaning the control flow relies on: "update" leaves its image at the    *)
(* new content, "rollback" at the content before this update, "recover"    *)
(* completes whichever of the two was interrupted; each may fail instead,  *)
(* and an image whose script has started and not succeeded is torn.        *)
(***************************************************************************)
EXTENDS Integers

CONSTANTS
    MaxUF,       \* the most update files an update may have
    Configs,     \* the available configs a caller may pass
    Absent,      \* the value of a storage key that is not there
    MaxCrashes,  \* bound: power losses in the middle of a call
    MaxFaults,   \* bound: storage, file and script failures
    MaxFailures  \* bound: the two together

UF == 0 .. MaxUF - 1

\* What an available config says of its update: how many UFs it has, whether
\* its RPs are those installed, the versions it leads from and to, and the
\* version assigned to its RP.
Config == [n : 0 .. MaxUF, matches : BOOLEAN, from : Nat, to : Nat, assigned : Nat]

ASSUME MaxUFAssumption  == MaxUF \in Nat \ {0}
ASSUME ConfigAssumption == Configs \subseteq Config /\ Configs # {}
ASSUME AbsentAssumption == Absent \notin Int
ASSUME BoundAssumption  == MaxCrashes \in Nat /\ MaxFaults \in Nat /\ MaxFailures \in Nat

US == "UPDATE_SUCCESS"
RS == "ROLLBACK_SUCCESS"
UP == "UPDATE_PENDING"
RP == "ROLLBACK_PENDING"
States  == {US, RS, UP, RP}
Pending == {UP, RP}

VARIABLES
    rpState,    \* storage: rpmanager_state
    lastUf,     \* storage: last_installed_uf_nb
    installed,  \* storage: installed_config, the version of the updated RP
    image,      \* the device: what each UF's image holds, relative to update
    update,     \* the caller's storage: the update accepted last
    pc,         \* where the call stands, "idle" when there is none
    memState,   \* _state
    ufNb,       \* the index the running loop or recovery works on
    result,     \* the status the last call returned
    upIndex,    \* history: whose index lastUf is while this update is pending
    rbIndex,    \* history: whose it is while its rollback is pending
    crashes, faults

storage == <<rpState, lastUf, installed>>
history == <<upIndex, rbIndex>>
vars == <<storage, image, update, pc, memState, ufNb, result, history, crashes, faults>>

Init ==
    /\ rpState = US /\ lastUf = Absent /\ installed = 0
    /\ image = [u \in UF |-> "pre"]
    /\ update \in Configs
    /\ pc = "idle" /\ memState = US /\ ufNb = 0 /\ result = "none"
    /\ upIndex = "unset" /\ rbIndex = "unset"
    /\ crashes = 0 /\ faults = 0

-----------------------------------------------------------------------------
MayFail == crashes + faults < MaxFailures
Fault   == MayFail /\ faults < MaxFaults /\ faults' = faults + 1
NoFault == UNCHANGED faults

Begin(label) == pc' = label /\ result' = "none"
Goto(label) == pc' = label /\ UNCHANGED result
Return(status) == pc' = "idle" /\ result' = status

\* The process is started anew: every static and local has its first value.
Reboot == pc' = "idle" /\ result' = "none" /\ memState' = US /\ ufNb' = 0

\* Mutant: the static keeps the state that was restored.
SaveStateOnly(s, label) ==
    /\ \/ NoFault /\ rpState' = s /\ Goto(label)
       \/ Fault /\ UNCHANGED rpState /\ Return("CRITICAL")
    /\ UNCHANGED <<lastUf, installed, image, update, memState, ufNb, history, crashes>>

\* saveState: the static is assigned before the write is tried.
SaveState(s, label) ==
    /\ memState' = s
    /\ \/ NoFault /\ rpState' = s /\ Goto(label)
       \/ Fault /\ UNCHANGED rpState /\ Return("CRITICAL")
    /\ UNCHANGED <<lastUf, installed, image, update, ufNb, history, crashes>>

\* Mutant: no check that the action suits the state.
AnyStateConsistent(action) == action \in {"NORMAL", "RESUME"}

\* The state check of preActionChecks.
StateConsistent(action) ==
    IF action = "NORMAL" THEN rpState \notin Pending ELSE rpState \in Pending

\* checkUpdateConsistency: there are updates, for the RPs that are installed,
\* from the installed version, to a later one that is not past the assigned.
UpdateConsistent(c) ==
    /\ c.n > 0
    /\ c.matches
    /\ c.from = installed
    /\ c.to > c.from
    /\ c.to <= c.assigned

\* A call that returns before it changes anything.  After a CRITICAL status
\* the caller closes the storage, so there is no further call until a restart.
Rejected(status) ==
    /\ Return(status)
    /\ UNCHANGED <<storage, image, update, ufNb, history, crashes>>

MayCall == pc = "idle" /\ result # "CRITICAL"

\* What the histories keep: an index is "unset" until this update, or its rollback,
\* stores one of its own, and "guessed" from when it is resumed while it is "unset":
\* what the key holds then is left over from what was before.
Stored(index)     == IF index = "unset" THEN "stored" ELSE index
Guessed(s, index) == IF rpState = s /\ index = "unset" THEN "guessed" ELSE index

\* rpmanager_applyRP.  From here on an image counts as "pre" when it holds
\* what it held when this update was accepted.
Apply(c) ==
    /\ MayCall
    /\ \/ Fault /\ memState' \in {memState, rpState} /\ Rejected("CRITICAL")
       \/ /\ NoFault
          /\ memState' = rpState
          /\ ~ (StateConsistent("NORMAL") /\ UpdateConsistent(c))
          /\ Rejected("ERROR")
       \/ /\ NoFault
          /\ memState' = rpState
          /\ StateConsistent("NORMAL") /\ UpdateConsistent(c)
          /\ update' = c
          /\ image' = [u \in UF |-> "pre"]
          /\ ufNb' = 0
          /\ upIndex' = "unset" /\ rbIndex' = "unset"
          /\ Begin("saveUpdatePending")
          /\ UNCHANGED <<storage, crashes>>

\* Mutant: the index is incremented once too often.
ResumeIndexSkips == IF rpState = UP THEN lastUf + 2 ELSE lastUf

\* The UF whose script was interrupted, as runAction derives it.
ResumeIndex == IF rpState = UP THEN lastUf + 1 ELSE lastUf

\* rpmanager_resume, called with the update that was accepted last.
Resume ==
    /\ MayCall
    /\ \/ Fault /\ memState' \in {memState, rpState} /\ Rejected("CRITICAL")
       \/ /\ NoFault
          /\ memState' = rpState
          /\ ~ (StateConsistent("RESUME") /\ UpdateConsistent(update))
          /\ Rejected("ERROR")
       \/ /\ NoFault
          /\ memState' = rpState
          /\ StateConsistent("RESUME") /\ UpdateConsistent(update)
          /\ lastUf = Absent
          /\ Rejected("CRITICAL")
       \/ /\ NoFault
          /\ memState' = rpState
          /\ StateConsistent("RESUME") /\ UpdateConsistent(update)
          /\ lastUf # Absent
          /\ ufNb' = ResumeIndex
          /\ upIndex' = Guessed(UP, upIndex) /\ rbIndex' = Guessed(RP, rbIndex)
          /\ Begin("recover")
          /\ UNCHANGED <<storage, image, update, crashes>>

-----------------------------------------------------------------------------
\* Starting a script: from here until it succeeds the image is torn.
StartScript(label) ==
    /\ image' = [image EXCEPT ![ufNb] = "torn"]
    /\ Goto(label)

\* runRecover up to the script.  No bound is checked: an index outside of
\* the array is undefined, and the process dies or reads a path that does
\* not exist.
StartRecover ==
    /\ pc = "recover"
    /\ \/ /\ ufNb \in 0 .. update.n - 1
          /\ NoFault /\ StartScript("recovering") /\ UNCHANGED <<memState, ufNb>>
       \/ /\ ufNb \in 0 .. update.n - 1
          /\ Fault /\ Return("CRITICAL") /\ UNCHANGED <<image, memState, ufNb>>
       \/ /\ ufNb \notin 0 .. update.n - 1
          /\ NoFault /\ Return("CRITICAL") /\ UNCHANGED <<image, memState, ufNb>>
       \/ /\ ufNb \notin 0 .. update.n - 1
          /\ NoFault /\ Reboot /\ UNCHANGED image
    /\ UNCHANGED <<storage, update, history, crashes>>

\* The recover script ends, and runAction goes on with the next UF.
EndRecover ==
    /\ pc = "recovering"
    /\ \/ /\ NoFault
          /\ \/ /\ memState = UP
                /\ image' = [image EXCEPT ![ufNb] = "post"]
                /\ ufNb' = ufNb + 1
                /\ Goto("saveUpdatePending")
             \/ /\ memState = RP
                /\ image' = [image EXCEPT ![ufNb] = "pre"]
                /\ IF ufNb > 0
                     THEN ufNb' = ufNb - 1 /\ Goto("saveRollbackPending")
                     ELSE UNCHANGED ufNb /\ Goto("saveRollbackSuccess")
       \/ Fault /\ Return("CRITICAL") /\ UNCHANGED <<image, ufNb>>
    /\ UNCHANGED <<storage, update, memState, history, crashes>>

-----------------------------------------------------------------------------
\* runUpdate

SaveUpdatePending == pc = "saveUpdatePending" /\ SaveState(UP, "update")

\* Mutants: the loop of runUpdate makes one turn too many, or too few.
OneUfTooMany == ufNb <= update.n
OneUfTooFew  == ufNb < update.n - 1

\* The condition of the loop.
MoreUfs == ufNb < update.n

\* The head of the loop, up to the update script.  A failure to read the meta
\* file ends the call; a bad name or checksum, or a script that can not be
\* run, makes a rollback from this UF.
StartUpdate ==
    /\ pc = "update"
    /\ \/ ~ MoreUfs /\ NoFault /\ Goto("saveUpdateSuccess") /\ UNCHANGED image
       \/ MoreUfs /\ NoFault /\ StartScript("updating")
       \/ MoreUfs /\ Fault /\ Return("CRITICAL") /\ UNCHANGED image
       \/ MoreUfs /\ Fault /\ Goto("saveRollbackPending") /\ UNCHANGED image
    /\ UNCHANGED <<storage, update, memState, ufNb, history, crashes>>

EndUpdate ==
    /\ pc = "updating"
    /\ \/ /\ NoFault
          /\ image' = [image EXCEPT ![ufNb] = "post"]
          /\ Goto("saveInstalledUf")
       \/ Fault /\ Goto("saveRollbackPending") /\ UNCHANGED image
    /\ UNCHANGED <<storage, update, memState, ufNb, history, crashes>>

\* Mutants: the count of the installed UFs is stored, not the index of the
\* last one; the loop counter is not advanced.
SaveInstalledCount ==
    /\ pc = "saveInstalledUf"
    /\ \/ /\ NoFault
          /\ lastUf' = ufNb + 1 /\ ufNb' = ufNb + 1
          /\ upIndex' = Stored(upIndex)
          /\ Goto("update")
       \/ Fault /\ Return("CRITICAL") /\ UNCHANGED <<lastUf, ufNb, upIndex>>
    /\ UNCHANGED <<rpState, installed, image, update, memState, rbIndex, crashes>>

SaveSameUfAgain ==
    /\ pc = "saveInstalledUf"
    /\ \/ /\ NoFault
          /\ lastUf' = ufNb /\ ufNb' = ufNb
          /\ upIndex' = Stored(upIndex)
          /\ Goto("update")
       \/ Fault /\ Return("CRITICAL") /\ UNCHANGED <<lastUf, ufNb, upIndex>>
    /\ UNCHANGED <<rpState, installed, image, update, memState, rbIndex, crashes>>

SaveInstalledUf ==
    /\ pc = "saveInstalledUf"
    /\ \/ /\ NoFault
          /\ lastUf' = ufNb /\ ufNb' = ufNb + 1
          /\ upIndex' = Stored(upIndex)
          /\ Goto("update")
       \/ Fault /\ Return("CRITICAL") /\ UNCHANGED <<lastUf, ufNb, upIndex>>
    /\ UNCHANGED <<rpState, installed, image, update, memState, rbIndex, crashes>>

SaveUpdateSuccess == pc = "saveUpdateSuccess" /\ SaveState(US, "finalize")

-----------------------------------------------------------------------------
\* runRollback

SaveRollbackPending == pc = "saveRollbackPending" /\ SaveState(RP, "rollback")

\* Mutant: the loop of runRollback leaves out the first UF.
AllButFirstUf == ufNb > 0

\* The condition of the loop.
MoreToRollBack == ufNb >= 0

StartRollback ==
    /\ pc = "rollback"
    /\ \/ ~ MoreToRollBack /\ NoFault /\ Goto("forgetUf") /\ UNCHANGED image
       \/ MoreToRollBack /\ NoFault /\ StartScript("rollingBack")
       \/ MoreToRollBack /\ Fault /\ Return("CRITICAL") /\ UNCHANGED image
    /\ UNCHANGED <<storage, update, memState, ufNb, history, crashes>>

EndRollback ==
    /\ pc = "rollingBack"
    /\ \/ /\ NoFault
          /\ image' = [image EXCEPT ![ufNb] = "pre"]
          /\ Goto("saveRolledBackUf")
       \/ Fault /\ Return("CRITICAL") /\ UNCHANGED image
    /\ UNCHANGED <<storage, update, memState, ufNb, history, crashes>>

SaveRolledBackUf ==
    /\ pc = "saveRolledBackUf"
    /\ \/ /\ NoFault
          /\ lastUf' = ufNb - 1 /\ ufNb' = ufNb - 1
          /\ rbIndex' = Stored(rbIndex)
          /\ Goto("rollback")
       \/ Fault /\ Return("CRITICAL") /\ UNCHANGED <<lastUf, ufNb, rbIndex>>
    /\ UNCHANGED <<rpState, installed, image, update, memState, upIndex, crashes>>

\* The result of this removal is ignored.
ForgetUf ==
    /\ pc = "forgetUf"
    /\ \/ NoFault /\ lastUf' = Absent
       \/ Fault /\ UNCHANGED lastUf
    /\ Goto("saveRollbackSuccess")
    /\ UNCHANGED <<rpState, installed, image, update, memState, ufNb, history, crashes>>

SaveRollbackSuccess == pc = "saveRollbackSuccess" /\ SaveState(RS, "finalize")

-----------------------------------------------------------------------------
\* finalizeAction: removing a key that is not there is an error.
Finalize ==
    /\ pc = "finalize"
    /\ \/ memState = US /\ lastUf # Absent /\ NoFault /\ lastUf' = Absent /\ Goto("commit")
       \/ memState = US /\ lastUf = Absent /\ NoFault /\ Return("CRITICAL") /\ UNCHANGED lastUf
       \/ memState = US /\ Fault /\ Return("CRITICAL") /\ UNCHANGED lastUf
       \/ memState = RS /\ NoFault /\ Return("ERROR") /\ UNCHANGED lastUf
       \/ memState \in Pending /\ NoFault /\ Return("CRITICAL") /\ UNCHANGED lastUf
    /\ UNCHANGED <<rpState, installed, image, update, memState, ufNb, history, crashes>>

\* updateInstalledConfig
Commit ==
    /\ pc = "commit"
    /\ \/ NoFault /\ installed' = update.to /\ Return("OK")
       \/ Fault /\ Return("CRITICAL") /\ UNCHANGED installed
    /\ UNCHANGED <<rpState, lastUf, image, update, memState, ufNb, history, crashes>>

-----------------------------------------------------------------------------
\* A power loss in the middle of a call, and the process started again.
Crash ==
    /\ pc # "idle"
    /\ MayFail /\ crashes < MaxCrashes
    /\ crashes' = crashes + 1
    /\ Reboot
    /\ UNCHANGED <<storage, image, update, history, faults>>

\* A restart of the process between two calls.
Restart ==
    /\ pc = "idle" /\ result # "none"
    /\ Reboot
    /\ UNCHANGED <<storage, image, update, history, crashes, faults>>

Step ==
    \/ StartRecover \/ EndRecover
    \/ SaveUpdatePending \/ StartUpdate \/ EndUpdate \/ SaveInstalledUf \/ SaveUpdateSuccess
    \/ SaveRollbackPending \/ StartRollback \/ EndRollback \/ SaveRolledBackUf
    \/ ForgetUf \/ SaveRollbackSuccess
    \/ Finalize \/ Commit

Next ==
    \/ \E c \in Configs : Apply(c)
    \/ Resume
    \/ Step
    \/ Crash
    \/ Restart

Spec == Init /\ [][Next]_vars

\* The process keeps running its own call.
FairSpec == Spec /\ WF_vars(Step)

-----------------------------------------------------------------------------
Labels == {"idle", "recover", "recovering", "saveUpdatePending", "update", "updating",
           "saveInstalledUf", "saveUpdateSuccess", "saveRollbackPending", "rollback",
           "rollingBack", "saveRolledBackUf", "forgetUf", "saveRollbackSuccess",
           "finalize", "commit"}

\* The type of the persistent and the volatile state.
TypeOK ==
    /\ rpState \in States
    /\ lastUf \in (-1 .. MaxUF - 1) \cup {Absent}
    /\ installed \in Nat
    /\ image \in [UF -> {"pre", "torn", "post"}]
    /\ update \in Configs
    /\ pc \in Labels
    /\ memState \in States
    /\ ufNb \in -1 .. MaxUF
    /\ result \in {"none", "OK", "ERROR", "CRITICAL"}
    /\ upIndex \in {"unset", "stored", "guessed"} /\ rbIndex \in {"unset", "stored", "guessed"}
    /\ crashes \in 0 .. MaxCrashes /\ faults \in 0 .. MaxFaults

Updated == 0 .. update.n - 1
AllPost == \A u \in Updated : image[u] = "post"
AllPre  == \A u \in Updated : image[u] = "pre"

\* Once a pending update has stored an index of its own, the index does not run
\* ahead of the device: every UF up to it holds its new content, whatever crashes
\* from then on (runUpdate stores the index after the script).  Nothing is said of
\* an update that was resumed before that, with the index a closing that failed had
\* left over (upIndex = "guessed"): that index does run ahead of it.
IndexBehindImages ==
    rpState = UP /\ upIndex = "stored" =>
        lastUf # Absent /\ \A u \in Updated : u <= lastUf => image[u] = "post"

\* A torn image is never forgotten: as long as there is one the storage says
\* that an update or a rollback is pending, so that a resume will see to it.
\* (Not so when the update, or its rollback, was resumed before it had stored an
\* index of its own: see RollbackSuccessMeansRestored below.)
NoTornForgotten ==
    upIndex # "guessed" /\ rbIndex # "guessed" /\ rpState \notin Pending
        => \A u \in UF : image[u] # "torn"

\* The status OK is given with nothing left pending in the storage and, unless the
\* update was resumed before it had stored an index of its own, only for an update
\* that is entirely on the device.  (After such a resume the code gives OK for an
\* update whose first files it has skipped.)
OkMeansDone ==
    result = "OK" => /\ rpState = US /\ lastUf = Absent /\ installed = update.to
                     /\ upIndex # "guessed" => AllPost

\* finalizeAction is reached with an update that succeeded or was rolled back
\* ("this should never happen", says the code of every other state).
NeverUnexpected == pc = "finalize" => memState \in {US, RS} /\ rpState = memState

\* The installed configuration advances only to the version of the update at hand
\* and, unless that was resumed before it had stored an index of its own, only with
\* all of its images on the device.  (After such a resume the version is recorded
\* with files skipped.)
CommitNeedsImages ==
    [][installed' # installed => /\ installed' = update.to
                                 /\ upIndex # "guessed" => AllPost]_vars

\* A rollback is declared successful only when every UF is back at its content
\* from before the update, also when it was interrupted, any number of times:
\* unless it was interrupted before it had stored its first index.
RollbackRestores ==
    [][rpState # RS /\ rpState' = RS => rbIndex = "guessed" \/ AllPre]_vars

\* The stored state never abandons a pending update or rollback, and never
\* turns a rollback back into an update, over any number of crashes.
PhaseOrder ==
    [][rpState' # rpState => \/ rpState \in {US, RS} /\ rpState' = UP
                             \/ rpState = UP /\ rpState' \in {US, RP}
                             \/ rpState = RP /\ rpState' = RS]_vars

\* Every call returns, unless a crash ends it (the scripts terminate).
CallReturns == pc # "idle" ~> pc = "idle"

\* The steps a call has left at most, by where it is: three for each update file
\* that is to be installed, as many for each that is to be rolled back, a few to
\* begin and to end.
RollbackLeft == 3 * (ufNb + 1) + 5
UpdateLeft   == 3 * (MaxUF - ufNb) + 3 * MaxUF + 8

StepsLeft ==
    CASE pc = "idle"                -> 0
      [] pc = "commit"              -> 1
      [] pc = "finalize"            -> 2
      [] pc = "saveRollbackSuccess" -> 3
      [] pc = "forgetUf"            -> 4
      [] pc = "saveRolledBackUf"    -> RollbackLeft - 2
      [] pc = "rollingBack"         -> RollbackLeft - 1
      [] pc = "rollback"            -> RollbackLeft
      [] pc = "saveRollbackPending" -> RollbackLeft + 1
      [] pc = "saveUpdateSuccess"   -> 3 * MaxUF + 7
      [] pc = "saveInstalledUf"     -> UpdateLeft - 2
      [] pc = "updating"            -> UpdateLeft - 1
      [] pc = "update"              -> UpdateLeft
      [] pc = "saveUpdatePending"   -> UpdateLeft + 1
      [] pc = "recovering"          -> 6 * MaxUF + 10
      [] pc = "recover"             -> 6 * MaxUF + 11

\* No call goes round for ever, whatever fails on its way: each step leaves fewer,
\* and only a call that begins has more, at most those of a whole update that is
\* resumed and rolled back at the last update file.
StepsBounded == StepsLeft \in 0 .. 6 * MaxUF + 11
StepsRunOut  == [][Step => StepsLeft' < StepsLeft]_vars

\* What this needs for a call to return: nothing in it waits for anything.
CallGoesOn == pc # "idle" => ENABLED <<Step>>_vars

-----------------------------------------------------------------------------
\* The transaction that an update is meant to be.
Phase == CASE rpState = UP -> "updating"
           [] rpState = RP -> "rollingBack"
           [] OTHER -> "closed"

Txn == INSTANCE InstallTxn
         WITH Files <- UF, Versions <- Nat, phase <- Phase, files <- Updated

\* Every step the manager makes is one of the transaction's, or invisible in it:
\* through any one power loss, and through any one failure of the storage, a
\* file or a script.  With two of them it is not so (see the properties at the
\* end of this module).
TxnImplemented ==
    Txn!Init /\ [][crashes' + faults' <= 1 => [Txn!Next]_Txn!vars]_vars

-----------------------------------------------------------------------------
\* The record that this module and its caller keep together.
PendingUpdate == IF rpState \in Pending THEN {update} ELSE {}
DoneUpdate    == IF pc \in {"finalize", "commit"} /\ rpState = US THEN {update} ELSE {}

Record == INSTANCE InstallRecord WITH Updates <- Configs, pending <- PendingUpdate, done <- DoneUpdate

\* Over any number of power losses and failures an update is accepted only for
\* the installed version and while none is pending, stays the one that is resumed
\* until it is closed, and is recorded only after its own success.
RecordKept == Record!Spec

-----------------------------------------------------------------------------
\* The inductive invariant behind these properties (proved in RPManagerProofs).

UpdateLoop   == {"saveUpdatePending", "update", "updating", "saveInstalledUf"}
RollbackLoop == {"saveRollbackPending", "rollback", "rollingBack", "saveRolledBackUf"}
PreAbove(i)  == \A u \in Updated : u > i => image[u] = "pre"
PostBelow(i) == \A u \in Updated : u < i => image[u] = "post"

\* At each point of a call: the state it has stored, and the index it is at.
ControlInv ==
    /\ pc = "saveUpdatePending" => rpState # RP /\ ufNb \in 0 .. update.n
    /\ pc \in {"update", "updating", "saveInstalledUf", "saveUpdateSuccess"}
          => rpState = UP /\ memState = UP
    /\ pc = "update" => ufNb \in 0 .. update.n
    /\ pc = "saveUpdateSuccess" => ufNb = update.n
    /\ pc = "saveRollbackPending" => rpState \in Pending
    /\ pc \in {"rollback", "rollingBack", "saveRolledBackUf", "forgetUf", "saveRollbackSuccess"}
          => rpState = RP /\ memState = RP
    /\ pc = "rollback" => ufNb \in -1 .. update.n - 1
    /\ pc \in {"recover", "recovering"}
          => /\ rpState \in Pending /\ memState = rpState /\ lastUf # Absent
             /\ ufNb = IF rpState = UP THEN lastUf + 1 ELSE lastUf
             /\ rpState = UP => upIndex # "unset"
    /\ pc \in {"updating", "saveInstalledUf", "recovering", "saveRollbackPending",
               "rollingBack", "saveRolledBackUf"} => ufNb \in Updated
    /\ pc = "finalize" => rpState \in {US, RS} /\ memState = rpState
    /\ pc = "commit" => rpState = US /\ lastUf = Absent
    /\ result # "none" => pc = "idle"

\* An update that was accepted and not yet stored as pending is untouched.
FreshInv ==
    pc = "saveUpdatePending" /\ rpState \notin Pending =>
        /\ ufNb = 0 /\ upIndex = "unset" /\ rbIndex = "unset"
        /\ \A u \in UF : image[u] = "pre"

\* What is installed so far, while no left-over index has misled the update.
UpdateInv ==
    upIndex # "guessed" =>
        /\ IndexBehindImages
        /\ pc \in UpdateLoop => /\ PostBelow(ufNb)
                                /\ upIndex = "stored" => lastUf # Absent /\ lastUf < ufNb
        /\ pc = "saveInstalledUf" => image[ufNb] = "post"
        /\ (pc \in {"saveUpdateSuccess", "commit"} \/ (pc = "finalize" /\ rpState = US))
              => AllPost

\* What no step has touched yet, and what a rollback has restored.
RollbackInv ==
    /\ \A u \in UF : u >= update.n => image[u] = "pre"
    /\ rpState = UP => /\ rbIndex = "unset"
                       /\ lastUf # Absent => PreAbove(lastUf + 2)
    /\ pc \in UpdateLoop /\ lastUf # Absent => ufNb <= lastUf + 2
    /\ rbIndex # "guessed" =>
          /\ pc \in UpdateLoop \cup RollbackLoop => PreAbove(ufNb)
          /\ pc = "saveRolledBackUf" => image[ufNb] = "pre"
          /\ (pc \in {"forgetUf", "saveRollbackSuccess"} \/ (pc = "finalize" /\ rpState = RS))
                => AllPre
    /\ rpState = RP /\ rbIndex = "stored" =>
          /\ IF lastUf = Absent THEN AllPre ELSE PreAbove(lastUf)
          /\ pc \in RollbackLoop => lastUf # Absent /\ ufNb <= lastUf
    /\ rpState = RP /\ rbIndex = "unset" => pc \notin {"recover", "recovering"}

IInv ==
    /\ TypeOK
    /\ ControlInv
    /\ FreshInv
    /\ UpdateInv
    /\ RollbackInv
    /\ NoTornForgotten
    /\ OkMeansDone

\* Behind TxnImplemented: up to one power loss or failure, a rollback is not
\* interrupted, and an update that has only a left-over index is not either, so
\* that nothing reads that index.
FewFailures == crashes + faults <= 1
RollbackUndisturbed ==
    /\ rbIndex # "guessed"
    /\ rpState = RP \/ pc = "saveRollbackPending" => crashes + faults = 1
    /\ rpState = RP =>
          pc \in {"rollback", "rollingBack", "saveRolledBackUf", "forgetUf", "saveRollbackSuccess"}
LeftOverIsFailure ==
    lastUf # Absent /\ rpState \notin Pending /\ ~ (pc = "finalize" /\ rpState = US)
        => crashes + faults = 1
LeftOverUnread ==
    /\ upIndex # "guessed"
    /\ rpState = UP /\ upIndex = "unset" /\ lastUf # Absent =>
          crashes + faults = 1 /\ pc \in UpdateLoop \cup {"saveUpdateSuccess"}

OneFailureInv ==
    /\ pc # "idle" => UpdateConsistent(update)
    /\ FewFailures => RollbackUndisturbed /\ LeftOverIsFailure /\ LeftOverUnread

-----------------------------------------------------------------------------
\* What the code's own documentation says, and crashes refute.

\* rpmanager.h: resume handles an "unexpected system reboot during update".
ResumeRecovers == result # "CRITICAL"

\* rpmanager_priv.h: ROLLBACK_SUCCESS is "rollback succeeded".
RollbackSuccessMeansRestored == [][rpState # RS /\ rpState' = RS => AllPre]_vars

=============================================================================
