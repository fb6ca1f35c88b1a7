-------------------------- MODULE RPManagerProofs --------------------------
(***************************************************************************)
(* The invariants and action properties of RPManager, for every number of  *)
(* update files, set of configs, and number of crashes and failures.       *)
(*                                                                         *)
(* The argument: what the storage says can be trusted because at every     *)
(* point of a call the stored index is tied to the images (UpdateInv for   *)
(* an update, RollbackInv for a rollback), and the same tie holds between  *)
(* calls, where a crash leaves everything but storage and images behind.   *)
(* IInv joins them with the control state; one lemma per action shows that *)
(* the action preserves it.                                                *)
(***************************************************************************)
EXTENDS RPManager, TLAPS

USE MaxUFAssumption, ConfigAssumption, AbsentAssumption, BoundAssumption

\* What a config's record type says of its fields.
LEMMA ConfigBound ==
    ASSUME NEW c \in Configs
    PROVE  /\ c.n \in 0 .. MaxUF /\ c.n \in Nat
           /\ c.to \in Nat
           /\ 0 .. c.n - 1 \subseteq UF
  BY DEF Config, UF

\* Apply preserves the inductive invariant.
LEMMA ApplyInductive ==
    ASSUME IInv, NEW c \in Configs, Apply(c)
    PROVE  IInv'
<1>. USE DEF IInv, TypeOK, Apply, storage, history, MayCall, Rejected, StateConsistent,
       UpdateConsistent, Begin, Return, Fault, NoFault, UF, States, Pending, US, RS, UP, RP,
       Labels, Updated
<1>0. /\ update.n \in Nat /\ update.n <= MaxUF
      /\ Updated \subseteq UF
  BY ConfigBound
<1>c. c.n \in Nat /\ c.n <= MaxUF
  BY ConfigBound
<1>1. TypeOK'
  <2>1. CASE UNCHANGED <<image, update, storage, history, ufNb, crashes>>
    BY <2>1
  <2>2. CASE /\ update' = c /\ image' = [u \in UF |-> "pre"] /\ ufNb' = 0
             /\ upIndex' = "unset" /\ rbIndex' = "unset"
             /\ pc' = "saveUpdatePending" /\ result' = "none" /\ memState' = rpState
             /\ UNCHANGED <<storage, crashes>> /\ NoFault
    <3>1. image' \in [UF -> {"pre", "torn", "post"}]
      BY <2>2
    <3>. HIDE DEF UF
    <3>. QED  BY <2>2, <3>1
  <2>. QED  BY <2>1, <2>2
<1>2. ControlInv'
  BY <1>0, <1>c DEF ControlInv, FreshInv
<1>3. FreshInv'
  BY <1>0, <1>c DEF ControlInv, FreshInv
<1>4. UpdateInv'
  <2>1. CASE UNCHANGED <<image, update, storage, history, ufNb, crashes>> /\ pc' = "idle"
    BY <2>1 DEF UpdateInv, IndexBehindImages, UpdateLoop, AllPost
  <2>2. CASE /\ upIndex' = "unset"
             /\ rpState' \notin Pending /\ ufNb' = 0
             /\ pc' = "saveUpdatePending" /\ update' = c
    BY <1>c, <2>2 DEF UpdateInv, IndexBehindImages, UpdateLoop, PostBelow
  <2>. QED  BY <2>1, <2>2
<1>5. RollbackInv'
  <2>1. CASE UNCHANGED <<image, update, storage, history, ufNb, crashes>> /\ pc' = "idle"
    BY <2>1 DEF RollbackInv, UpdateLoop, RollbackLoop, PreAbove, AllPre
  <2>2. CASE /\ update' = c /\ image' = [u \in UF |-> "pre"] /\ ufNb' = 0 /\ rbIndex' = "unset"
             /\ rpState \notin Pending /\ pc' = "saveUpdatePending" /\ UNCHANGED storage
    <3>1. \A u \in UF : image'[u] = "pre"
      BY <2>2
    <3>2. ufNb' <= MaxUF /\ update'.n \in Nat /\ Updated' \subseteq UF
      BY <1>c, <2>2
    <3>. QED
      BY <2>2, <3>1, <3>2 DEF RollbackInv, UpdateLoop, RollbackLoop, PreAbove
  <2>. QED  BY <2>1, <2>2
<1>6. NoTornForgotten'
  BY <1>0, <1>c DEF ControlInv, FreshInv, UpdateInv, RollbackInv, NoTornForgotten, AllPre,
         AllPost
<1>7. OkMeansDone'
  BY <1>0, <1>c DEF ControlInv, UpdateInv, OkMeansDone, AllPost
<1>. QED  BY <1>1, <1>2, <1>3, <1>4, <1>5, <1>6, <1>7 DEF IInv

\* Resume preserves the inductive invariant.
LEMMA ResumeInductive ==
    ASSUME IInv, Resume
    PROVE  IInv'
<1>. USE DEF IInv, TypeOK, Resume, ResumeIndex, Guessed, storage, history, MayCall, Rejected, StateConsistent,
       UpdateConsistent, Begin, Return, Fault, NoFault, UF, States, Pending, US, RS, UP, RP,
       Labels, Updated
<1>0. /\ update.n \in Nat /\ update.n <= MaxUF
      /\ Updated \subseteq UF
  BY ConfigBound
<1>1. TypeOK'
  BY <1>0 DEF ControlInv
<1>2. ControlInv'
  BY <1>0 DEF ControlInv, FreshInv
<1>3. FreshInv'
  BY <1>0 DEF ControlInv, FreshInv
<1>4. UpdateInv'
  BY <1>0 DEF ControlInv, FreshInv, UpdateInv, IndexBehindImages, UpdateLoop, RollbackLoop,
         PreAbove, PostBelow, AllPost
<1>5. RollbackInv'
  BY <1>0 DEF ControlInv, FreshInv, RollbackInv, UpdateLoop, RollbackLoop, PreAbove,
         PostBelow, AllPre
<1>6. NoTornForgotten'
  BY <1>0 DEF ControlInv, FreshInv, UpdateInv, RollbackInv, NoTornForgotten, AllPre, AllPost
<1>7. OkMeansDone'
  BY <1>0 DEF ControlInv, UpdateInv, OkMeansDone, AllPost
<1>. QED  BY <1>1, <1>2, <1>3, <1>4, <1>5, <1>6, <1>7 DEF IInv

\* StartRecover preserves the inductive invariant.
LEMMA StartRecoverInductive ==
    ASSUME IInv, StartRecover
    PROVE  IInv'
<1>. USE DEF IInv, TypeOK, StartRecover, storage, history, StartScript, Reboot, Goto, Return,
       Fault, NoFault, UF, States, Pending, US, RS, UP, RP, Labels, Updated
<1>0. /\ update.n \in Nat /\ update.n <= MaxUF
      /\ Updated \subseteq UF
  BY ConfigBound
<1>1. TypeOK'
  BY <1>0 DEF ControlInv
<1>2. ControlInv'
  BY <1>0 DEF ControlInv, FreshInv
<1>3. FreshInv'
  BY <1>0 DEF ControlInv, FreshInv
<1>4. UpdateInv'
  BY <1>0 DEF ControlInv, FreshInv, UpdateInv, IndexBehindImages, UpdateLoop, RollbackLoop,
         PreAbove, PostBelow, AllPost
<1>5. RollbackInv'
  BY <1>0 DEF ControlInv, FreshInv, RollbackInv, UpdateLoop, RollbackLoop, PreAbove,
         PostBelow, AllPre
<1>6. NoTornForgotten'
  BY <1>0 DEF ControlInv, FreshInv, UpdateInv, RollbackInv, NoTornForgotten, AllPre, AllPost
<1>7. OkMeansDone'
  BY <1>0 DEF ControlInv, UpdateInv, OkMeansDone, AllPost
<1>. QED  BY <1>1, <1>2, <1>3, <1>4, <1>5, <1>6, <1>7 DEF IInv

\* EndRecover preserves the inductive invariant.
LEMMA EndRecoverInductive ==
    ASSUME IInv, EndRecover
    PROVE  IInv'
<1>. USE DEF IInv, TypeOK, EndRecover, storage, history, Goto, Return, Fault, NoFault, UF,
       States, Pending, US, RS, UP, RP, Labels, Updated
<1>0. /\ update.n \in Nat /\ update.n <= MaxUF
      /\ Updated \subseteq UF
  BY ConfigBound
<1>1. TypeOK'
  BY <1>0 DEF ControlInv
<1>2. ControlInv'
  BY <1>0 DEF ControlInv, FreshInv
<1>3. FreshInv'
  BY <1>0 DEF ControlInv, FreshInv
<1>4. UpdateInv'
  BY <1>0 DEF ControlInv, FreshInv, UpdateInv, IndexBehindImages, UpdateLoop, RollbackLoop,
         PreAbove, PostBelow, AllPost
<1>5. RollbackInv'
  <2>1. /\ rpState \in Pending /\ memState = rpState /\ lastUf # Absent /\ ufNb \in Updated
        /\ ufNb = IF rpState = UP THEN lastUf + 1 ELSE lastUf
    BY DEF ControlInv
  <2>2. CASE rpState = UP /\ image' = [image EXCEPT ![ufNb] = "post"] /\ ufNb' = ufNb + 1
             /\ pc' = "saveUpdatePending"
    BY <1>0, <2>1, <2>2 DEF RollbackInv, UpdateLoop, RollbackLoop, PreAbove, AllPre
  <2>3. CASE rpState = RP /\ image' = [image EXCEPT ![ufNb] = "pre"]
             /\ IF ufNb > 0 THEN ufNb' = ufNb - 1 /\ pc' = "saveRollbackPending"
                             ELSE ufNb' = ufNb /\ pc' = "saveRollbackSuccess"
    <3>1. CASE ufNb > 0
      BY <1>0, <2>1, <2>3, <3>1 DEF RollbackInv, UpdateLoop, RollbackLoop, PreAbove, AllPre
    <3>2. CASE ~(ufNb > 0)
      BY <1>0, <2>1, <2>3, <3>2 DEF RollbackInv, UpdateLoop, RollbackLoop, PreAbove, AllPre
    <3>. QED  BY <3>1, <3>2
  <2>4. CASE pc' = "idle" /\ UNCHANGED <<image, ufNb>>
    BY <1>0, <2>4 DEF RollbackInv, UpdateLoop, RollbackLoop, PreAbove, AllPre
  <2>. QED  BY <2>1, <2>2, <2>3, <2>4
<1>6. NoTornForgotten'
  BY <1>0 DEF ControlInv, FreshInv, UpdateInv, RollbackInv, NoTornForgotten, AllPre, AllPost
<1>7. OkMeansDone'
  BY <1>0 DEF ControlInv, UpdateInv, OkMeansDone, AllPost
<1>. QED  BY <1>1, <1>2, <1>3, <1>4, <1>5, <1>6, <1>7 DEF IInv

\* SaveUpdatePending preserves the inductive invariant.
LEMMA SaveUpdatePendingInductive ==
    ASSUME IInv, SaveUpdatePending
    PROVE  IInv'
<1>. USE DEF IInv, TypeOK, SaveUpdatePending, storage, history, SaveState, Goto, Return,
       Fault, NoFault, UF, States, Pending, US, RS, UP, RP, Labels, Updated
<1>0. /\ update.n \in Nat /\ update.n <= MaxUF
      /\ Updated \subseteq UF
  BY ConfigBound
<1>1. TypeOK'
  BY <1>0 DEF ControlInv
<1>2. ControlInv'
  BY <1>0 DEF ControlInv, FreshInv
<1>3. FreshInv'
  BY <1>0 DEF ControlInv, FreshInv
<1>4. UpdateInv'
  BY <1>0 DEF ControlInv, FreshInv, UpdateInv, IndexBehindImages, UpdateLoop, RollbackLoop,
         PreAbove, PostBelow, AllPost
<1>5. RollbackInv'
  BY <1>0 DEF ControlInv, FreshInv, RollbackInv, UpdateLoop, RollbackLoop, PreAbove,
         PostBelow, AllPre
<1>6. NoTornForgotten'
  BY <1>0 DEF ControlInv, FreshInv, UpdateInv, RollbackInv, NoTornForgotten, AllPre, AllPost
<1>7. OkMeansDone'
  BY <1>0 DEF ControlInv, UpdateInv, OkMeansDone, AllPost
<1>. QED  BY <1>1, <1>2, <1>3, <1>4, <1>5, <1>6, <1>7 DEF IInv

\* StartUpdate preserves the inductive invariant.
LEMMA StartUpdateInductive ==
    ASSUME IInv, StartUpdate
    PROVE  IInv'
<1>. USE DEF IInv, TypeOK, StartUpdate, MoreUfs, storage, history, StartScript, Goto, Return, Fault,
       NoFault, UF, States, Pending, US, RS, UP, RP, Labels, Updated
<1>0. /\ update.n \in Nat /\ update.n <= MaxUF
      /\ Updated \subseteq UF
  BY ConfigBound
<1>1. TypeOK'
  BY <1>0 DEF ControlInv
<1>2. ControlInv'
  BY <1>0 DEF ControlInv, FreshInv
<1>3. FreshInv'
  BY <1>0 DEF ControlInv, FreshInv
<1>4. UpdateInv'
  BY <1>0 DEF ControlInv, FreshInv, UpdateInv, IndexBehindImages, UpdateLoop, RollbackLoop,
         PreAbove, PostBelow, AllPost
<1>5. RollbackInv'
  BY <1>0 DEF ControlInv, FreshInv, RollbackInv, UpdateLoop, RollbackLoop, PreAbove,
         PostBelow, AllPre
<1>6. NoTornForgotten'
  BY <1>0 DEF ControlInv, FreshInv, UpdateInv, RollbackInv, NoTornForgotten, AllPre, AllPost
<1>7. OkMeansDone'
  BY <1>0 DEF ControlInv, UpdateInv, OkMeansDone, AllPost
<1>. QED  BY <1>1, <1>2, <1>3, <1>4, <1>5, <1>6, <1>7 DEF IInv

\* EndUpdate preserves the inductive invariant.
LEMMA EndUpdateInductive ==
    ASSUME IInv, EndUpdate
    PROVE  IInv'
<1>. USE DEF IInv, TypeOK, EndUpdate, storage, history, Goto, Return, Fault, NoFault, UF,
       States, Pending, US, RS, UP, RP, Labels, Updated
<1>0. /\ update.n \in Nat /\ update.n <= MaxUF
      /\ Updated \subseteq UF
  BY ConfigBound
<1>1. TypeOK'
  BY <1>0 DEF ControlInv
<1>2. ControlInv'
  BY <1>0 DEF ControlInv, FreshInv
<1>3. FreshInv'
  BY <1>0 DEF ControlInv, FreshInv
<1>4. UpdateInv'
  BY <1>0 DEF ControlInv, FreshInv, UpdateInv, IndexBehindImages, UpdateLoop, RollbackLoop,
         PreAbove, PostBelow, AllPost
<1>5. RollbackInv'
  BY <1>0 DEF ControlInv, FreshInv, RollbackInv, UpdateLoop, RollbackLoop, PreAbove,
         PostBelow, AllPre
<1>6. NoTornForgotten'
  BY <1>0 DEF ControlInv, FreshInv, UpdateInv, RollbackInv, NoTornForgotten, AllPre, AllPost
<1>7. OkMeansDone'
  BY <1>0 DEF ControlInv, UpdateInv, OkMeansDone, AllPost
<1>. QED  BY <1>1, <1>2, <1>3, <1>4, <1>5, <1>6, <1>7 DEF IInv

\* SaveInstalledUf preserves the inductive invariant.
LEMMA SaveInstalledUfInductive ==
    ASSUME IInv, SaveInstalledUf
    PROVE  IInv'
<1>. USE DEF IInv, TypeOK, SaveInstalledUf, Stored, storage, history, Goto, Return, Fault, NoFault,
       UF, States, Pending, US, RS, UP, RP, Labels, Updated
<1>0. /\ update.n \in Nat /\ update.n <= MaxUF
      /\ Updated \subseteq UF
  BY ConfigBound
<1>1. TypeOK'
  BY <1>0 DEF ControlInv
<1>2. ControlInv'
  BY <1>0 DEF ControlInv, FreshInv
<1>3. FreshInv'
  BY <1>0 DEF ControlInv, FreshInv
<1>4. UpdateInv'
  BY <1>0 DEF ControlInv, FreshInv, UpdateInv, IndexBehindImages, UpdateLoop, RollbackLoop,
         PreAbove, PostBelow, AllPost
<1>5. RollbackInv'
  BY <1>0 DEF ControlInv, FreshInv, RollbackInv, UpdateLoop, RollbackLoop, PreAbove,
         PostBelow, AllPre
<1>6. NoTornForgotten'
  BY <1>0 DEF ControlInv, FreshInv, UpdateInv, RollbackInv, NoTornForgotten, AllPre, AllPost
<1>7. OkMeansDone'
  BY <1>0 DEF ControlInv, UpdateInv, OkMeansDone, AllPost
<1>. QED  BY <1>1, <1>2, <1>3, <1>4, <1>5, <1>6, <1>7 DEF IInv

\* SaveUpdateSuccess preserves the inductive invariant.
LEMMA SaveUpdateSuccessInductive ==
    ASSUME IInv, SaveUpdateSuccess
    PROVE  IInv'
<1>. USE DEF IInv, TypeOK, SaveUpdateSuccess, storage, history, SaveState, Goto, Return,
       Fault, NoFault, UF, States, Pending, US, RS, UP, RP, Labels, Updated
<1>0. /\ update.n \in Nat /\ update.n <= MaxUF
      /\ Updated \subseteq UF
  BY ConfigBound
<1>1. TypeOK'
  BY <1>0 DEF ControlInv
<1>2. ControlInv'
  BY <1>0 DEF ControlInv, FreshInv
<1>3. FreshInv'
  BY <1>0 DEF ControlInv, FreshInv
<1>4. UpdateInv'
  BY <1>0 DEF ControlInv, FreshInv, UpdateInv, IndexBehindImages, UpdateLoop, RollbackLoop,
         PreAbove, PostBelow, AllPost
<1>5. RollbackInv'
  BY <1>0 DEF ControlInv, FreshInv, RollbackInv, UpdateLoop, RollbackLoop, PreAbove,
         PostBelow, AllPre
<1>6. NoTornForgotten'
  BY <1>0 DEF ControlInv, FreshInv, UpdateInv, RollbackInv, NoTornForgotten, AllPre, AllPost
<1>7. OkMeansDone'
  BY <1>0 DEF ControlInv, UpdateInv, OkMeansDone, AllPost
<1>. QED  BY <1>1, <1>2, <1>3, <1>4, <1>5, <1>6, <1>7 DEF IInv

\* SaveRollbackPending preserves the inductive invariant.
LEMMA SaveRollbackPendingInductive ==
    ASSUME IInv, SaveRollbackPending
    PROVE  IInv'
<1>. USE DEF IInv, TypeOK, SaveRollbackPending, storage, history, SaveState, Goto, Return,
       Fault, NoFault, UF, States, Pending, US, RS, UP, RP, Labels, Updated
<1>0. /\ update.n \in Nat /\ update.n <= MaxUF
      /\ Updated \subseteq UF
  BY ConfigBound
<1>1. TypeOK'
  BY <1>0 DEF ControlInv
<1>2. ControlInv'
  BY <1>0 DEF ControlInv, FreshInv
<1>3. FreshInv'
  BY <1>0 DEF ControlInv, FreshInv
<1>4. UpdateInv'
  BY <1>0 DEF ControlInv, FreshInv, UpdateInv, IndexBehindImages, UpdateLoop, RollbackLoop,
         PreAbove, PostBelow, AllPost
<1>5. RollbackInv'
  BY <1>0 DEF ControlInv, FreshInv, RollbackInv, UpdateLoop, RollbackLoop, PreAbove,
         PostBelow, AllPre
<1>6. NoTornForgotten'
  BY <1>0 DEF ControlInv, FreshInv, UpdateInv, RollbackInv, NoTornForgotten, AllPre, AllPost
<1>7. OkMeansDone'
  BY <1>0 DEF ControlInv, UpdateInv, OkMeansDone, AllPost
<1>. QED  BY <1>1, <1>2, <1>3, <1>4, <1>5, <1>6, <1>7 DEF IInv

\* StartRollback preserves the inductive invariant.
LEMMA StartRollbackInductive ==
    ASSUME IInv, StartRollback
    PROVE  IInv'
<1>. USE DEF IInv, TypeOK, StartRollback, MoreToRollBack, storage, history, StartScript, Goto, Return, Fault,
       NoFault, UF, States, Pending, US, RS, UP, RP, Labels, Updated
<1>0. /\ update.n \in Nat /\ update.n <= MaxUF
      /\ Updated \subseteq UF
  BY ConfigBound
<1>1. TypeOK'
  BY <1>0 DEF ControlInv
<1>2. ControlInv'
  BY <1>0 DEF ControlInv, FreshInv
<1>3. FreshInv'
  BY <1>0 DEF ControlInv, FreshInv
<1>4. UpdateInv'
  BY <1>0 DEF ControlInv, FreshInv, UpdateInv, IndexBehindImages, UpdateLoop, RollbackLoop,
         PreAbove, PostBelow, AllPost
<1>5. RollbackInv'
  BY <1>0 DEF ControlInv, FreshInv, RollbackInv, UpdateLoop, RollbackLoop, PreAbove,
         PostBelow, AllPre
<1>6. NoTornForgotten'
  BY <1>0 DEF ControlInv, FreshInv, UpdateInv, RollbackInv, NoTornForgotten, AllPre, AllPost
<1>7. OkMeansDone'
  BY <1>0 DEF ControlInv, UpdateInv, OkMeansDone, AllPost
<1>. QED  BY <1>1, <1>2, <1>3, <1>4, <1>5, <1>6, <1>7 DEF IInv

\* EndRollback preserves the inductive invariant.
LEMMA EndRollbackInductive ==
    ASSUME IInv, EndRollback
    PROVE  IInv'
<1>. USE DEF IInv, TypeOK, EndRollback, storage, history, Goto, Return, Fault, NoFault, UF,
       States, Pending, US, RS, UP, RP, Labels, Updated
<1>0. /\ update.n \in Nat /\ update.n <= MaxUF
      /\ Updated \subseteq UF
  BY ConfigBound
<1>1. TypeOK'
  BY <1>0 DEF ControlInv
<1>2. ControlInv'
  BY <1>0 DEF ControlInv, FreshInv
<1>3. FreshInv'
  BY <1>0 DEF ControlInv, FreshInv
<1>4. UpdateInv'
  BY <1>0 DEF ControlInv, FreshInv, UpdateInv, IndexBehindImages, UpdateLoop, RollbackLoop,
         PreAbove, PostBelow, AllPost
<1>5. RollbackInv'
  BY <1>0 DEF ControlInv, FreshInv, RollbackInv, UpdateLoop, RollbackLoop, PreAbove,
         PostBelow, AllPre
<1>6. NoTornForgotten'
  BY <1>0 DEF ControlInv, FreshInv, UpdateInv, RollbackInv, NoTornForgotten, AllPre, AllPost
<1>7. OkMeansDone'
  BY <1>0 DEF ControlInv, UpdateInv, OkMeansDone, AllPost
<1>. QED  BY <1>1, <1>2, <1>3, <1>4, <1>5, <1>6, <1>7 DEF IInv

\* SaveRolledBackUf preserves the inductive invariant.
LEMMA SaveRolledBackUfInductive ==
    ASSUME IInv, SaveRolledBackUf
    PROVE  IInv'
<1>. USE DEF IInv, TypeOK, SaveRolledBackUf, Stored, storage, history, Goto, Return, Fault, NoFault,
       UF, States, Pending, US, RS, UP, RP, Labels, Updated
<1>0. /\ update.n \in Nat /\ update.n <= MaxUF
      /\ Updated \subseteq UF
  BY ConfigBound
<1>1. TypeOK'
  BY <1>0 DEF ControlInv
<1>2. ControlInv'
  BY <1>0 DEF ControlInv, FreshInv
<1>3. FreshInv'
  BY <1>0 DEF ControlInv, FreshInv
<1>4. UpdateInv'
  BY <1>0 DEF ControlInv, FreshInv, UpdateInv, IndexBehindImages, UpdateLoop, RollbackLoop,
         PreAbove, PostBelow, AllPost
<1>5. RollbackInv'
  <2>1. rpState = RP /\ ufNb \in Updated /\ (rbIndex # "guessed" => PreAbove(ufNb) /\ image[ufNb] = "pre")
    BY DEF ControlInv, RollbackInv, RollbackLoop
  <2>2. CASE /\ lastUf' = ufNb - 1 /\ ufNb' = ufNb - 1 /\ pc' = "rollback"
             /\ rbIndex' = IF rbIndex = "unset" THEN "stored" ELSE rbIndex
    <3>1. rbIndex' # "guessed" => PreAbove(ufNb - 1)
      BY <1>0, <2>1, <2>2 DEF PreAbove
    <3>2. lastUf' # Absent /\ rbIndex' # "unset"
      BY <1>0, <2>1, <2>2
    <3>. QED  BY <1>0, <2>1, <2>2, <3>1, <3>2 DEF RollbackInv, UpdateLoop, RollbackLoop, PreAbove, AllPre
  <2>3. CASE pc' = "idle" /\ UNCHANGED <<lastUf, ufNb, rbIndex>>
    BY <2>3 DEF RollbackInv, UpdateLoop, RollbackLoop, PreAbove, AllPre
  <2>. QED  BY <2>2, <2>3
<1>6. NoTornForgotten'
  BY <1>0 DEF ControlInv, FreshInv, UpdateInv, RollbackInv, NoTornForgotten, AllPre, AllPost
<1>7. OkMeansDone'
  BY <1>0 DEF ControlInv, UpdateInv, OkMeansDone, AllPost
<1>. QED  BY <1>1, <1>2, <1>3, <1>4, <1>5, <1>6, <1>7 DEF IInv

\* ForgetUf preserves the inductive invariant.
LEMMA ForgetUfInductive ==
    ASSUME IInv, ForgetUf
    PROVE  IInv'
<1>. USE DEF IInv, TypeOK, ForgetUf, storage, history, Goto, Return, Fault, NoFault, UF,
       States, Pending, US, RS, UP, RP, Labels, Updated
<1>0. /\ update.n \in Nat /\ update.n <= MaxUF
      /\ Updated \subseteq UF
  BY ConfigBound
<1>1. TypeOK'
  BY <1>0 DEF ControlInv
<1>2. ControlInv'
  BY <1>0 DEF ControlInv, FreshInv
<1>3. FreshInv'
  BY <1>0 DEF ControlInv, FreshInv
<1>4. UpdateInv'
  BY <1>0 DEF ControlInv, FreshInv, UpdateInv, IndexBehindImages, UpdateLoop, RollbackLoop,
         PreAbove, PostBelow, AllPost
<1>5. RollbackInv'
  BY <1>0 DEF ControlInv, FreshInv, RollbackInv, UpdateLoop, RollbackLoop, PreAbove,
         PostBelow, AllPre
<1>6. NoTornForgotten'
  BY <1>0 DEF ControlInv, FreshInv, UpdateInv, RollbackInv, NoTornForgotten, AllPre, AllPost
<1>7. OkMeansDone'
  BY <1>0 DEF ControlInv, UpdateInv, OkMeansDone, AllPost
<1>. QED  BY <1>1, <1>2, <1>3, <1>4, <1>5, <1>6, <1>7 DEF IInv

\* SaveRollbackSuccess preserves the inductive invariant.
LEMMA SaveRollbackSuccessInductive ==
    ASSUME IInv, SaveRollbackSuccess
    PROVE  IInv'
<1>. USE DEF IInv, TypeOK, SaveRollbackSuccess, storage, history, SaveState, Goto, Return,
       Fault, NoFault, UF, States, Pending, US, RS, UP, RP, Labels, Updated
<1>0. /\ update.n \in Nat /\ update.n <= MaxUF
      /\ Updated \subseteq UF
  BY ConfigBound
<1>1. TypeOK'
  BY <1>0 DEF ControlInv
<1>2. ControlInv'
  BY <1>0 DEF ControlInv, FreshInv
<1>3. FreshInv'
  BY <1>0 DEF ControlInv, FreshInv
<1>4. UpdateInv'
  BY <1>0 DEF ControlInv, FreshInv, UpdateInv, IndexBehindImages, UpdateLoop, RollbackLoop,
         PreAbove, PostBelow, AllPost
<1>5. RollbackInv'
  BY <1>0 DEF ControlInv, FreshInv, RollbackInv, UpdateLoop, RollbackLoop, PreAbove,
         PostBelow, AllPre
<1>6. NoTornForgotten'
  BY <1>0 DEF ControlInv, FreshInv, UpdateInv, RollbackInv, NoTornForgotten, AllPre, AllPost
<1>7. OkMeansDone'
  BY <1>0 DEF ControlInv, UpdateInv, OkMeansDone, AllPost
<1>. QED  BY <1>1, <1>2, <1>3, <1>4, <1>5, <1>6, <1>7 DEF IInv

\* Finalize preserves the inductive invariant.
LEMMA FinalizeInductive ==
    ASSUME IInv, Finalize
    PROVE  IInv'
<1>. USE DEF IInv, TypeOK, Finalize, storage, history, Goto, Return, Fault, NoFault, UF,
       States, Pending, US, RS, UP, RP, Labels, Updated
<1>0. /\ update.n \in Nat /\ update.n <= MaxUF
      /\ Updated \subseteq UF
  BY ConfigBound
<1>1. TypeOK'
  BY <1>0 DEF ControlInv
<1>2. ControlInv'
  BY <1>0 DEF ControlInv, FreshInv
<1>3. FreshInv'
  BY <1>0 DEF ControlInv, FreshInv
<1>4. UpdateInv'
  BY <1>0 DEF ControlInv, FreshInv, UpdateInv, IndexBehindImages, UpdateLoop, RollbackLoop,
         PreAbove, PostBelow, AllPost
<1>5. RollbackInv'
  BY <1>0 DEF ControlInv, FreshInv, RollbackInv, UpdateLoop, RollbackLoop, PreAbove,
         PostBelow, AllPre
<1>6. NoTornForgotten'
  BY <1>0 DEF ControlInv, FreshInv, UpdateInv, RollbackInv, NoTornForgotten, AllPre, AllPost
<1>7. OkMeansDone'
  BY <1>0 DEF ControlInv, UpdateInv, OkMeansDone, AllPost
<1>. QED  BY <1>1, <1>2, <1>3, <1>4, <1>5, <1>6, <1>7 DEF IInv

\* Commit preserves the inductive invariant.
LEMMA CommitInductive ==
    ASSUME IInv, Commit
    PROVE  IInv'
<1>. USE DEF IInv, TypeOK, Commit, storage, history, Goto, Return, Fault, NoFault, UF, States,
       Pending, US, RS, UP, RP, Labels, Updated
<1>0. /\ update.n \in Nat /\ update.n <= MaxUF
      /\ Updated \subseteq UF
  BY ConfigBound
<1>1. TypeOK'
  BY <1>0 DEF ControlInv
<1>2. ControlInv'
  BY <1>0 DEF ControlInv, FreshInv
<1>3. FreshInv'
  BY <1>0 DEF ControlInv, FreshInv
<1>4. UpdateInv'
  BY <1>0 DEF ControlInv, FreshInv, UpdateInv, IndexBehindImages, UpdateLoop, RollbackLoop,
         PreAbove, PostBelow, AllPost
<1>5. RollbackInv'
  BY <1>0 DEF ControlInv, FreshInv, RollbackInv, UpdateLoop, RollbackLoop, PreAbove,
         PostBelow, AllPre
<1>6. NoTornForgotten'
  BY <1>0 DEF ControlInv, FreshInv, UpdateInv, RollbackInv, NoTornForgotten, AllPre, AllPost
<1>7. OkMeansDone'
  BY <1>0 DEF ControlInv, UpdateInv, OkMeansDone, AllPost
<1>. QED  BY <1>1, <1>2, <1>3, <1>4, <1>5, <1>6, <1>7 DEF IInv

\* Crash preserves the inductive invariant.
LEMMA CrashInductive ==
    ASSUME IInv, Crash
    PROVE  IInv'
<1>. USE DEF IInv, TypeOK, Crash, storage, history, Reboot, UF, States, Pending, US, RS, UP,
       RP, Labels, Updated
<1>0. /\ update.n \in Nat /\ update.n <= MaxUF
      /\ Updated \subseteq UF
  BY ConfigBound
<1>1. TypeOK'
  BY <1>0 DEF ControlInv
<1>2. ControlInv'
  BY <1>0 DEF ControlInv, FreshInv
<1>3. FreshInv'
  BY <1>0 DEF ControlInv, FreshInv
<1>4. UpdateInv'
  BY <1>0 DEF ControlInv, FreshInv, UpdateInv, IndexBehindImages, UpdateLoop, RollbackLoop,
         PreAbove, PostBelow, AllPost
<1>5. RollbackInv'
  BY <1>0 DEF ControlInv, FreshInv, RollbackInv, UpdateLoop, RollbackLoop, PreAbove,
         PostBelow, AllPre
<1>6. NoTornForgotten'
  BY <1>0 DEF ControlInv, FreshInv, UpdateInv, RollbackInv, NoTornForgotten, AllPre, AllPost
<1>7. OkMeansDone'
  BY <1>0 DEF ControlInv, UpdateInv, OkMeansDone, AllPost
<1>. QED  BY <1>1, <1>2, <1>3, <1>4, <1>5, <1>6, <1>7 DEF IInv

\* Restart preserves the inductive invariant.
LEMMA RestartInductive ==
    ASSUME IInv, Restart
    PROVE  IInv'
<1>. USE DEF IInv, TypeOK, Restart, storage, history, Reboot, UF, States, Pending, US, RS, UP,
       RP, Labels, Updated
<1>0. /\ update.n \in Nat /\ update.n <= MaxUF
      /\ Updated \subseteq UF
  BY ConfigBound
<1>1. TypeOK'
  BY <1>0 DEF ControlInv
<1>2. ControlInv'
  BY <1>0 DEF ControlInv, FreshInv
<1>3. FreshInv'
  BY <1>0 DEF ControlInv, FreshInv
<1>4. UpdateInv'
  BY <1>0 DEF ControlInv, FreshInv, UpdateInv, IndexBehindImages, UpdateLoop, RollbackLoop,
         PreAbove, PostBelow, AllPost
<1>5. RollbackInv'
  BY <1>0 DEF ControlInv, FreshInv, RollbackInv, UpdateLoop, RollbackLoop, PreAbove,
         PostBelow, AllPre
<1>6. NoTornForgotten'
  BY <1>0 DEF ControlInv, FreshInv, UpdateInv, RollbackInv, NoTornForgotten, AllPre, AllPost
<1>7. OkMeansDone'
  BY <1>0 DEF ControlInv, UpdateInv, OkMeansDone, AllPost
<1>. QED  BY <1>1, <1>2, <1>3, <1>4, <1>5, <1>6, <1>7 DEF IInv

-----------------------------------------------------------------------------
\* The device as it leaves the configuration tool: nothing is pending.
LEMMA InitInv == Init => IInv
<1>. SUFFICES ASSUME Init PROVE IInv
  OBVIOUS
<1>. USE DEF Init
<1>1. update.n \in Nat /\ update.n <= MaxUF /\ Updated \subseteq UF
  BY ConfigBound DEF Updated
<1>2. TypeOK
  <2>1. crashes \in 0 .. MaxCrashes /\ faults \in 0 .. MaxFaults /\ ufNb \in -1 .. MaxUF
    OBVIOUS
  <2>. QED  BY <2>1 DEF TypeOK, States, US, Labels
<1>3. ControlInv /\ FreshInv /\ OkMeansDone
  BY DEF ControlInv, FreshInv, OkMeansDone, US, UP, Pending
<1>4. UpdateInv /\ RollbackInv /\ NoTornForgotten
  BY <1>1 DEF UpdateInv, IndexBehindImages, RollbackInv, NoTornForgotten, US, UP, RP, Pending,
              UpdateLoop, RollbackLoop
<1>. QED  BY <1>2, <1>3, <1>4 DEF IInv

\* No step of any kind leads out of the inductive invariant.
LEMMA NextInv == IInv /\ [Next]_vars => IInv'
<1>. SUFFICES ASSUME IInv, [Next]_vars PROVE IInv'
  OBVIOUS
<1>1. ASSUME NEW c \in Configs, Apply(c) PROVE IInv'
  BY <1>1, ApplyInductive
<1>2. CASE Resume
  BY <1>2, ResumeInductive
<1>3. CASE StartRecover
  BY <1>3, StartRecoverInductive
<1>4. CASE EndRecover
  BY <1>4, EndRecoverInductive
<1>5. CASE SaveUpdatePending
  BY <1>5, SaveUpdatePendingInductive
<1>6. CASE StartUpdate
  BY <1>6, StartUpdateInductive
<1>7. CASE EndUpdate
  BY <1>7, EndUpdateInductive
<1>8. CASE SaveInstalledUf
  BY <1>8, SaveInstalledUfInductive
<1>9. CASE SaveUpdateSuccess
  BY <1>9, SaveUpdateSuccessInductive
<1>10. CASE SaveRollbackPending
  BY <1>10, SaveRollbackPendingInductive
<1>11. CASE StartRollback
  BY <1>11, StartRollbackInductive
<1>12. CASE EndRollback
  BY <1>12, EndRollbackInductive
<1>13. CASE SaveRolledBackUf
  BY <1>13, SaveRolledBackUfInductive
<1>14. CASE ForgetUf
  BY <1>14, ForgetUfInductive
<1>15. CASE SaveRollbackSuccess
  BY <1>15, SaveRollbackSuccessInductive
<1>16. CASE Finalize
  BY <1>16, FinalizeInductive
<1>17. CASE Commit
  BY <1>17, CommitInductive
<1>18. CASE Crash
  BY <1>18, CrashInductive
<1>19. CASE Restart
  BY <1>19, RestartInductive
<1>20. CASE UNCHANGED vars
  BY <1>20 DEF vars, storage, history, IInv, TypeOK, ControlInv, FreshInv, UpdateInv,
     IndexBehindImages, RollbackInv, NoTornForgotten, OkMeansDone, Updated, PreAbove,
     PostBelow, AllPre, AllPost
<1>. QED
  BY <1>1, <1>2, <1>3, <1>4, <1>5, <1>6, <1>7, <1>8, <1>9, <1>10, <1>11, <1>12, <1>13, <1>14, <1>15, <1>16, <1>17, <1>18, <1>19, <1>20 DEF Next, Step

\* The inductive invariant holds in every reachable state.
THEOREM Invariance == Spec => []IInv
  BY InitInv, NextInv, PTL DEF Spec

\* The persistent and volatile state keeps its type.
THEOREM TypeCorrect == Spec => []TypeOK
<1>1. IInv => TypeOK
  BY DEF IInv
<1>. QED  BY <1>1, Invariance, PTL

\* Over any number of crashes, the index a pending update has stored does not run
\* ahead of the images: unless the update was resumed before it had stored one, with
\* the index an earlier closing had left over.
THEOREM IndexIsBehindImages == Spec => []IndexBehindImages
<1>1. IInv => IndexBehindImages
  BY DEF IInv, UpdateInv, IndexBehindImages
<1>. QED  BY <1>1, Invariance, PTL

\* A torn image has a pending state in the storage that leads back to it, unless the
\* update or its rollback was resumed before it had stored an index of its own.
THEOREM TornIsPending == Spec => []NoTornForgotten
<1>1. IInv => NoTornForgotten
  BY DEF IInv
<1>. QED  BY <1>1, Invariance, PTL

\* OK is returned with nothing left pending and, unless the update was resumed with
\* an index left over from before it, only for an update that is complete.
THEOREM OkIsDone == Spec => []OkMeansDone
<1>1. IInv => OkMeansDone
  BY DEF IInv
<1>. QED  BY <1>1, Invariance, PTL

\* The branch the code calls impossible is impossible.
THEOREM FinalizeExpected == Spec => []NeverUnexpected
<1>1. IInv => NeverUnexpected
  BY DEF IInv, ControlInv, NeverUnexpected
<1>. QED  BY <1>1, Invariance, PTL

-----------------------------------------------------------------------------
\* Which actions write the two keys the action properties are about.

\* Only Commit writes the installed config.
LEMMA InstalledWriter ==
    ASSUME [Next]_vars, installed' # installed
    PROVE  Commit
  BY DEF Next, Step, vars, storage, Apply, Resume, Rejected, SaveState, StartRecover, EndRecover,
     SaveUpdatePending, StartUpdate, EndUpdate, SaveInstalledUf, SaveUpdateSuccess,
     SaveRollbackPending, StartRollback, EndRollback, SaveRolledBackUf, ForgetUf,
     SaveRollbackSuccess, Finalize, Crash, Restart

\* Only the four calls of saveState write the state.
LEMMA StateWriter ==
    ASSUME [Next]_vars, rpState' # rpState
    PROVE  /\ SaveUpdatePending \/ SaveUpdateSuccess \/ SaveRollbackPending \/ SaveRollbackSuccess
           /\ SaveUpdatePending => rpState' = UP
           /\ SaveUpdateSuccess => rpState' = US
           /\ SaveRollbackPending => rpState' = RP
           /\ SaveRollbackSuccess => rpState' = RS
<1>1. SaveUpdatePending \/ SaveUpdateSuccess \/ SaveRollbackPending \/ SaveRollbackSuccess
  BY DEF Next, Step, vars, storage, Apply, Resume, Rejected, StartRecover, EndRecover,
     StartUpdate, EndUpdate, SaveInstalledUf, StartRollback, EndRollback, SaveRolledBackUf,
     ForgetUf, Finalize, Commit, Crash, Restart
<1>. QED
  BY <1>1 DEF SaveState, SaveUpdatePending, SaveUpdateSuccess, SaveRollbackPending,
     SaveRollbackSuccess

\* The installed configuration advances only to the version of the update at hand
\* and, unless that was resumed with an index left over from before it, only when
\* the update is entirely on the device.
THEOREM CommitIsInstalled == Spec => CommitNeedsImages
<1>1. ASSUME IInv, [Next]_vars, installed' # installed
      PROVE  installed' = update.to /\ (upIndex # "guessed" => AllPost)
  <2>1. Commit
    BY <1>1, InstalledWriter
  <2>. QED
    BY <1>1, <2>1 DEF IInv, UpdateInv, Commit
<1>. QED  BY <1>1, Invariance, PTL DEF Spec, CommitNeedsImages

\* A rollback that is declared successful has restored every image, unless it was
\* resumed before it had stored an index of its own.
THEOREM RollbackIsComplete == Spec => RollbackRestores
<1>1. ASSUME IInv, [Next]_vars, rpState # RS, rpState' = RS
      PROVE  rbIndex = "guessed" \/ AllPre
  <2>1. SaveRollbackSuccess
    BY <1>1, StateWriter DEF US, RS, UP, RP
  <2>. QED
    BY <1>1, <2>1 DEF IInv, RollbackInv, SaveRollbackSuccess
<1>. QED  BY <1>1, Invariance, PTL DEF Spec, RollbackRestores

\* The stored state runs through update, rollback and their ends in order.
THEOREM PhasesInOrder == Spec => PhaseOrder
<1>1. ASSUME IInv, [Next]_vars, rpState' # rpState
      PROVE  \/ rpState \in {US, RS} /\ rpState' = UP
             \/ rpState = UP /\ rpState' \in {US, RP}
             \/ rpState = RP /\ rpState' = RS
  BY <1>1, StateWriter DEF IInv, TypeOK, ControlInv, SaveUpdatePending, SaveUpdateSuccess,
     SaveRollbackPending, SaveRollbackSuccess, States, Pending
<1>. QED  BY <1>1, Invariance, PTL DEF Spec, PhaseOrder

-----------------------------------------------------------------------------
\* That the manager implements the transaction of InstallTxn, up to one power
\* loss or failure.

\* What the steps do to the two bounded counters.
LEMMA FailuresCounted ==
    ASSUME IInv, [Next]_vars
    PROVE  /\ crashes \in Nat /\ faults \in Nat /\ crashes' \in Nat /\ faults' \in Nat
           /\ \/ UNCHANGED <<crashes, faults>>
              \/ Fault /\ UNCHANGED crashes
              \/ Crash
<1>1. TypeOK /\ TypeOK'
  BY NextInv DEF IInv
<1>2. /\ crashes \in Nat /\ faults \in Nat /\ crashes' \in Nat /\ faults' \in Nat
  BY <1>1 DEF TypeOK
<1>3. \/ UNCHANGED <<crashes, faults>>
      \/ Fault /\ UNCHANGED crashes
      \/ Crash
  BY DEF Next, Step, vars, history, Apply, Resume, Rejected, SaveState, StartRecover, EndRecover,
     SaveUpdatePending, StartUpdate, EndUpdate, SaveInstalledUf, SaveUpdateSuccess,
     SaveRollbackPending, StartRollback, EndRollback, SaveRolledBackUf, ForgetUf,
     SaveRollbackSuccess, Finalize, Commit, Restart, NoFault
<1>. QED  BY <1>2, <1>3

\* A call works on an update that was consistent when it was accepted, or
\* resumed.
LEMMA UpdateStaysConsistent ==
    ASSUME IInv, pc # "idle" => UpdateConsistent(update), [Next]_vars, pc' # "idle"
    PROVE  UpdateConsistent(update)'
<1>. USE DEF UpdateConsistent
<1>1. ASSUME NEW c \in Configs, Apply(c)
      PROVE  UpdateConsistent(update)'
  BY <1>1 DEF Apply, Rejected, Return, storage
<1>2. CASE Resume
  BY <1>2 DEF Resume, Rejected, Return, storage
<1>3. CASE Commit
  BY <1>3 DEF Commit, Goto, Return, IInv, ControlInv
<1>4. CASE Crash \/ Restart
  BY <1>4 DEF Crash, Restart, Reboot
<1>5. CASE Step /\ ~Commit
  <2>1. UNCHANGED <<update, installed>> /\ pc # "idle"
    BY <1>5 DEF Step, storage, SaveState, StartRecover, EndRecover, SaveUpdatePending, StartUpdate,
       EndUpdate, SaveInstalledUf, SaveUpdateSuccess, SaveRollbackPending, StartRollback,
       EndRollback, SaveRolledBackUf, ForgetUf, SaveRollbackSuccess, Finalize
  <2>. QED  BY <2>1
<1>6. CASE UNCHANGED vars
  BY <1>6 DEF vars, storage
<1>. QED  BY <1>1, <1>2, <1>3, <1>4, <1>5, <1>6 DEF Next

\* What there is to know of a step that leaves the manager with at most one
\* power loss or failure behind it.
LEMMA FewBefore ==
    ASSUME IInv, OneFailureInv, [Next]_vars, FewFailures'
    PROVE  /\ RollbackUndisturbed /\ LeftOverIsFailure /\ LeftOverUnread
           /\ Fault \/ Crash => crashes + faults = 0 /\ (crashes + faults)' = 1
           /\ crashes + faults = 1 => (crashes + faults)' = 1 /\ ~Fault /\ ~Crash
<1>1. /\ crashes \in Nat /\ faults \in Nat /\ crashes' \in Nat /\ faults' \in Nat
      /\ FewFailures
      /\ Fault \/ Crash => crashes + faults = 0 /\ crashes' + faults' = 1
      /\ crashes + faults = 1 => crashes' + faults' = 1
  BY FailuresCounted DEF FewFailures, Fault, Crash
<1>2. RollbackUndisturbed /\ LeftOverIsFailure /\ LeftOverUnread
  BY <1>1 DEF OneFailureInv
<1>3. Fault \/ Crash => crashes + faults = 0 /\ (crashes + faults)' = 1
  BY <1>1
<1>4. ASSUME crashes + faults = 1
      PROVE  (crashes + faults)' = 1 /\ crashes + faults # 0
  <2>1. crashes' + faults' = 1
    BY <1>1, <1>4
  <2>2. crashes + faults # 0
    BY <1>4
  <2>. QED  BY <2>1, <2>2
<1>. QED  BY <1>2, <1>3, <1>4

\* A rollback comes from a failure, and is not interrupted.
LEMMA RollbackStaysUndisturbed ==
    ASSUME IInv, OneFailureInv, [Next]_vars, FewFailures'
    PROVE  RollbackUndisturbed'
<1>1. /\ RollbackUndisturbed /\ ControlInv
      /\ Fault \/ Crash => crashes + faults = 0 /\ (crashes + faults)' = 1
      /\ crashes + faults = 1 => (crashes + faults)' = 1 /\ ~Fault /\ ~Crash
      /\ rpState \in States
  BY FewBefore DEF IInv, TypeOK
<1>. USE <1>1 DEF RollbackUndisturbed, ControlInv, States, Pending, US, RS, UP, RP, Goto, Return
<1>2. CASE UNCHANGED vars
  BY <1>2 DEF vars, storage, history
<1>3. ASSUME NEW c \in Configs, Apply(c)
      PROVE  RollbackUndisturbed'
  BY <1>3 DEF Apply, Rejected, MayCall, StateConsistent, Begin, storage, history
<1>4. CASE Resume
  BY <1>4 DEF Resume, Guessed, Rejected, MayCall, StateConsistent, Begin, storage, history
<1>5. CASE StartRecover \/ EndRecover
  BY <1>5 DEF StartRecover, EndRecover, StartScript, Reboot, storage, history
<1>6. CASE SaveUpdatePending \/ SaveUpdateSuccess \/ SaveRollbackPending \/ SaveRollbackSuccess
  BY <1>6 DEF SaveUpdatePending, SaveUpdateSuccess, SaveRollbackPending, SaveRollbackSuccess, SaveState, history
<1>7. CASE StartUpdate \/ EndUpdate \/ SaveInstalledUf
  BY <1>7 DEF StartUpdate, EndUpdate, SaveInstalledUf, StartScript, storage, history
<1>8. CASE StartRollback \/ EndRollback \/ SaveRolledBackUf \/ ForgetUf
  BY <1>8 DEF StartRollback, EndRollback, SaveRolledBackUf, Stored, ForgetUf, StartScript,
     storage, history
<1>9. CASE Finalize \/ Commit
  BY <1>9 DEF Finalize, Commit, history
<1>10. CASE Crash \/ Restart
  BY <1>10 DEF Crash, Restart, Reboot, storage, history
<1>. QED  BY <1>2, <1>3, <1>4, <1>5, <1>6, <1>7, <1>8, <1>9, <1>10 DEF Next, Step

\* An index that is left over comes from a failure.
LEMMA LeftOverStaysFailure ==
    ASSUME IInv, OneFailureInv, [Next]_vars, FewFailures'
    PROVE  LeftOverIsFailure'
<1>1. /\ RollbackUndisturbed /\ LeftOverIsFailure /\ ControlInv
      /\ Fault \/ Crash => crashes + faults = 0 /\ (crashes + faults)' = 1
      /\ crashes + faults = 1 => (crashes + faults)' = 1 /\ ~Fault /\ ~Crash
      /\ rpState \in States
  BY FewBefore DEF IInv, TypeOK
<1>. USE <1>1 DEF RollbackUndisturbed, LeftOverIsFailure, ControlInv, States, Pending, US, RS, UP, RP, Goto, Return
<1>2. CASE UNCHANGED vars
  BY <1>2 DEF vars, storage, history
<1>3. ASSUME NEW c \in Configs, Apply(c)
      PROVE  LeftOverIsFailure'
  BY <1>3 DEF Apply, Rejected, MayCall, StateConsistent, Begin, storage, history
<1>4. CASE Resume
  BY <1>4 DEF Resume, Rejected, MayCall, StateConsistent, Begin, storage, history
<1>5. CASE StartRecover \/ EndRecover
  BY <1>5 DEF StartRecover, EndRecover, StartScript, Reboot, storage, history
<1>6. CASE SaveUpdatePending \/ SaveUpdateSuccess \/ SaveRollbackPending \/ SaveRollbackSuccess
  BY <1>6 DEF SaveUpdatePending, SaveUpdateSuccess, SaveRollbackPending, SaveRollbackSuccess, SaveState, history
<1>7. CASE StartUpdate \/ EndUpdate \/ SaveInstalledUf
  BY <1>7 DEF StartUpdate, EndUpdate, SaveInstalledUf, StartScript, storage, history
<1>8. CASE StartRollback \/ EndRollback \/ SaveRolledBackUf \/ ForgetUf
  BY <1>8 DEF StartRollback, EndRollback, SaveRolledBackUf, ForgetUf, StartScript, storage, history
<1>9. CASE Finalize \/ Commit
  BY <1>9 DEF Finalize, Commit, history
<1>10. CASE Crash \/ Restart
  BY <1>10 DEF Crash, Restart, Reboot, storage, history
<1>. QED  BY <1>2, <1>3, <1>4, <1>5, <1>6, <1>7, <1>8, <1>9, <1>10 DEF Next, Step

\* A left-over index is not read: the update that has no other is not interrupted.
LEMMA LeftOverStaysUnread ==
    ASSUME IInv, OneFailureInv, [Next]_vars, FewFailures'
    PROVE  LeftOverUnread'
<1>1. /\ RollbackUndisturbed /\ LeftOverIsFailure /\ LeftOverUnread /\ ControlInv
      /\ Fault \/ Crash => crashes + faults = 0 /\ (crashes + faults)' = 1
      /\ crashes + faults = 1 => (crashes + faults)' = 1 /\ ~Fault /\ ~Crash
      /\ rpState \in States
  BY FewBefore DEF IInv, TypeOK
<1>. USE <1>1 DEF LeftOverUnread, UpdateLoop, States, Pending, US, RS, UP, RP, Goto, Return
<1>2. CASE UNCHANGED vars
  BY <1>2 DEF vars, storage, history
<1>3. ASSUME NEW c \in Configs, Apply(c)
      PROVE  LeftOverUnread'
  BY <1>3 DEF Apply, Rejected, MayCall, StateConsistent, Begin, storage, history
<1>4. CASE Resume
  BY <1>4 DEF Resume, Guessed, Rejected, MayCall, StateConsistent, Begin, storage, history
<1>5. CASE StartRecover \/ EndRecover
  BY <1>5 DEF ControlInv, StartRecover, EndRecover, StartScript, Reboot, storage, history
<1>6. CASE SaveUpdatePending \/ SaveUpdateSuccess \/ SaveRollbackPending \/ SaveRollbackSuccess
  BY <1>6 DEF LeftOverIsFailure, ControlInv, SaveUpdatePending, SaveUpdateSuccess, SaveRollbackPending,
     SaveRollbackSuccess, SaveState, history
<1>7. CASE StartUpdate \/ EndUpdate \/ SaveInstalledUf
  BY <1>7 DEF StartUpdate, EndUpdate, SaveInstalledUf, Stored, StartScript, storage, history
<1>8. CASE StartRollback \/ EndRollback \/ SaveRolledBackUf \/ ForgetUf
  BY <1>8 DEF ControlInv, StartRollback, EndRollback, SaveRolledBackUf, ForgetUf, StartScript, storage, history
<1>9. CASE Finalize \/ Commit
  BY <1>9 DEF ControlInv, Finalize, Commit, history
<1>10. CASE Crash \/ Restart
  BY <1>10 DEF Crash, Restart, Reboot, storage, history
<1>. QED  BY <1>2, <1>3, <1>4, <1>5, <1>6, <1>7, <1>8, <1>9, <1>10 DEF Next, Step

\* Up to one power loss or failure nothing reads an index that misleads.
LEMMA OneFailureInductive ==
    ASSUME IInv, OneFailureInv, [Next]_vars
    PROVE  OneFailureInv'
<1>1. (pc # "idle" => UpdateConsistent(update))'
  BY UpdateStaysConsistent DEF OneFailureInv
<1>2. ASSUME FewFailures'
      PROVE  (RollbackUndisturbed /\ LeftOverIsFailure /\ LeftOverUnread)'
  BY <1>2, RollbackStaysUndisturbed, LeftOverStaysFailure, LeftOverStaysUnread
<1>. QED  BY <1>1, <1>2 DEF OneFailureInv

\* What a step is in the transaction: a stutter, when the state that is stored,
\* the update, the images and the installed version stay.
LEMMA StutterIsTxn ==
    ASSUME UNCHANGED <<rpState, update, image, installed>>
    PROVE  UNCHANGED Txn!vars
  BY DEF Txn!vars, Phase, Updated

\* A script that starts, succeeds or fails is the work on one file.
LEMMA ScriptIsWork ==
    ASSUME IInv, UNCHANGED <<rpState, update, installed>>, ufNb \in Updated,
           \/ rpState = UP /\ image' \in {[image EXCEPT ![ufNb] = "torn"], [image EXCEPT ![ufNb] = "post"]}
           \/ rpState = RP /\ image' \in {[image EXCEPT ![ufNb] = "torn"], [image EXCEPT ![ufNb] = "pre"]}
    PROVE  Txn!Next
<1>1. UNCHANGED <<Phase, Updated, installed>>
  BY DEF Phase, Updated
<1>2. rpState = UP => Phase = "updating"
  BY DEF Phase, UP, RP
<1>3. rpState = RP => Phase = "rollingBack"
  BY DEF Phase, UP, RP
<1>4. Txn!Work(ufNb)
  BY <1>1, <1>2, <1>3 DEF Txn!Work
<1>. QED  BY <1>4 DEF Txn!Next

\* Every step the manager takes up to one power loss or failure is one of the
\* transaction, or invisible in it.
LEMMA StepIsTxn ==
    ASSUME IInv, OneFailureInv, [Next]_vars, FewFailures'
    PROVE  [Txn!Next]_Txn!vars
<1>1. /\ RollbackUndisturbed /\ LeftOverUnread /\ ControlInv /\ UpdateInv /\ RollbackInv
      /\ rpState \in States /\ ufNb \in Int
      /\ pc # "idle" => UpdateConsistent(update)
      /\ update \in Configs /\ installed \in Nat /\ image \in [UF -> {"pre", "torn", "post"}]
  BY FewBefore DEF IInv, TypeOK, OneFailureInv
<1>2. update.n \in Nat /\ update.to \in Nat /\ update.from \in Nat /\ Updated \subseteq UF
  BY <1>1, ConfigBound DEF Updated, Config
<1>3. CASE UNCHANGED <<rpState, update, image, installed>>
  BY <1>3, StutterIsTxn
<1>4. ASSUME NEW c \in Configs, Apply(c)
      PROVE  [Txn!Next]_Txn!vars
  <2>1. CASE update' = c /\ image' = [u \in UF |-> "pre"] /\ UpdateConsistent(c)
             /\ rpState \notin Pending /\ UNCHANGED <<rpState, installed>>
    <3>1. Phase = "closed" /\ Phase' = Phase
      BY <2>1 DEF Phase, Pending
    <3>2. Updated' \in (SUBSET UF) \ {{}}
      <4>1. c.n \in Nat /\ c.n > 0 /\ 0 .. c.n - 1 \subseteq UF
        BY <2>1, ConfigBound DEF UpdateConsistent
      <4>2. 0 \in 0 .. c.n - 1
        BY <4>1
      <4>3. Updated' = 0 .. c.n - 1
        BY <2>1 DEF Updated
      <4>. QED  BY <4>1, <4>2, <4>3
    <3>3. Txn!Choose
      BY <2>1, <3>1, <3>2 DEF Txn!Choose
    <3>. QED  BY <3>3 DEF Txn!Next
  <2>. QED  BY <1>3, <1>4, <2>1 DEF Apply, Rejected, storage, StateConsistent
<1>5. CASE StartRecover \/ StartUpdate \/ StartRollback
  <2>1. CASE StartScript("recovering") \/ StartScript("updating") \/ StartScript("rollingBack")
    <3>1. ufNb \in Updated
      <4>1. CASE StartRecover
        BY <2>1, <4>1 DEF StartRecover, StartScript, Return, Reboot, Goto, Updated
      <4>2. CASE StartUpdate
        BY <1>1, <1>2, <2>1, <4>2 DEF StartUpdate, StartScript, Return, Goto, MoreUfs, Updated, ControlInv
      <4>3. CASE StartRollback
        BY <1>1, <1>2, <2>1, <4>3 DEF StartRollback, StartScript, Return, Goto, MoreToRollBack, Updated, ControlInv
      <4>. QED  BY <1>5, <4>1, <4>2, <4>3
    <3>2. rpState \in {UP, RP} /\ UNCHANGED <<rpState, update, installed>>
      BY <1>1, <1>5 DEF StartRecover, StartUpdate, StartRollback, ControlInv, Pending, storage
    <3>3. image' = [image EXCEPT ![ufNb] = "torn"]
      BY <2>1 DEF StartScript
    <3>. QED  BY <3>1, <3>2, <3>3, ScriptIsWork
  <2>. QED  BY <1>3, <1>5, <2>1 DEF StartRecover, StartUpdate, StartRollback, storage
<1>6. CASE EndRecover \/ EndUpdate \/ EndRollback
  <2>1. CASE UNCHANGED image
    BY <1>3, <1>6, <2>1 DEF EndRecover, EndUpdate, EndRollback, storage
  <2>2. CASE image' \in {[image EXCEPT ![ufNb] = "post"], [image EXCEPT ![ufNb] = "pre"]}
    <3>1. ufNb \in Updated /\ UNCHANGED <<rpState, update, installed>>
      BY <1>1, <1>6 DEF EndRecover, EndUpdate, EndRollback, ControlInv, storage
    <3>2. \/ UNCHANGED image
          \/ rpState = UP /\ image' = [image EXCEPT ![ufNb] = "post"]
          \/ rpState = RP /\ image' = [image EXCEPT ![ufNb] = "pre"]
      BY <1>1, <1>6 DEF EndRecover, EndUpdate, EndRollback, ControlInv
    <3>. QED  BY <2>1, <3>1, <3>2, ScriptIsWork
  <2>. QED  BY <1>6, <2>1, <2>2 DEF EndRecover, EndUpdate, EndRollback
<1>7. CASE rpState' # rpState
  <2>1. /\ UNCHANGED <<update, image, installed>>
        /\ SaveUpdatePending \/ SaveUpdateSuccess \/ SaveRollbackPending \/ SaveRollbackSuccess
    BY <1>7, StateWriter DEF SaveUpdatePending, SaveUpdateSuccess, SaveRollbackPending,
       SaveRollbackSuccess, SaveState
  <2>2. UNCHANGED <<Updated, image, installed>>
    BY <2>1 DEF Updated
  <2>3. CASE SaveUpdatePending
    <3>1. rpState' = UP /\ rpState \notin {UP, RP}
      BY <1>1, <1>7, <2>3 DEF SaveUpdatePending, SaveState, ControlInv
    <3>2. Txn!Open
      BY <2>2, <3>1 DEF Txn!Open, Phase, UP, RP
    <3>. QED  BY <3>2 DEF Txn!Next
  <2>4. CASE SaveUpdateSuccess
    <3>1. rpState' = US /\ rpState = UP
      BY <1>1, <1>7, <2>4 DEF SaveUpdateSuccess, SaveState, ControlInv
    <3>2. AllPost
      BY <1>1, <2>4 DEF SaveUpdateSuccess, LeftOverUnread, UpdateInv
    <3>3. Txn!Close
      BY <2>2, <3>1, <3>2 DEF Txn!Close, Phase, AllPost, US, UP, RP
    <3>. QED  BY <3>3 DEF Txn!Next
  <2>5. CASE SaveRollbackPending
    <3>1. rpState' = RP /\ rpState = UP
      BY <1>1, <1>7, <2>5 DEF SaveRollbackPending, SaveState, ControlInv, Pending
    <3>2. Txn!GiveUp
      BY <2>2, <3>1 DEF Txn!GiveUp, Phase, UP, RP
    <3>. QED  BY <3>2 DEF Txn!Next
  <2>6. CASE SaveRollbackSuccess
    <3>1. rpState' = RS /\ rpState = RP
      BY <1>1, <1>7, <2>6 DEF SaveRollbackSuccess, SaveState, ControlInv
    <3>2. AllPre
      BY <1>1, <2>6 DEF SaveRollbackSuccess, RollbackUndisturbed, RollbackInv
    <3>3. Txn!CloseReverted
      BY <2>2, <3>1, <3>2 DEF Txn!CloseReverted, Phase, AllPre, RS, UP, RP
    <3>. QED  BY <3>3 DEF Txn!Next
  <2>. QED  BY <2>1, <2>3, <2>4, <2>5, <2>6
<1>8. CASE Commit
  <2>1. CASE installed' = update.to
    <3>1. rpState = US /\ UNCHANGED <<rpState, update, image>>
      BY <1>1, <1>8 DEF Commit, ControlInv
    <3>2. AllPost
      BY <1>1, <1>8 DEF Commit, LeftOverUnread, UpdateInv
    <3>3. installed' \in {v \in Nat : v > installed}
      BY <1>1, <1>2, <1>8, <2>1 DEF Commit, UpdateConsistent
    <3>4. Txn!Publish
      BY <3>1, <3>2, <3>3 DEF Txn!Publish, Phase, AllPost, Updated, US, UP, RP
    <3>. QED  BY <3>4 DEF Txn!Next
  <2>. QED  BY <1>3, <1>8, <2>1 DEF Commit
<1>9. CASE Resume \/ SaveInstalledUf \/ SaveRolledBackUf \/ ForgetUf \/ Finalize \/ Crash \/ Restart
           \/ UNCHANGED vars
  <2>1. UNCHANGED <<rpState, update, image, installed>>
    BY <1>9 DEF Resume, Rejected, SaveInstalledUf, SaveRolledBackUf, ForgetUf, Finalize, Crash, Restart,
       vars, storage
  <2>. QED  BY <2>1, <1>3
<1>10. CASE SaveUpdatePending \/ SaveUpdateSuccess \/ SaveRollbackPending \/ SaveRollbackSuccess
  BY <1>3, <1>7, <1>10 DEF SaveUpdatePending, SaveUpdateSuccess, SaveRollbackPending,
     SaveRollbackSuccess, SaveState
<1>. QED  BY <1>4, <1>5, <1>6, <1>8, <1>9, <1>10 DEF Next, Step

\* The manager starts as the transaction does.
LEMMA InitIsTxn == Init => OneFailureInv /\ Txn!Init
<1>. SUFFICES ASSUME Init
              PROVE  OneFailureInv /\ Txn!Init
  OBVIOUS
<1>1. OneFailureInv
  BY DEF Init, OneFailureInv, RollbackUndisturbed, LeftOverIsFailure, LeftOverUnread, RP, US
<1>2. Updated \subseteq UF
  BY ConfigBound DEF Init, Updated
<1>3. Txn!Init
  BY <1>2 DEF Init, Txn!Init, Phase, US, UP, RP
<1>. QED  BY <1>1, <1>3

\* Through any one power loss, or any one failure of the storage, a file or a
\* script, an installation is the transaction of InstallTxn: it is closed with
\* every file installed or every file as it was, and the version advances only
\* after the former (runAction, finalizeAction).
THEOREM TransactionRefined == Spec => TxnImplemented
<1>1. Init => OneFailureInv /\ Txn!Init
  BY InitIsTxn
<1>2. IInv /\ OneFailureInv /\ [Next]_vars => OneFailureInv'
  BY OneFailureInductive
<1>3. IInv /\ OneFailureInv /\ [Next]_vars => (crashes' + faults' <= 1 => [Txn!Next]_Txn!vars)
  BY StepIsTxn DEF FewFailures
<1>4. (crashes' + faults' <= 1 => [Txn!Next]_Txn!vars) => [crashes' + faults' <= 1 => [Txn!Next]_Txn!vars]_vars
  OBVIOUS
<1>. QED  BY <1>1, <1>2, <1>3, <1>4, Invariance, PTL DEF Spec, TxnImplemented

-----------------------------------------------------------------------------
\* The record kept with the caller.

\* What a call works on, and what is pending, is consistent with what is installed.
AcceptedInv ==
    /\ pc # "idle" => UpdateConsistent(update)
    /\ rpState \in Pending => UpdateConsistent(update)

\* An update stays consistent until it is closed: nothing else is accepted, and no
\* version recorded, while it is pending.
LEMMA AcceptedInductive ==
    ASSUME IInv, AcceptedInv, [Next]_vars
    PROVE  AcceptedInv'
<1>1. (pc # "idle" => UpdateConsistent(update))'
  BY UpdateStaysConsistent DEF AcceptedInv
<1>2. ASSUME rpState' \in Pending, rpState' # rpState
      PROVE  UpdateConsistent(update)'
  <2>1. SaveUpdatePending \/ SaveRollbackPending
    BY <1>2, StateWriter DEF Pending, US, RS, UP, RP
  <2>2. UNCHANGED <<update, installed>> /\ pc # "idle"
    BY <2>1 DEF SaveUpdatePending, SaveRollbackPending, SaveState
  <2>. QED  BY <2>2 DEF AcceptedInv, UpdateConsistent
<1>3. ASSUME rpState' \in Pending, rpState' = rpState
      PROVE  UpdateConsistent(update)'
  <2>1. CASE installed' # installed
    BY <1>3, <2>1, InstalledWriter DEF Commit, IInv, ControlInv, Pending, US, UP, RP
  <2>2. CASE installed' = installed /\ update' = update
    BY <1>3, <2>2 DEF AcceptedInv, UpdateConsistent
  <2>3. CASE update' # update
    <3>1. PICK c \in Configs : Apply(c)
      BY <2>3 DEF Next, Step, vars, storage, Resume, Rejected, SaveState, StartRecover, EndRecover,
         SaveUpdatePending, StartUpdate, EndUpdate, SaveInstalledUf, SaveUpdateSuccess,
         SaveRollbackPending, StartRollback, EndRollback, SaveRolledBackUf, ForgetUf,
         SaveRollbackSuccess, Finalize, Commit, Crash, Restart
    <3>. QED  BY <1>3, <2>3, <3>1 DEF Apply, Rejected, StateConsistent
  <2>. QED  BY <2>1, <2>2, <2>3
<1>. QED  BY <1>1, <1>2, <1>3 DEF AcceptedInv

\* As long as an update or its rollback is pending a resume is not refused for the
\* update it is called with: preActionChecks accepted it once, and does so again
\* after any number of power losses and failures.
THEOREM PendingIsAccepted == Spec => [](rpState \in Pending => UpdateConsistent(update))
<1>1. Init => AcceptedInv
  BY DEF Init, AcceptedInv, Pending, US, UP, RP
<1>2. IInv /\ AcceptedInv /\ [Next]_vars => AcceptedInv'
  BY AcceptedInductive
<1>3. AcceptedInv => (rpState \in Pending => UpdateConsistent(update))
  BY DEF AcceptedInv
<1>. QED  BY <1>1, <1>2, <1>3, Invariance, PTL DEF Spec

\* What a step is in the record, by what it does to the four variables behind it.
LEMMA StepIsRecord ==
    ASSUME IInv, AcceptedInv, [Next]_vars
    PROVE  [Record!Next]_Record!recordVars
<1>. USE DEF PendingUpdate, DoneUpdate, Pending, US, RS, UP, RP
<1>1. ASSUME NEW c \in Configs, Apply(c)
      PROVE  UNCHANGED Record!recordVars
  BY <1>1 DEF Apply, MayCall, Begin, Rejected, Return, storage, StateConsistent, Record!recordVars
<1>2. CASE SaveUpdatePending
  <2>1. CASE rpState' = rpState
    BY <1>2, <2>1 DEF SaveUpdatePending, SaveState, Goto, Return, Record!recordVars
  <2>2. CASE rpState' # rpState
    <3>1. PendingUpdate = {} /\ DoneUpdate = {} /\ update.from = installed
      BY <1>2, <2>2 DEF SaveUpdatePending, SaveState, IInv, TypeOK, States, ControlInv, AcceptedInv, UpdateConsistent
    <3>2. Record!Accept(update)
      BY <1>2, <2>2, <3>1 DEF SaveUpdatePending, SaveState, Goto, Return, Record!Accept
    <3>. QED  BY <3>2 DEF Record!Next, IInv, TypeOK
  <2>. QED  BY <2>1, <2>2
<1>3. CASE SaveUpdateSuccess
  <2>1. CASE rpState' = rpState
    BY <1>3, <2>1 DEF SaveUpdateSuccess, SaveState, Goto, Return, Record!recordVars, IInv, ControlInv
  <2>2. CASE rpState' # rpState
    <3>1. Record!Succeed
      BY <1>3, <2>2 DEF SaveUpdateSuccess, SaveState, Goto, Return, IInv, ControlInv, Record!Succeed
    <3>. QED  BY <3>1 DEF Record!Next
  <2>. QED  BY <2>1, <2>2
<1>4. CASE SaveRollbackPending
  BY <1>4 DEF SaveRollbackPending, SaveState, Goto, Return, IInv, ControlInv, Record!recordVars
<1>5. CASE SaveRollbackSuccess
  <2>1. CASE rpState' = rpState
    BY <1>5, <2>1 DEF SaveRollbackSuccess, SaveState, Goto, Return, Record!recordVars, IInv, ControlInv
  <2>2. CASE rpState' # rpState
    <3>1. Record!GiveUp
      BY <1>5, <2>2 DEF SaveRollbackSuccess, SaveState, Goto, Return, IInv, ControlInv, Record!GiveUp
    <3>. QED  BY <3>1 DEF Record!Next
  <2>. QED  BY <2>1, <2>2
<1>6. CASE Finalize
  <2>1. CASE DoneUpdate' = DoneUpdate
    BY <1>6, <2>1 DEF Finalize, Record!recordVars
  <2>2. CASE DoneUpdate' # DoneUpdate
    <3>1. Record!Forget
      BY <1>6, <2>2 DEF Finalize, Goto, Return, Record!Forget
    <3>. QED  BY <3>1 DEF Record!Next
  <2>. QED  BY <2>1, <2>2
<1>7. CASE Commit
  <2>1. DoneUpdate = {update} /\ DoneUpdate' = {} /\ PendingUpdate' = PendingUpdate
    BY <1>7 DEF Commit, Return, IInv, ControlInv
  <2>2. CASE installed' = update.to
    <3>1. Record!Record
      BY <2>1, <2>2 DEF Record!Record
    <3>. QED  BY <3>1 DEF Record!Next
  <2>3. CASE installed' = installed
    <3>1. Record!Forget
      BY <2>1, <2>3 DEF Record!Forget
    <3>. QED  BY <3>1 DEF Record!Next
  <2>. QED  BY <1>7, <2>2, <2>3 DEF Commit
<1>8. CASE Crash
  <2>1. DoneUpdate' = {} /\ UNCHANGED <<PendingUpdate, installed>>
    BY <1>8 DEF Crash, Reboot, storage
  <2>2. CASE DoneUpdate = {}
    BY <2>1, <2>2 DEF Record!recordVars
  <2>3. CASE DoneUpdate # {}
    <3>1. Record!Forget
      BY <2>1, <2>3 DEF Record!Forget
    <3>. QED  BY <3>1 DEF Record!Next
  <2>. QED  BY <2>2, <2>3
<1>9. CASE StartRecover \/ EndRecover \/ StartUpdate \/ EndUpdate \/ SaveInstalledUf
           \/ StartRollback \/ EndRollback \/ SaveRolledBackUf \/ ForgetUf
  <2>1. UNCHANGED <<rpState, update, installed>> /\ {pc, pc'} \cap {"finalize", "commit"} = {}
    BY <1>9 DEF StartRecover, EndRecover, StartUpdate, EndUpdate, SaveInstalledUf, StartRollback,
       EndRollback, SaveRolledBackUf, ForgetUf, StartScript, Goto, Return, Reboot, storage
  <2>. QED  BY <2>1 DEF Record!recordVars
<1>10. CASE Resume \/ Restart \/ UNCHANGED vars
  BY <1>10 DEF Resume, MayCall, Begin, Rejected, Return, Restart, Reboot, storage, vars, Record!recordVars
<1>. QED  BY <1>1, <1>2, <1>3, <1>4, <1>5, <1>6, <1>7, <1>8, <1>9, <1>10 DEF Next, Step

\* Over any number of power losses and failures the manager keeps the record its
\* caller relies on: it accepts an update for the installed version while none is
\* pending, goes on with that one until it is closed, and records its version only
\* after its own success (preActionChecks, finalizeAction).
THEOREM RecordRefined == Spec => RecordKept
<1>1. Init => AcceptedInv /\ Record!Init
  BY DEF Init, AcceptedInv, Record!Init, PendingUpdate, DoneUpdate, Pending, US, UP, RP
<1>2. IInv /\ AcceptedInv /\ [Next]_vars => AcceptedInv'
  BY AcceptedInductive
<1>3. IInv /\ AcceptedInv /\ [Next]_vars => [Record!Next]_Record!recordVars
  BY StepIsRecord
<1>. QED  BY <1>1, <1>2, <1>3, Invariance, PTL DEF Spec, RecordKept, Record!Spec


-----------------------------------------------------------------------------
(* How many steps are left: a number, and zero only between calls.            *)
LEMMA StepsFacts ==
    ASSUME IInv
    PROVE  StepsLeft \in 0 .. 6 * MaxUF + 11
<1>1. MaxUF \in Nat /\ update.n \in Nat /\ update.n <= MaxUF
  BY MaxUFAssumption, ConfigBound DEF IInv, TypeOK
<1>2. /\ ufNb \in -1 .. MaxUF
      /\ pc \in {"updating", "saveInstalledUf", "saveRollbackPending", "rollingBack", "saveRolledBackUf"}
            => ufNb \in 0 .. MaxUF - 1
      /\ pc \in {"saveUpdatePending", "update"} => ufNb \in 0 .. MaxUF
      /\ pc = "rollback" => ufNb \in -1 .. MaxUF - 1
  BY <1>1 DEF IInv, TypeOK, ControlInv, Updated
<1>. USE DEF StepsLeft, RollbackLeft, UpdateLeft
<1>3. CASE pc = "idle"
  BY <1>1, <1>2, <1>3
<1>4. CASE pc = "commit"
  BY <1>1, <1>2, <1>4
<1>5. CASE pc = "finalize"
  BY <1>1, <1>2, <1>5
<1>6. CASE pc = "saveRollbackSuccess"
  BY <1>1, <1>2, <1>6
<1>7. CASE pc = "forgetUf"
  BY <1>1, <1>2, <1>7
<1>8. CASE pc = "saveRolledBackUf"
  BY <1>1, <1>2, <1>8
<1>9. CASE pc = "rollingBack"
  BY <1>1, <1>2, <1>9
<1>10. CASE pc = "rollback"
  BY <1>1, <1>2, <1>10
<1>11. CASE pc = "saveRollbackPending"
  BY <1>1, <1>2, <1>11
<1>12. CASE pc = "saveUpdateSuccess"
  BY <1>1, <1>2, <1>12
<1>13. CASE pc = "saveInstalledUf"
  BY <1>1, <1>2, <1>13
<1>14. CASE pc = "updating"
  BY <1>1, <1>2, <1>14
<1>15. CASE pc = "update"
  BY <1>1, <1>2, <1>15
<1>16. CASE pc = "saveUpdatePending"
  BY <1>1, <1>2, <1>16
<1>17. CASE pc = "recovering"
  BY <1>1, <1>2, <1>17
<1>18. CASE pc = "recover"
  BY <1>1, <1>2, <1>18
<1>. QED  BY <1>3, <1>4, <1>5, <1>6, <1>7, <1>8, <1>9, <1>10, <1>11, <1>12, <1>13, <1>14, <1>15, <1>16, <1>17, <1>18 DEF IInv, TypeOK, Labels

(* Every step of a call leaves fewer.                                         *)
LEMMA StepLeavesFewer ==
    ASSUME IInv, Step
    PROVE  StepsLeft' < StepsLeft
<1>. USE DEF Goto, Return, Reboot, RollbackLeft, UpdateLeft, Fault, NoFault
<1>1. update.n \in Nat /\ update.n <= MaxUF /\ ufNb \in -1 .. MaxUF
  BY ConfigBound DEF IInv, TypeOK
<1>2. ControlInv
  BY DEF IInv
<1>3. CASE StartRecover
  BY <1>1, <1>3 DEF StartRecover, StartScript, StepsLeft
<1>4. CASE EndRecover
  <2>1. ufNb \in 0 .. MaxUF - 1
    BY <1>1, <1>2, <1>4 DEF EndRecover, ControlInv, Updated
  <2>. QED  BY <1>1, <1>4, <2>1 DEF EndRecover, StepsLeft
<1>5. CASE SaveUpdatePending
  BY <1>1, <1>2, <1>5 DEF SaveUpdatePending, SaveState, ControlInv, StepsLeft
<1>6. CASE StartUpdate
  <2>1. ufNb \in 0 .. update.n
    BY <1>2, <1>6 DEF StartUpdate, ControlInv
  <2>. QED  BY <1>1, <1>6, <2>1 DEF StartUpdate, StartScript, MoreUfs, StepsLeft
<1>7. CASE EndUpdate
  <2>1. ufNb \in 0 .. MaxUF - 1
    BY <1>1, <1>2, <1>7 DEF EndUpdate, ControlInv, Updated
  <2>. QED  BY <1>1, <1>7, <2>1 DEF EndUpdate, StepsLeft
<1>8. CASE SaveInstalledUf
  <2>1. ufNb \in 0 .. MaxUF - 1
    BY <1>1, <1>2, <1>8 DEF SaveInstalledUf, ControlInv, Updated
  <2>. QED  BY <1>1, <1>8, <2>1 DEF SaveInstalledUf, StepsLeft
<1>9. CASE SaveUpdateSuccess
  BY <1>1, <1>9 DEF SaveUpdateSuccess, SaveState, StepsLeft
<1>10. CASE SaveRollbackPending
  <2>1. ufNb \in 0 .. MaxUF - 1
    BY <1>1, <1>2, <1>10 DEF SaveRollbackPending, ControlInv, Updated
  <2>. QED  BY <1>1, <1>10, <2>1 DEF SaveRollbackPending, SaveState, StepsLeft
<1>11. CASE StartRollback
  BY <1>1, <1>11 DEF StartRollback, StartScript, MoreToRollBack, StepsLeft
<1>12. CASE EndRollback
  <2>1. ufNb \in 0 .. MaxUF - 1
    BY <1>1, <1>2, <1>12 DEF EndRollback, ControlInv, Updated
  <2>. QED  BY <1>1, <1>12, <2>1 DEF EndRollback, StepsLeft
<1>13. CASE SaveRolledBackUf
  <2>1. ufNb \in 0 .. MaxUF - 1
    BY <1>1, <1>2, <1>13 DEF SaveRolledBackUf, ControlInv, Updated
  <2>. QED  BY <1>1, <1>13, <2>1 DEF SaveRolledBackUf, StepsLeft
<1>14. CASE ForgetUf \/ SaveRollbackSuccess \/ Finalize \/ Commit
  BY <1>14 DEF ForgetUf, SaveRollbackSuccess, SaveState, Finalize, Commit, StepsLeft
<1>. QED  BY <1>3, <1>4, <1>5, <1>6, <1>7, <1>8, <1>9, <1>10, <1>11, <1>12, <1>13, <1>14 DEF Step

(* A call of the manager makes a bounded number of steps, whatever fails in it: its *)
(* loops over the update files (runUpdate, runRollback) always come closer to their *)
(* end, and a failed update turns to the rollback only once.                        *)
THEOREM CallsAreBounded == Spec => []StepsBounded /\ StepsRunOut
<1>1. IInv => StepsBounded
  BY StepsFacts DEF StepsBounded
<1>2. IInv /\ [Next]_vars => [Step => StepsLeft' < StepsLeft]_vars
  BY StepLeavesFewer
<1>. QED  BY <1>1, <1>2, Invariance, PTL DEF Spec, StepsRunOut

(* Under fairness it comes nearer to its end, or is there: after every number of  *)
(* steps left there is a smaller one.  (CallReturns follows by induction on that  *)
(* number.)  That the call can always go on (CallGoesOn) is a hypothesis, since   *)
(* it speaks of ENABLED; TLC confirms it.                                         *)
THEOREM CallComesNearer ==
    ASSUME NEW n \in Nat
    PROVE  FairSpec /\ []CallGoesOn
              => (pc # "idle" /\ StepsLeft = n ~> pc = "idle" \/ StepsLeft < n)
<1>. DEFINE Busy == pc # "idle" /\ StepsLeft = n
           Nearer == pc = "idle" \/ StepsLeft < n
<1>1. IInv /\ Busy /\ [Next]_vars => Busy' \/ Nearer'
  <2>. SUFFICES ASSUME IInv, Busy, [Next]_vars
                PROVE  Busy' \/ Nearer'
    OBVIOUS
  <2>1. CASE Step
    BY <2>1, StepLeavesFewer
  <2>2. CASE Crash
    BY <2>2 DEF Crash, Reboot
  <2>3. CASE UNCHANGED vars
    BY <2>3 DEF vars, StepsLeft, RollbackLeft, UpdateLeft
  <2>. QED  BY <2>1, <2>2, <2>3 DEF Next, Apply, Resume, Restart, MayCall
<1>2. IInv /\ Busy /\ <<Step>>_vars => Nearer'
  BY StepLeavesFewer
<1>3. CallGoesOn /\ Busy => ENABLED <<Step>>_vars
  BY DEF CallGoesOn
<1>. QED  BY <1>1, <1>2, <1>3, Invariance, PTL DEF FairSpec, Spec
=============================================================================
