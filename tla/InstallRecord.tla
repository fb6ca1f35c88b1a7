--------------------------- MODULE InstallRecord ----------------------------
(***************************************************************************)
(* What the release package manager and its caller rely on in each other   *)
(* (rpmanager.h): an update is accepted for the installed version while    *)
(* none is pending, what is resumed is that update, it is closed by its    *)
(* own success or roll-back, and only its success can advance the version  *)
(* on record, which may also be forgotten on the way.                      *)
(*                                                                         *)
(* RPManager keeps its side of this whatever fails; Core keeps the other   *)
(* side, in that it never resumes an update with the config of another.    *)
(***************************************************************************)
EXTENDS Integers

CONSTANT Updates    \* records that say, among others, from and to what version

VARIABLES
    pending,        \* the update that was accepted and is not closed, if any
    done,           \* the update that was installed and is not on record, if any
    installed       \* the version on record

recordVars == <<pending, done, installed>>

Init == pending = {} /\ done = {} /\ installed = 0

Accept(u) ==
    /\ pending = {} /\ done = {} /\ u.from = installed
    /\ pending' = {u}
    /\ UNCHANGED <<done, installed>>

Succeed == pending # {} /\ done' = pending /\ pending' = {} /\ UNCHANGED installed

GiveUp == pending # {} /\ pending' = {} /\ UNCHANGED <<done, installed>>

Record == \E u \in done : installed' = u.to /\ done' = {} /\ UNCHANGED pending

Forget == done # {} /\ done' = {} /\ UNCHANGED <<pending, installed>>

Next == (\E u \in Updates : Accept(u)) \/ Succeed \/ GiveUp \/ Record \/ Forget

Spec == Init /\ [][Next]_recordVars

=============================================================================
