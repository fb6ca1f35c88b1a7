----------------------------- MODULE InstallTxn ----------------------------
(***************************************************************************)
(* What installing a release package promises, without the how: an update  *)
(* of several files is one transaction.  It is closed only with every file *)
(* installed or with every file as it was, and the version of the package  *)
(* advances only after the former.                                         *)
(***************************************************************************)
EXTENDS Integers

CONSTANTS Files, Versions

VARIABLES
    phase,      \* "closed", "updating" or "rollingBack"
    files,      \* the files of the update being worked on
    image,      \* what each file's image holds
    installed   \* the version of the package on record

vars == <<phase, files, image, installed>>

Init ==
    /\ phase = "closed"
    /\ files \in SUBSET Files
    /\ image = [f \in Files |-> "pre"]
    /\ installed \in Versions

\* An update is chosen: what the device holds now is what it would go back to.
Choose ==
    /\ phase = "closed"
    /\ files' \in (SUBSET Files) \ {{}}
    /\ image' = [f \in Files |-> "pre"]
    /\ UNCHANGED <<phase, installed>>

Open == phase = "closed" /\ phase' = "updating" /\ UNCHANGED <<files, image, installed>>

\* A script works on one file: forward, or back.
Work(f) ==
    /\ \/ phase = "updating" /\ image' \in {[image EXCEPT ![f] = "torn"], [image EXCEPT ![f] = "post"]}
       \/ phase = "rollingBack" /\ image' \in {[image EXCEPT ![f] = "torn"], [image EXCEPT ![f] = "pre"]}
    /\ UNCHANGED <<phase, files, installed>>

Close ==
    /\ phase = "updating" /\ \A f \in files : image[f] = "post"
    /\ phase' = "closed" /\ UNCHANGED <<files, image, installed>>

GiveUp == phase = "updating" /\ phase' = "rollingBack" /\ UNCHANGED <<files, image, installed>>

CloseReverted ==
    /\ phase = "rollingBack" /\ \A f \in files : image[f] = "pre"
    /\ phase' = "closed" /\ UNCHANGED <<files, image, installed>>

Publish ==
    /\ phase = "closed" /\ \A f \in files : image[f] = "post"
    /\ installed' \in {v \in Versions : v > installed}
    /\ UNCHANGED <<phase, files, image>>

Next ==
    \/ Choose \/ Open \/ (\E f \in files : Work(f))
    \/ Close \/ GiveUp \/ CloseReverted \/ Publish

Spec == Init /\ [][Next]_vars

=============================================================================
