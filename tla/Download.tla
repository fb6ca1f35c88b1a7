------------------------------ MODULE Download ------------------------------
(***************************************************************************)
(* What downloading promises (core/downloadmgr.h): a download begins, it   *)
(* succeeds only with every file of its update in place and extracted,     *)
(* anything else leaves nothing that counts as downloaded, and no restart  *)
(* of the program, of the daemon or of a transfer is seen from outside.    *)
(***************************************************************************)

CONSTANTS
    Updates,    \* what can be asked for
    None        \* nothing

VARIABLES
    job,        \* the update being downloaded
    have        \* the updates whose files are all there

downloadVars == <<job, have>>

Init == job = None /\ have = {}

\* The files of the update may be found in place.
Begin(u) ==
    /\ job = None /\ job' = u
    /\ \E kept \in {have, {}} : have' \in {kept, kept \cup {u}}

\* Files of the update arrive, or are dropped to be fetched again.
Work ==
    /\ job # None
    /\ have' \in {have \cup {job}, have \ {job}}
    /\ UNCHANGED job

Succeed == job \in have /\ job' = None /\ UNCHANGED have

Fail == job # None /\ job' = None /\ have' = {}

Switch(u) == job # None /\ u # job /\ job' = u /\ have' \in {{}, {u}}

\* The files have been used, or nobody is going to.
Clear == job = None /\ have' = {} /\ UNCHANGED job

Next ==
    \/ \E u \in Updates : Begin(u) \/ Switch(u)
    \/ Work \/ Succeed \/ Fail \/ Clear

Spec == Init /\ [][Next]_downloadVars

=============================================================================
