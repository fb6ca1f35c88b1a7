--------------------------- MODULE MCDownloadMgr ---------------------------
(***************************************************************************)
(* A small instance of DownloadMgr: one update of two files, one of one.   *)
(***************************************************************************)
EXTENDS DownloadMgr

CONSTANTS uA, uB, fa, fb, fc

MCUFs == [u \in {uA, uB} |-> IF u = uA THEN <<fa, fb>> ELSE <<fc>>]
MCFile == {fa, fb, fc} \X {"META", "DATA"}

=============================================================================
