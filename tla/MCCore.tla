------------------------------ MODULE MCCore -------------------------------
(* Core with two updates for the version that is installed first, one for  *)
(* the version after it, and a config that offers nothing.                 *)
EXTENDS Core

Offer(v, w) == [hasUpdate |-> TRUE, from |-> v, to |-> w]
Nothing     == [hasUpdate |-> FALSE, from |-> 0, to |-> 0]

MCConfigs == {Offer(0, 1), Offer(0, 2), Offer(1, 2), Nothing}

=============================================================================
