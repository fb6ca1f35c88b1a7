---------------------------- MODULE MCRPManager ----------------------------
(* RPManager on one release package at version 0 or 1: updates of two and  *)
(* three files that can be accepted in turn, and one config for each of    *)
(* the checks that refuse one.                                             *)
EXTENDS RPManager

Good(n, v) == [n |-> n, matches |-> TRUE, from |-> v, to |-> v + 1, assigned |-> v + 1]

MCGood == {Good(2, 0), Good(3, 0), Good(1, 1), Good(3, 1)}

MCConfigs == MCGood \cup
    {[Good(2, 0) EXCEPT !.n = 0],
     [Good(2, 0) EXCEPT !.matches = FALSE],
     [Good(2, 0) EXCEPT !.to = 0],
     [Good(2, 0) EXCEPT !.to = 2]}

=============================================================================
