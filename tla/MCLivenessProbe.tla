--------------------------- MODULE MCLivenessProbe ---------------------------
(***************************************************************************)
(* LivenessProbe for programs of up to two inputs with ladders of one or   *)
(* two values, or three inputs with one, and two output cells.  A run      *)
(* leaves the output alone, moves one cell or both, or traps; it takes 1,  *)
(* 3 or 6 steps against a cap of 2 or 4, so the cap cuts some runs short;  *)
(* the budgets (5, 6 and 10) are met in the middle of either pass, exactly *)
(* at their ends, and never.  Two values of a ladder are enough for one to *)
(* trap and the other not.                                                 *)
(***************************************************************************)
EXTENDS LivenessProbe

MCRuns == {[traps |-> FALSE, moved |-> m, steps |-> n] : m \in {{}, {1}, {1, 2}}, n \in {1, 6}}
            \cup {[traps |-> TRUE, moved |-> {}, steps |-> n] : n \in {1, 3}}

Ladders(lengths) == UNION {[1 .. len -> MCRuns] : len \in lengths}

MCSubjects ==
  {[base |-> b, fixed |-> 1, cells |-> {1, 2}, runs |-> r] :
     b \in {1, 2, 4},
     r \in {<<>>} \cup [1 .. 1 -> Ladders({1, 2})] \cup [1 .. 2 -> Ladders({1, 2})]
             \cup [1 .. 3 -> Ladders({1})]}
=============================================================================
