---------------------------- MODULE MCTauKernel ----------------------------
(***************************************************************************)
(* TauKernel on an 11-bit word: grids of 2 and 3, coefficients from zero   *)
(* to past the envelope and of either sign, and sources that drive the     *)
(* field against both clamps.  At frac_bits 0 the field lies in 0 .. 10,   *)
(* at 3 in 1 .. 80.                                                        *)
(***************************************************************************)
EXTENDS TauKernel

Grid(n) == Coordinates(n) \X Coordinates(n)

\* Even, alternating, and at one corner.
Fields(n, s) ==
  {[c \in Grid(n) |-> s],
   [c \in Grid(n) |-> IF (c[1] + c[2]) % 2 = 0 THEN s ELSE -s],
   [c \in Grid(n) |-> IF (c[1] + c[2]) % 2 = 0 THEN -s ELSE s],
   [c \in Grid(n) |-> IF c = <<0, 0>> THEN s ELSE 0]}

Blocks(n, steps, f, strengths, ds, gs, dts) ==
  UNION {{[wellFormed |-> TRUE, grid |-> n, steps |-> steps, frac |-> f,
           strength |-> s, d |-> d, g |-> g, dt |-> dt, field |-> field] :
            d \in ds, g \in gs, dt \in dts, field \in Fields(n, s * 2^f)} : s \in strengths}

Good == CHOOSE b \in Blocks(2, 1, 0, {1}, {1}, {1}, {1}) : TRUE

Odd ==
  {[Good EXCEPT !.wellFormed = FALSE], [Good EXCEPT !.grid = 1, !.field = [c \in Grid(1) |-> 0]],
   [Good EXCEPT !.grid = 5, !.field = [c \in Grid(5) |-> 0]], [Good EXCEPT !.steps = -1],
   [Good EXCEPT !.steps = 0], [Good EXCEPT !.steps = 7], [Good EXCEPT !.frac = -1],
   [Good EXCEPT !.frac = 6],
   [Good EXCEPT !.grid = 3, !.steps = 6, !.field = [c \in Grid(3) |-> 0]]}

MCParams ==
  Odd
  \cup Blocks(2, 3, 0, {0, 11}, {-1, 1, 7, 14}, {-2, 1}, {-1, 1, 8})
  \cup Blocks(3, 3, 0, {11}, {-2, 4, 25, 26}, {-1, 1, 103}, {1, 5})
  \cup Blocks(3, 3, 3, {2}, {1, 3, 4}, {-1, 5, 13}, {1, 6, 20})

=============================================================================
