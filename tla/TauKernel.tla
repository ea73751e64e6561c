------------------------------ MODULE TauKernel ------------------------------
(***************************************************************************)
(* The fixed kernel of src/obsign_verify/kernel.py: validate_params, and   *)
(* evolve one array operation after the other on the buffers acc and tmp.  *)
(* Whatever an operation stores is reduced to a machine word, as numpy     *)
(* does without a word; the promise of the kernel is that this never shows *)
(* on parameters that validate_params lets through.                        *)
(*                                                                         *)
(* A parameter block is seen after its floats were scaled: d, g and dt are *)
(* the integers _scaled returns for D, gamma and dt, strength is the sum   *)
(* of |source strength| rounded up, and field the source term S, which     *)
(* exp(-x) <= 1 and the monotony of float addition keep within             *)
(* strength * 2^frac (kernel.py:262-264).  wellFormed stands for the types     *)
(* and float ranges of all of them.                                        *)
(***************************************************************************)
EXTENDS Integers

CONSTANTS
  Half,            \* 2^63
  MaxGrid, MaxTauSteps, MaxCellSteps, MaxFracBits,
  Params           \* the parameter blocks evolved

Word == -Half .. Half - 1
WordMax == Half - 1

Magnitude(v) == IF v < 0 THEN -v ELSE v

\* The first conjunct only says what powers of two are.
ASSUME LimitAssumption ==
  /\ MaxFracBits \in Nat /\ \A f \in 0 .. MaxFracBits : 2^f \in Nat \ {0}
  /\ Half \in Nat \ {0} /\ MaxGrid \in Nat /\ MaxTauSteps \in Nat /\ MaxCellSteps \in Nat

Coordinates(grid) == 0 .. grid - 1

ASSUME ParamsAssumption ==
  \A p \in Params :
    /\ p.wellFormed \in BOOLEAN
    /\ p.grid \in Int /\ p.steps \in Int /\ p.frac \in Int /\ p.strength \in Nat
    /\ p.d \in Int /\ p.g \in Int /\ p.dt \in Int
    /\ p.field \in [Coordinates(p.grid) \X Coordinates(p.grid) -> Int]
    /\ p.frac \in 0 .. MaxFracBits =>
         \A c \in DOMAIN p.field : Magnitude(p.field[c]) <= p.strength * 2^p.frac

VARIABLES
  p,
  pc,        \* the operation next performed; "refused" and "done" are ends
  it,        \* iterations completed
  t, acc, tmp,
  wrapped    \* history: some operation's exact result did not fit in a word

vars == <<p, pc, it, t, acc, tmp, wrapped>>

-----------------------------------------------------------------------------
(* validate_params.                                                        *)

Scale == 2^p.frac
Lo == (Scale + 50) \div 100      \* round(0.01 * scale)
Hi == 10 * Scale

\* Mutant: the laplacian is bounded as if a cell had two neighbours.
LapMaxOfTwo == 2 * (Hi - Lo)

LapMax == 4 * (Hi - Lo)

SourceMax == p.strength * Scale + 1

DiffusionMax == (Magnitude(p.d) * LapMax) \div Scale
DecayMax == (Magnitude(p.g) * Hi) \div Scale
InnerMax == DiffusionMax + DecayMax + SourceMax

Sizes ==
  /\ p.grid \in 2 .. MaxGrid /\ p.steps \in 0 .. MaxTauSteps
  /\ p.frac \in 0 .. MaxFracBits
  /\ p.grid * p.grid * (IF p.steps > 1 THEN p.steps ELSE 1) <= MaxCellSteps

\* The worst case of every temporary of an iteration, given Lo <= t <= Hi.
Envelope ==
  /\ 4 * Hi <= WordMax
  /\ SourceMax <= WordMax
  /\ {p.d, p.g, p.dt} \subseteq Word
  /\ Magnitude(p.d) * LapMax <= WordMax
  /\ Magnitude(p.g) * Hi <= WordMax
  /\ InnerMax <= WordMax
  /\ Magnitude(p.dt) * InnerMax <= WordMax
  /\ Hi + (Magnitude(p.dt) * InnerMax) \div Scale <= WordMax

Admitted == p.wellFormed /\ Sizes /\ Envelope

-----------------------------------------------------------------------------
(* evolve.                                                                 *)

Cells == Coordinates(p.grid) \X Coordinates(p.grid)

Wrap(v) == ((v + Half) % (2 * Half)) - Half

Fits(field) == \A c \in Cells : field[c] \in Word

\* What an operation stores, for its exact result.
Stored(exact) == [c \in Cells |-> Wrap(exact[c])]

Sum(a, b) == [c \in Cells |-> a[c] + b[c]]
Difference(a, b) == [c \in Cells |-> a[c] - b[c]]
Times(a, k) == [c \in Cells |-> a[c] * k]

\* Mutant: the arithmetic shift alone, which floors.
TDivFloor(a) == a \div Scale

\* tdiv: an arithmetic shift, of a negative number biased by scale - 1.
TDiv(a) == (IF a < 0 THEN a + (Scale - 1) ELSE a) \div Scale

TDivAll(a) == [c \in Cells |-> TDiv(a[c])]

\* The neighbour on a side, or at the edge the cell itself.
Clamped(k) == IF k < 0 THEN 0 ELSE IF k > p.grid - 1 THEN p.grid - 1 ELSE k

Neighbour(side, c) ==
  CASE side = "up" -> <<Clamped(c[1] - 1), c[2]>>
    [] side = "down" -> <<Clamped(c[1] + 1), c[2]>>
    [] side = "left" -> <<c[1], Clamped(c[2] - 1)>>
    [] side = "right" -> <<c[1], Clamped(c[2] + 1)>>

Shifted(side) == [c \in Cells |-> t[Neighbour(side, c)]]

Clip(v) == IF v < Lo THEN Lo ELSE IF v > Hi THEN Hi ELSE v

Init ==
  /\ p \in Params
  /\ pc = "params" /\ it = 0
  /\ t = <<>> /\ acc = <<>> /\ tmp = <<>>
  /\ wrapped = FALSE

Refuse ==
  /\ pc = "params" /\ ~Admitted
  /\ pc' = "refused"
  /\ UNCHANGED <<p, it, t, acc, tmp, wrapped>>

\* The buffers are allocated and not initialised: they hold anything.
Start ==
  /\ pc = "params" /\ Admitted
  /\ t' = [c \in Cells |-> Scale]
  /\ \E junk \in {-Half, 0, WordMax} :
       acc' = [c \in Cells |-> junk] /\ tmp' = acc'
  /\ pc' = IF p.steps = 0 THEN "done" ELSE "up"
  /\ UNCHANGED <<p, it, wrapped>>

\* One line of the loop: the buffers it leaves, and the exact results it stored.
Operation(label, next, newAcc, newTmp, exact) ==
  /\ pc = label /\ pc' = next
  /\ acc' = newAcc /\ tmp' = newTmp
  /\ wrapped' = (wrapped \/ \E field \in exact : ~Fits(field))
  /\ UNCHANGED <<p, it, t>>

Up == Operation("up", "down", Shifted("up"), tmp, {})

AddNeighbour(side, next) ==
  LET sum == Sum(acc, Shifted(side))
  IN  Operation(side, next, Stored(sum), Shifted(side), {sum})

Gather == \/ AddNeighbour("down", "left") \/ AddNeighbour("left", "right")
          \/ AddNeighbour("right", "laplacian")

Laplacian ==
  LET four == Times(t, 4)
      lap  == Difference(acc, Stored(four))
  IN  Operation("laplacian", "diffuse", Stored(lap), Stored(four), {four, lap})

Diffuse ==
  LET product == Times(acc, p.d)
  IN  Operation("diffuse", "decay", TDivAll(Stored(product)), tmp, {product})

Decay ==
  LET product == Times(t, p.g)
      rate    == TDivAll(Stored(product))
      rest    == Difference(acc, rate)
  IN  Operation("decay", "source", Stored(rest), rate, {product, rest})

AddSource ==
  LET inner == Sum(acc, p.field)
  IN  Operation("source", "advance", Stored(inner), tmp, {inner})

\* Mutant: the field is left where the step takes it.
AdvanceUnclipped ==
  LET product == Times(acc, p.dt)
      change  == TDivAll(Stored(product))
      moved   == Sum(t, change)
  IN  /\ pc = "advance"
      /\ acc' = change
      /\ t' = Stored(moved)
      /\ wrapped' = (wrapped \/ ~Fits(product) \/ ~Fits(moved))
      /\ it' = it + 1
      /\ pc' = IF it' = p.steps THEN "done" ELSE "up"
      /\ UNCHANGED <<p, tmp>>

Advance ==
  LET product == Times(acc, p.dt)
      change  == TDivAll(Stored(product))
      moved   == Sum(t, change)
  IN  /\ pc = "advance"
      /\ acc' = change
      /\ t' = [c \in Cells |-> Clip(Wrap(moved[c]))]
      /\ wrapped' = (wrapped \/ ~Fits(product) \/ ~Fits(moved))
      /\ it' = it + 1
      /\ pc' = IF it' = p.steps THEN "done" ELSE "up"
      /\ UNCHANGED <<p, tmp>>

Iterate == Up \/ Gather \/ Laplacian \/ Diffuse \/ Decay \/ AddSource \/ Advance

Next == Refuse \/ Start \/ Iterate

Spec == Init /\ [][Next]_vars

-----------------------------------------------------------------------------
(* What the kernel promises.                                               *)

Running == pc \notin {"params", "refused"}

\* The buffers hold words and the field is within its clamps at every step,
\* which is what the worst cases of the envelope are worst cases of
\* (kernel.py:190-192).
TypeOK ==
  /\ it \in Nat /\ wrapped \in BOOLEAN
  /\ pc \in {"params", "refused", "up", "down", "left", "right", "laplacian",
             "diffuse", "decay", "source", "advance", "done"}
  /\ Running => /\ t \in [Cells -> Lo .. Hi]
                /\ acc \in [Cells -> Word] /\ tmp \in [Cells -> Word]

\* No operation on admitted parameters, in any iteration, has a result that a
\* word cannot hold, so numpy, a Rust build that panics and a C++ compiler that
\* assumes it away cannot differ (kernel.py:58-66, 192-195).
NothingWraps == wrapped = FALSE

\* a / 2^frac rounded toward zero.
Truncated(a) == IF a < 0 THEN -((-a) \div Scale) ELSE a \div Scale

\* The step of the docstring, over the integers.
ExactStep(c) ==
  LET lap   == t[<<Clamped(c[1] - 1), c[2]>>] + t[<<Clamped(c[1] + 1), c[2]>>]
               + t[<<c[1], Clamped(c[2] - 1)>>] + t[<<c[1], Clamped(c[2] + 1)>>] - 4 * t[c]
      inner == Truncated(p.d * lap) - Truncated(p.g * t[c]) + p.field[c]
  IN  Clip(t[c] + Truncated(p.dt * inner))

\* What the buffers and shifts compute in an iteration is the step of the
\* docstring in exact arithmetic, rounding toward zero (kernel.py:343-348).
FieldIsExact ==
  [][it' # it => t' = [c \in Cells |-> ExactStep(c)]]_vars

\* No receipt makes its verifier update more cells than the bound on the product
\* says (kernel.py:52-56).
WorkIsBounded == it * p.grid * p.grid <= MaxCellSteps

=============================================================================
