-------------------------- MODULE TauKernelProofs --------------------------
(***************************************************************************)
(* That validate_params is enough: on every parameter block it lets        *)
(* through, at every word width, no operation of evolve wraps.             *)
(*                                                                         *)
(* The clamps bound the field; between two clamps the accumulator is       *)
(* bounded by the value chain of validate_params, one link for each        *)
(* operation.  AccInRange states the link each operation leaves.           *)
(*                                                                         *)
(* As nothing wraps, what each operation leaves is its exact result; the   *)
(* second part says which, and that the last one is the documented step.   *)
(***************************************************************************)
EXTENDS TauKernel, TLAPS

\* Only vetted parameters are evolved.
Vetted == p \in Params /\ (Running => Admitted)

\* The iterations completed, at each stage.
Counted ==
  /\ ~Running => it = 0
  /\ Running => it <= p.steps
  /\ Running /\ pc # "done" => it < p.steps

\* The accumulator is within the link of the value chain it has reached.
AccInRange ==
  /\ pc = "down" => acc \in [Cells -> Lo .. Hi]
  /\ pc = "left" => acc \in [Cells -> 2 * Lo .. 2 * Hi]
  /\ pc = "right" => acc \in [Cells -> 3 * Lo .. 3 * Hi]
  /\ pc = "laplacian" => acc \in [Cells -> 4 * Lo .. 4 * Hi]
  /\ pc = "diffuse" => acc \in [Cells -> -LapMax .. LapMax]
  /\ pc = "decay" => acc \in [Cells -> -DiffusionMax .. DiffusionMax]
  /\ pc = "source" =>
       acc \in [Cells -> -(DiffusionMax + DecayMax) .. DiffusionMax + DecayMax]
  /\ pc = "advance" => acc \in [Cells -> -InnerMax .. InnerMax]

IInv == Vetted /\ TypeOK /\ Counted /\ AccInRange /\ NothingWraps

-----------------------------------------------------------------------------
(* Arithmetic. *)

\* Multiplication by a number that is not negative preserves order.
LEMMA Monotone ==
  ASSUME NEW a \in Int, NEW b \in Int, NEW k \in Nat, a <= b
  PROVE  a * k <= b * k
BY SMT

\* The largest magnitude of a product.
LEMMA ProductBound ==
  ASSUME NEW m \in Nat, NEW a \in -m .. m, NEW k \in Int
  PROVE  a * k \in -(Magnitude(k) * m) .. Magnitude(k) * m
<1>1. CASE k >= 0
  <2>1. Magnitude(k) = k
    BY <1>1 DEF Magnitude
  <2>2. a * k <= m * k /\ (-m) * k <= a * k
    BY Monotone, <1>1
  <2> QED BY <2>1, <2>2
<1>2. CASE k < 0
  <2>1. Magnitude(k) = -k /\ -k \in Nat
    BY <1>2 DEF Magnitude
  <2>2. a * (-k) <= m * (-k) /\ (-m) * (-k) <= a * (-k)
    BY Monotone, <2>1
  <2> QED BY <2>1, <2>2
<1> QED BY <1>1, <1>2

\* What the quotient is, of integers.
LEMMA Quotient ==
  ASSUME NEW s \in Nat \ {0}, NEW a \in Int
  PROVE  a \div s \in Int /\ s * (a \div s) <= a /\ a < s * (a \div s) + s
BY SMT

\* Two multiples of s less than s apart in that order.
LEMMA MultiplesInOrder ==
  ASSUME NEW s \in Nat \ {0}, NEW q \in Int, NEW k \in Int, s * q < s * k + s
  PROVE  q <= k
<1>1. SUFFICES ASSUME q >= k + 1 PROVE FALSE
  OBVIOUS
<1>2. (k + 1) * s <= q * s
  BY <1>1, Monotone
<1> QED BY <1>2

\* A biased shift rounds toward zero, so it keeps within the rounded bound.
LEMMA ShiftBound ==
  ASSUME NEW s \in Nat \ {0}, NEW m \in Nat, NEW a \in -m .. m
  PROVE  (IF a < 0 THEN a + (s - 1) ELSE a) \div s \in -(m \div s) .. m \div s
<1> DEFINE k == m \div s
           b == IF a < 0 THEN a + (s - 1) ELSE a
           q == b \div s
<1>1. /\ b \in Int
      /\ b <= m \/ b <= s - 1
      /\ b >= -m + (s - 1) \/ b >= 0
  OBVIOUS
<1>2. k \in Int /\ s * k <= m /\ m < s * k + s
  BY Quotient
<1>3. q \in Int /\ s * q <= b /\ b < s * q + s
  BY Quotient, <1>1
<1>4. k >= 0
  BY <1>2, MultiplesInOrder, 0 * s = 0
<1> HIDE DEF k, b, q
<1>5. q <= k
  <2>1. CASE b <= m
    <3>1. s * q < s * k + s
      BY <2>1, <1>1, <1>2, <1>3
    <3> QED BY <3>1, <1>2, <1>3, MultiplesInOrder
  <2>2. CASE b <= s - 1
    <3>1. s * q < s * 0 + s
      BY <2>2, <1>1, <1>3
    <3>2. q <= 0
      BY <3>1, <1>3, MultiplesInOrder
    <3> QED BY <3>2, <1>2, <1>3, <1>4
  <2> QED BY <1>1, <2>1, <2>2
<1>6. -k <= q
  <2>1. CASE b >= 0
    <3>1. s * 0 < s * q + s
      BY <2>1, <1>1, <1>3
    <3>2. 0 <= q
      BY <3>1, <1>3, MultiplesInOrder
    <3> QED BY <3>2, <1>2, <1>3, <1>4
  <2>2. CASE b >= -m + (s - 1)
    <3>1. s * (-k) = -(s * k)
      BY <1>2
    <3>2. s * (-k) < s * q + s
      BY <2>2, <3>1, <1>1, <1>2, <1>3
    <3> QED BY <3>2, <1>2, <1>3, MultiplesInOrder
  <2> QED BY <1>1, <2>1, <2>2
<1> QED BY <1>2, <1>3, <1>5, <1>6 DEF k, b, q

\* A word is its own reduction.
LEMMA WordKept ==
  ASSUME NEW v \in Word
  PROVE  Wrap(v) = v
BY LimitAssumption DEF Wrap, Word

-----------------------------------------------------------------------------
(* The value chain of admitted parameters. *)

\* The numbers the chain is made of, and what Envelope says of them.
LEMMA Chain ==
  ASSUME p \in Params, Admitted
  PROVE  /\ Scale \in Nat \ {0} /\ Lo \in Nat /\ Hi \in Nat
         /\ Lo <= Scale /\ Scale <= Hi
         /\ LapMax \in Nat /\ SourceMax \in Nat
         /\ p.d \in Int /\ p.g \in Int /\ p.dt \in Int
         /\ p.grid \in Nat /\ p.steps \in Nat
<1>1. Scale \in Nat \ {0}
  BY LimitAssumption DEF Admitted, Sizes, Scale
<1>2. Hi \in Nat /\ Scale <= Hi
  BY <1>1 DEF Hi
<1>3. Lo \in Nat /\ Lo <= Scale
  BY <1>1 DEF Lo
<1>4. LapMax \in Nat
  BY <1>1, <1>2, <1>3 DEF LapMax
<1>5. p.strength \in Nat /\ p.d \in Int /\ p.g \in Int /\ p.dt \in Int
  BY ParamsAssumption
<1>6. SourceMax \in Nat
  BY <1>1, <1>5, Monotone, 0 * Scale = 0 DEF SourceMax
<1>7. p.grid \in Nat /\ p.steps \in Nat
  BY LimitAssumption DEF Admitted, Sizes
<1> QED BY <1>1, <1>2, <1>3, <1>4, <1>5, <1>6, <1>7

\* The links that are quotients.
LEMMA Links ==
  ASSUME p \in Params, Admitted
  PROVE  DiffusionMax \in Nat /\ DecayMax \in Nat /\ InnerMax \in Nat
<1>1. /\ Magnitude(p.d) \in Nat /\ Magnitude(p.g) \in Nat
      /\ Scale \in Nat \ {0} /\ LapMax \in Nat /\ Hi \in Nat /\ SourceMax \in Nat
  BY Chain DEF Magnitude
<1>2. \A a \in Nat, b \in Nat : (a * b) \div Scale \in Nat
  <2> TAKE a \in Nat, b \in Nat
  <2>1. a * b \in Nat
    BY Monotone, 0 * b = 0
  <2>2. (a * b) \div Scale \in Int /\ a * b < Scale * ((a * b) \div Scale) + Scale
    BY <2>1, <1>1, Quotient
  <2>3. Scale * 0 < Scale * ((a * b) \div Scale) + Scale
    BY <2>1, <2>2, <1>1
  <2> QED BY <2>2, <2>3, <1>1, MultiplesInOrder
<1> QED BY <1>1, <1>2 DEF DiffusionMax, DecayMax, InnerMax

\* The source term is within its link.
LEMMA SourceBound ==
  ASSUME p \in Params, Admitted, NEW c \in Cells
  PROVE  p.field[c] \in -SourceMax .. SourceMax
<1>1. /\ p.field[c] \in Int
      /\ Magnitude(p.field[c]) <= p.strength * Scale
  BY ParamsAssumption DEF Admitted, Sizes, Cells, Scale
<1>2. SourceMax = p.strength * Scale + 1 /\ SourceMax \in Nat
  BY Chain DEF SourceMax
<1>3. p.strength * Scale \in Int
  <2>1. p.strength \in Nat
    BY ParamsAssumption
  <2> QED BY <2>1, Chain
<1>4. \A v, b \in Int : Magnitude(v) <= b => v \in -(b + 1) .. b + 1
  BY DEF Magnitude
<1>5. p.field[c] \in -(p.strength * Scale + 1) .. p.strength * Scale + 1
  BY <1>1, <1>3, <1>4
<1> QED BY <1>2, <1>5

\* The shift rounds every bound of a link.
LEMMA TDivBound ==
  ASSUME p \in Params, Admitted, NEW m \in Nat, NEW a \in -m .. m
  PROVE  TDiv(a) \in -(m \div Scale) .. m \div Scale
BY Chain, ShiftBound DEF TDiv
-----------------------------------------------------------------------------
(* The operations. *)

\* A step of evolve keeps the parameters, and with them the envelope.
LEMMA SameParams ==
  ASSUME p' = p
  PROVE  /\ Cells' = Cells /\ Scale' = Scale /\ Lo' = Lo /\ Hi' = Hi
         /\ LapMax' = LapMax /\ DiffusionMax' = DiffusionMax /\ DecayMax' = DecayMax
         /\ InnerMax' = InnerMax /\ Admitted' = Admitted
BY DEF Cells, Scale, Lo, Hi, LapMax, SourceMax, DiffusionMax, DecayMax, InnerMax,
       Admitted, Sizes, Envelope

\* Exact results that are words are stored as they are.
LEMMA StoredExactly ==
  ASSUME NEW exact \in [Cells -> Word]
  PROVE  Fits(exact) /\ Stored(exact) = exact
BY WordKept DEF Fits, Stored

\* A shifted field is a field.
LEMMA ShiftedField ==
  ASSUME p \in Params, Admitted, NEW side \in {"up", "down", "left", "right"},
         t \in [Cells -> Lo .. Hi]
  PROVE  Shifted(side) \in [Cells -> Lo .. Hi]
<1>1. \A k \in Int : Clamped(k) \in Coordinates(p.grid)
  BY Chain DEF Clamped, Coordinates, Admitted, Sizes
<1>2. \A c \in Cells : c[1] \in Int /\ c[2] \in Int /\ c[1] \in Coordinates(p.grid)
                       /\ c[2] \in Coordinates(p.grid)
  BY DEF Cells, Coordinates
<1>3. \A c \in Cells : Neighbour(side, c) \in Cells
  <2> TAKE c \in Cells
  <2>1. /\ Clamped(c[1] - 1) \in Coordinates(p.grid) /\ Clamped(c[1] + 1) \in Coordinates(p.grid)
        /\ Clamped(c[2] - 1) \in Coordinates(p.grid) /\ Clamped(c[2] + 1) \in Coordinates(p.grid)
    BY <1>1, <1>2
  <2> QED BY <2>1, <1>2 DEF Neighbour, Cells
<1> QED BY <1>3 DEF Shifted

\* An operation whose exact results are words of the range the next one
\* counts on keeps the invariant.
LEMMA OperationKeepsIInv ==
  ASSUME IInv, Running, pc # "done",
         NEW label, NEW next \in {"down", "left", "right", "laplacian", "diffuse",
                                  "decay", "source", "advance"},
         NEW newAcc \in [Cells -> Word], NEW newTmp \in [Cells -> Word],
         NEW exact, \A field \in exact : Fits(field),
         Operation(label, next, newAcc, newTmp, exact),
         AccInRange'
  PROVE  IInv'
<1>1. /\ pc' = next /\ acc' = newAcc /\ tmp' = newTmp /\ p' = p /\ it' = it /\ t' = t
      /\ wrapped' = wrapped
  BY DEF Operation, IInv, TypeOK
<1>2. Running' /\ pc' # "done"
  BY <1>1 DEF Running
<1>3. Vetted'
  BY <1>1, SameParams DEF IInv, Vetted
<1>4. TypeOK'
  BY <1>1, <1>2, SameParams DEF IInv, TypeOK, Word
<1>5. Counted'
  BY <1>1, <1>2 DEF IInv, Counted
<1>6. NothingWraps'
  BY <1>1 DEF IInv, NothingWraps
<1> QED BY <1>3, <1>4, <1>5, <1>6 DEF IInv

\* What every link fits in.
LEMMA WithinWord ==
  ASSUME NEW m \in Nat, m <= WordMax
  PROVE  -m .. m \subseteq Word /\ 0 .. m \subseteq Word
BY LimitAssumption DEF Word, WordMax

\* The facts every operation of an admitted iteration starts from.
LEMMA Iterating ==
  ASSUME IInv, Running
  PROVE  /\ p \in Params /\ Admitted
         /\ Scale \in Nat \ {0} /\ Lo \in Nat /\ Hi \in Nat /\ Lo <= Hi
         /\ 4 * Hi <= WordMax
         /\ t \in [Cells -> Lo .. Hi]
         /\ acc \in [Cells -> Word] /\ tmp \in [Cells -> Word]
<1>1. p \in Params /\ Admitted
  BY DEF IInv, Vetted
<1>2. Scale \in Nat \ {0} /\ Lo \in Nat /\ Hi \in Nat /\ Lo <= Scale /\ Scale <= Hi
  BY <1>1, Chain
<1>3. 4 * Hi <= WordMax
  BY <1>1 DEF Admitted, Envelope
<1> QED BY <1>1, <1>2, <1>3 DEF IInv, TypeOK

LEMMA UpStep == ASSUME IInv, Up PROVE IInv'
<1>1. pc = "up" /\ pc' = "down" /\ acc' = Shifted("up") /\ p' = p /\ Running
  BY DEF Up, Operation, Running
<1>2. Shifted("up") \in [Cells -> Lo .. Hi]
  BY <1>1, Iterating, ShiftedField
<1>3. Lo .. Hi \subseteq Word
  BY <1>1, Iterating, LimitAssumption DEF Word, WordMax
<1>4. AccInRange'
  BY <1>1, <1>2, SameParams DEF AccInRange
<1>5. tmp \in [Cells -> Word] /\ Shifted("up") \in [Cells -> Word]
  BY <1>1, <1>2, <1>3, Iterating
<1> QED BY <1>1, <1>4, <1>5, OperationKeepsIInv DEF Up

\* A neighbour is added: k of them are so far, and the sum stays between as
\* many times the clamps.
LEMMA NeighbourStep ==
  ASSUME IInv, NEW k \in 1 .. 3,
         NEW side \in {"down", "left", "right"},
         NEW next \in {"left", "right", "laplacian"}, AddNeighbour(side, next),
         acc \in [Cells -> k * Lo .. k * Hi],
         \A sum \in [Cells -> (k + 1) * Lo .. (k + 1) * Hi] :
           pc' = next /\ acc' = sum /\ p' = p => AccInRange'
  PROVE  IInv'
<1> DEFINE sum == Sum(acc, Shifted(side))
<1>1. /\ pc = side /\ pc' = next /\ acc' = Stored(sum) /\ p' = p /\ Running /\ pc # "done"
      /\ Operation(side, next, Stored(sum), Shifted(side), {sum})
  BY DEF AddNeighbour, Operation, Running
<1>2. Shifted(side) \in [Cells -> Lo .. Hi]
  BY <1>1, Iterating, ShiftedField
<1>3. Lo \in Nat /\ Hi \in Nat /\ 4 * Hi <= WordMax
  BY <1>1, Iterating
<1>4. sum \in [Cells -> (k + 1) * Lo .. (k + 1) * Hi]
  <2>1. \A a \in k * Lo .. k * Hi, b \in Lo .. Hi : a + b \in (k + 1) * Lo .. (k + 1) * Hi
    BY <1>3
  <2> QED BY <1>2, <2>1 DEF Sum
<1>5. Lo .. Hi \subseteq Word /\ (k + 1) * Lo .. (k + 1) * Hi \subseteq Word
  BY <1>3, LimitAssumption DEF Word, WordMax
<1>6. sum \in [Cells -> Word] /\ Shifted(side) \in [Cells -> Word]
  BY <1>2, <1>4, <1>5
<1> HIDE DEF sum
<1>7. Fits(sum) /\ Stored(sum) = sum
  BY <1>6, StoredExactly
<1>8. AccInRange'
  BY <1>1, <1>4, <1>7
<1>9. Operation(side, next, sum, Shifted(side), {sum})
  BY <1>1, <1>7
<1>10. next \in {"down", "left", "right", "laplacian", "diffuse", "decay", "source", "advance"}
  OBVIOUS
<1> QED BY <1>1, <1>6, <1>7, <1>8, <1>9, <1>10, OperationKeepsIInv

LEMMA GatherStep == ASSUME IInv, Gather PROVE IInv'
<1>1. CASE AddNeighbour("down", "left")
  <2>1. acc \in [Cells -> 1 * Lo .. 1 * Hi]
    <3>1. pc = "down" /\ Running
      BY <1>1 DEF AddNeighbour, Operation, Running
    <3>2. 1 * Lo = Lo /\ 1 * Hi = Hi
      BY <3>1, Iterating
    <3> QED BY <3>1, <3>2 DEF IInv, AccInRange
  <2>2. \A sum \in [Cells -> (1 + 1) * Lo .. (1 + 1) * Hi] :
          pc' = "left" /\ acc' = sum /\ p' = p => AccInRange'
    BY SameParams DEF AccInRange
  <2> QED BY <1>1, <2>1, <2>2, NeighbourStep
<1>2. CASE AddNeighbour("left", "right")
  <2>1. acc \in [Cells -> 2 * Lo .. 2 * Hi]
    BY <1>2 DEF AddNeighbour, Operation, IInv, AccInRange
  <2>2. \A sum \in [Cells -> (2 + 1) * Lo .. (2 + 1) * Hi] :
          pc' = "right" /\ acc' = sum /\ p' = p => AccInRange'
    BY SameParams DEF AccInRange
  <2> QED BY <1>2, <2>1, <2>2, NeighbourStep
<1>3. CASE AddNeighbour("right", "laplacian")
  <2>1. acc \in [Cells -> 3 * Lo .. 3 * Hi]
    BY <1>3 DEF AddNeighbour, Operation, IInv, AccInRange
  <2>2. \A sum \in [Cells -> (3 + 1) * Lo .. (3 + 1) * Hi] :
          pc' = "laplacian" /\ acc' = sum /\ p' = p => AccInRange'
    BY SameParams DEF AccInRange
  <2> QED BY <1>3, <2>1, <2>2, NeighbourStep
<1> QED BY <1>1, <1>2, <1>3 DEF Gather

\* Between four clamped neighbours and four times a clamped cell.
LEMMA LaplacianStep == ASSUME IInv, Laplacian PROVE IInv'
<1> DEFINE four == Times(t, 4)
           lap  == Difference(acc, four)
<1>1. /\ pc = "laplacian" /\ pc' = "diffuse" /\ p' = p /\ Running /\ pc # "done"
  BY DEF Laplacian, Operation, Running
<1>2. /\ Lo \in Nat /\ Hi \in Nat /\ Lo <= Hi /\ 4 * Hi <= WordMax
      /\ t \in [Cells -> Lo .. Hi] /\ p \in Params /\ Admitted
  BY <1>1, Iterating
<1>3. acc \in [Cells -> 4 * Lo .. 4 * Hi]
  BY <1>1 DEF IInv, AccInRange
<1>4. four \in [Cells -> 4 * Lo .. 4 * Hi]
  BY <1>2 DEF Times
<1>5. LapMax = 4 * (Hi - Lo) /\ LapMax \in Nat
  BY <1>2 DEF LapMax
<1>6. lap \in [Cells -> -LapMax .. LapMax]
  <2>1. \A a, b \in 4 * Lo .. 4 * Hi : a - b \in -LapMax .. LapMax
    BY <1>2, <1>5
  <2> QED BY <1>3, <1>4, <2>1 DEF Difference
<1>7. 4 * Lo .. 4 * Hi \subseteq Word /\ -LapMax .. LapMax \subseteq Word
  BY <1>2, <1>5, LimitAssumption DEF Word, WordMax
<1>8. four \in [Cells -> Word] /\ lap \in [Cells -> Word]
  BY <1>4, <1>6, <1>7
<1> HIDE DEF four
<1>9. Operation("laplacian", "diffuse", Stored(Difference(acc, Stored(four))), Stored(four),
                {four, Difference(acc, Stored(four))})
  BY DEF Laplacian, four
<1>10. Fits(four) /\ Stored(four) = four /\ Fits(lap) /\ Stored(lap) = lap
  BY <1>8, StoredExactly
<1>11. Operation("laplacian", "diffuse", lap, four, {four, lap})
  BY <1>9, <1>10
<1> HIDE DEF lap
<1>12. AccInRange'
  BY <1>1, <1>6, <1>11, SameParams DEF AccInRange, Operation
<1> QED BY <1>1, <1>8, <1>10, <1>11, <1>12, OperationKeepsIInv

\* A field times a coefficient whose worst case is a word is stored exactly,
\* and shifted down within the rounded worst case.
LEMMA Scaled ==
  ASSUME p \in Params, Admitted, NEW m \in Nat, NEW k \in Int,
         NEW field \in [Cells -> -m .. m], Magnitude(k) * m <= WordMax
  PROVE  /\ Fits(Times(field, k))
         /\ TDivAll(Stored(Times(field, k))) \in
              [Cells -> -((Magnitude(k) * m) \div Scale) .. (Magnitude(k) * m) \div Scale]
<1> DEFINE w == Magnitude(k) * m
<1>1. w \in Nat
  <2>1. Magnitude(k) \in Nat
    BY DEF Magnitude
  <2> QED BY <2>1, Monotone, 0 * m = 0
<1>2. \A c \in Cells : field[c] * k \in -w .. w
  BY ProductBound
<1> HIDE DEF w
<1>3. Times(field, k) \in [Cells -> -w .. w]
  BY <1>2 DEF Times
<1>4. w <= WordMax
  BY DEF w
<1>5. Times(field, k) \in [Cells -> Word]
  BY <1>1, <1>3, <1>4, WithinWord
<1>6. Fits(Times(field, k)) /\ Stored(Times(field, k)) = Times(field, k)
  BY <1>5, StoredExactly
<1>7. \A a \in -w .. w : TDiv(a) \in -(w \div Scale) .. w \div Scale
  BY <1>1, TDivBound
<1>8. TDivAll(Times(field, k)) \in [Cells -> -(w \div Scale) .. w \div Scale]
  BY <1>3, <1>7 DEF TDivAll
<1> QED BY <1>6, <1>8 DEF w

LEMMA DiffuseStep == ASSUME IInv, Diffuse PROVE IInv'
<1> DEFINE product == Times(acc, p.d)
<1>1. /\ pc = "diffuse" /\ pc' = "decay" /\ p' = p /\ Running /\ pc # "done"
  BY DEF Diffuse, Operation, Running
<1>2. p \in Params /\ Admitted /\ tmp \in [Cells -> Word]
  BY <1>1, Iterating
<1>3. acc \in [Cells -> -LapMax .. LapMax] /\ LapMax \in Nat /\ p.d \in Int
  BY <1>1, <1>2, Chain DEF IInv, AccInRange
<1>4. Magnitude(p.d) * LapMax <= WordMax /\ DiffusionMax <= WordMax
  <2>1. Magnitude(p.d) * LapMax <= WordMax /\ InnerMax <= WordMax
    BY <1>2 DEF Admitted, Envelope
  <2> QED BY <1>2, <2>1, Links, Chain, LimitAssumption DEF InnerMax, WordMax
<1>5. /\ Fits(product)
      /\ TDivAll(Stored(product)) \in [Cells -> -DiffusionMax .. DiffusionMax]
  BY <1>2, <1>3, <1>4, Scaled DEF DiffusionMax
<1>6. -DiffusionMax .. DiffusionMax \subseteq Word
  BY <1>2, <1>4, Links, WithinWord
<1>7. TDivAll(Stored(product)) \in [Cells -> Word]
  BY <1>5, <1>6
<1> HIDE DEF product
<1>8. Operation("diffuse", "decay", TDivAll(Stored(product)), tmp, {product})
  BY DEF Diffuse, product
<1>9. AccInRange'
  BY <1>1, <1>5, <1>8, SameParams DEF AccInRange, Operation
<1> QED BY <1>1, <1>2, <1>5, <1>7, <1>8, <1>9, OperationKeepsIInv

LEMMA DecayStep == ASSUME IInv, Decay PROVE IInv'
<1> DEFINE product == Times(t, p.g)
           rate    == TDivAll(Stored(product))
           rest    == Difference(acc, rate)
<1>1. /\ pc = "decay" /\ pc' = "source" /\ p' = p /\ Running /\ pc # "done"
  BY DEF Decay, Operation, Running
<1>2. /\ p \in Params /\ Admitted /\ Lo \in Nat /\ Hi \in Nat
      /\ t \in [Cells -> Lo .. Hi]
  BY <1>1, Iterating
<1>3. /\ DiffusionMax \in Nat /\ DecayMax \in Nat /\ SourceMax \in Nat /\ InnerMax \in Nat
      /\ InnerMax = DiffusionMax + DecayMax + SourceMax
  BY <1>2, Links, Chain DEF InnerMax
<1>4. Magnitude(p.g) * Hi <= WordMax /\ InnerMax <= WordMax /\ p.g \in Int
  BY <1>2, Chain DEF Admitted, Envelope
<1>5. t \in [Cells -> -Hi .. Hi]
  <2>1. Lo .. Hi \subseteq -Hi .. Hi
    BY <1>2
  <2> QED BY <1>2, <2>1
<1>6. Fits(product) /\ rate \in [Cells -> -DecayMax .. DecayMax]
  BY <1>2, <1>4, <1>5, Scaled DEF DecayMax
<1>7. acc \in [Cells -> -DiffusionMax .. DiffusionMax]
  BY <1>1 DEF IInv, AccInRange
<1> HIDE DEF product, rate
<1>8. rest \in [Cells -> -(DiffusionMax + DecayMax) .. DiffusionMax + DecayMax]
  <2>1. \A a \in -DiffusionMax .. DiffusionMax, b \in -DecayMax .. DecayMax :
          a - b \in -(DiffusionMax + DecayMax) .. DiffusionMax + DecayMax
    BY <1>3
  <2> QED BY <1>6, <1>7, <2>1 DEF Difference
<1>9. /\ -DecayMax .. DecayMax \subseteq Word
      /\ -(DiffusionMax + DecayMax) .. DiffusionMax + DecayMax \subseteq Word
  BY <1>3, <1>4, LimitAssumption DEF Word, WordMax
<1>10. rate \in [Cells -> Word] /\ rest \in [Cells -> Word]
  BY <1>6, <1>8, <1>9
<1>11. Operation("decay", "source", Stored(rest), rate, {product, rest})
  BY DEF Decay, product, rate
<1>12. Fits(rest) /\ Stored(rest) = rest
  BY <1>10, StoredExactly
<1> HIDE DEF rest
<1>13. Operation("decay", "source", rest, rate, {product, rest})
  BY <1>11, <1>12
<1>14. AccInRange'
  BY <1>1, <1>8, <1>13, SameParams DEF AccInRange, Operation
<1> QED BY <1>1, <1>6, <1>10, <1>12, <1>13, <1>14, OperationKeepsIInv

LEMMA AddSourceStep == ASSUME IInv, AddSource PROVE IInv'
<1> DEFINE inner == Sum(acc, p.field)
<1>1. /\ pc = "source" /\ pc' = "advance" /\ p' = p /\ Running /\ pc # "done"
  BY DEF AddSource, Operation, Running
<1>2. p \in Params /\ Admitted /\ tmp \in [Cells -> Word]
  BY <1>1, Iterating
<1>3. /\ DiffusionMax \in Nat /\ DecayMax \in Nat /\ SourceMax \in Nat /\ InnerMax \in Nat
      /\ InnerMax = DiffusionMax + DecayMax + SourceMax
  BY <1>2, Links, Chain DEF InnerMax
<1>4. acc \in [Cells -> -(DiffusionMax + DecayMax) .. DiffusionMax + DecayMax]
  BY <1>1 DEF IInv, AccInRange
<1>5. inner \in [Cells -> -InnerMax .. InnerMax]
  <2>1. \A a \in -(DiffusionMax + DecayMax) .. DiffusionMax + DecayMax,
           b \in -SourceMax .. SourceMax : a + b \in -InnerMax .. InnerMax
    BY <1>3
  <2>2. \A c \in Cells : p.field[c] \in -SourceMax .. SourceMax
    BY <1>2, SourceBound
  <2> QED BY <1>4, <2>1, <2>2 DEF Sum
<1>6. InnerMax <= WordMax
  BY <1>2 DEF Admitted, Envelope
<1>7. inner \in [Cells -> Word]
  BY <1>3, <1>5, <1>6, WithinWord
<1>8. Operation("source", "advance", Stored(inner), tmp, {inner})
  BY DEF AddSource
<1> HIDE DEF inner
<1>9. Fits(inner) /\ Stored(inner) = inner
  BY <1>7, StoredExactly
<1>10. Operation("source", "advance", inner, tmp, {inner})
  BY <1>8, <1>9
<1>11. AccInRange'
  BY <1>1, <1>5, <1>10, SameParams DEF AccInRange, Operation
<1> QED BY <1>1, <1>2, <1>7, <1>9, <1>10, <1>11, OperationKeepsIInv

LEMMA AdvanceStep == ASSUME IInv, Advance PROVE IInv'
<1> DEFINE product == Times(acc, p.dt)
           change  == TDivAll(Stored(product))
           moved   == Sum(t, change)
           most    == (Magnitude(p.dt) * InnerMax) \div Scale
<1>1. /\ pc = "advance" /\ p' = p /\ Running /\ pc # "done" /\ tmp' = tmp
      /\ acc' = change /\ it' = it + 1
      /\ pc' = IF it' = p.steps THEN "done" ELSE "up"
  BY DEF Advance, Running
<1>2. /\ p \in Params /\ Admitted /\ Lo \in Nat /\ Hi \in Nat /\ Lo <= Hi /\ Scale \in Nat \ {0}
      /\ t \in [Cells -> Lo .. Hi] /\ tmp \in [Cells -> Word]
  BY <1>1, Iterating
<1>3. InnerMax \in Nat /\ p.dt \in Int /\ Magnitude(p.dt) * InnerMax <= WordMax
      /\ Hi + most <= WordMax
  BY <1>2, Links, Chain DEF Admitted, Envelope
<1>4. acc \in [Cells -> -InnerMax .. InnerMax]
  BY <1>1 DEF IInv, AccInRange
<1>5. Fits(product) /\ change \in [Cells -> -most .. most]
  BY <1>2, <1>3, <1>4, Scaled
<1>6. most \in Nat
  <2>1. Magnitude(p.dt) * InnerMax \in Nat
    <3>1. Magnitude(p.dt) \in Nat
      BY <1>3 DEF Magnitude
    <3> QED BY <1>3, <3>1, Monotone, 0 * InnerMax = 0
  <2>2. most \in Int /\ Magnitude(p.dt) * InnerMax < Scale * most + Scale
    BY <2>1, <1>2, Quotient
  <2>3. Scale * 0 < Scale * most + Scale
    BY <2>1, <2>2, <1>2
  <2> QED BY <2>2, <2>3, <1>2, MultiplesInOrder
<1>7. /\ wrapped' = (wrapped \/ ~Fits(product) \/ ~Fits(moved))
      /\ t' = [c \in Cells |-> Clip(Wrap(moved[c]))]
  BY DEF Advance
<1> HIDE DEF most, product, change
<1>8. change \in [Cells -> Word] /\ moved \in [Cells -> Word]
  <2>1. \A a \in Lo .. Hi, b \in -most .. most : a + b \in Word /\ b \in Word
    BY <1>2, <1>3, <1>6, LimitAssumption DEF Word, WordMax
  <2> QED BY <1>2, <1>5, <2>1 DEF Sum
<1>9. Fits(moved)
  BY <1>8, StoredExactly
<1> HIDE DEF moved
<1>10. t' \in [Cells -> Lo .. Hi]
  <2>1. \A v \in Word : Clip(v) \in Lo .. Hi
    BY <1>2, LimitAssumption DEF Clip, Word
  <2>2. \A c \in Cells : Wrap(moved[c]) \in Word
    BY <1>8, WordKept
  <2> QED BY <1>7, <2>1, <2>2
<1>11. Running' /\ Vetted'
  BY <1>1, SameParams DEF IInv, Vetted, Running
<1>12. NothingWraps'
  BY <1>5, <1>7, <1>9 DEF IInv, NothingWraps
<1>13. Counted'
  <2>1. p.steps \in Nat /\ it \in Nat /\ it < p.steps
    BY <1>1, <1>2, Chain DEF IInv, Counted, TypeOK
  <2> QED BY <1>1, <1>11, <2>1 DEF Counted
<1>14. TypeOK'
  <2>1. it' \in Nat
    BY <1>1 DEF IInv, TypeOK
  <2>2. wrapped' \in BOOLEAN
    BY <1>12 DEF NothingWraps
  <2> QED BY <1>1, <1>2, <1>8, <1>10, <2>1, <2>2, SameParams DEF TypeOK, Word
<1>15. AccInRange'
  BY <1>1 DEF AccInRange
<1> QED BY <1>11, <1>12, <1>13, <1>14, <1>15 DEF IInv

LEMMA InitIInv == Init => IInv
<1> SUFFICES ASSUME Init PROVE IInv
  OBVIOUS
<1>1. pc = "params" /\ it = 0 /\ wrapped = FALSE /\ p \in Params /\ ~Running
  BY DEF Init, Running
<1>2. AccInRange /\ NothingWraps
  BY <1>1 DEF AccInRange, NothingWraps
<1>3. Vetted /\ TypeOK /\ Counted
  BY <1>1 DEF Vetted, TypeOK, Counted
<1> QED BY <1>2, <1>3 DEF IInv

LEMMA RefuseStep == ASSUME IInv, Refuse PROVE IInv'
BY DEF Refuse, IInv, Vetted, TypeOK, Counted, AccInRange, NothingWraps, Running

LEMMA StartStep == ASSUME IInv, Start PROVE IInv'
<1>1. /\ p' = p /\ it' = it /\ wrapped' = wrapped /\ Admitted /\ p \in Params
      /\ it = 0 /\ wrapped = FALSE
      /\ pc' = IF p.steps = 0 THEN "done" ELSE "up"
      /\ t' = [c \in Cells |-> Scale]
  BY DEF Start, IInv, Vetted, Counted, NothingWraps, Running
<1>2. /\ Scale \in Nat \ {0} /\ Lo \in Nat /\ Hi \in Nat /\ Lo <= Scale /\ Scale <= Hi
      /\ p.steps \in Nat
  BY <1>1, Chain
<1>3. Scale \in Lo .. Hi /\ Scale \in Word
  <2>1. 4 * Hi <= WordMax
    BY <1>1 DEF Admitted, Envelope
  <2> QED BY <1>2, <2>1, LimitAssumption DEF Word, WordMax
<1>4. t' \in [Cells -> Lo .. Hi] /\ acc' \in [Cells -> Word] /\ tmp' \in [Cells -> Word]
  <2>1. PICK junk \in {-Half, 0, WordMax} : acc' = [c \in Cells |-> junk] /\ tmp' = acc'
    BY DEF Start
  <2>2. junk \in Word
    BY LimitAssumption DEF Word, WordMax
  <2> QED BY <1>1, <1>3, <2>1, <2>2
<1>5. Vetted' /\ Running'
  BY <1>1, SameParams DEF Vetted, Running
<1>6. TypeOK'
  BY <1>1, <1>4, SameParams DEF TypeOK, Word
<1>7. Counted'
  BY <1>1, <1>2, <1>5 DEF Counted
<1>8. AccInRange' /\ NothingWraps'
  BY <1>1 DEF AccInRange, NothingWraps
<1> QED BY <1>5, <1>6, <1>7, <1>8 DEF IInv

LEMMA StutterStep == ASSUME IInv, UNCHANGED vars PROVE IInv'
<1>1. /\ p' = p /\ pc' = pc /\ it' = it /\ t' = t /\ acc' = acc /\ tmp' = tmp
      /\ wrapped' = wrapped
  BY DEF vars
<1>2. Vetted' /\ Counted' /\ NothingWraps' /\ Running' = Running
  BY <1>1, SameParams DEF IInv, Vetted, Counted, NothingWraps, Running
<1>3. TypeOK'
  BY <1>1, <1>2, SameParams DEF IInv, TypeOK, Word
<1>4. AccInRange'
  BY <1>1, SameParams DEF IInv, AccInRange
<1> QED BY <1>2, <1>3, <1>4 DEF IInv

-----------------------------------------------------------------------------
(* The theorems. *)

\* The strengthened invariant holds of every evolution of every block.
THEOREM Invariance == Spec => []IInv
<1>1. ASSUME IInv, [Next]_vars PROVE IInv'
  <2>1. CASE Refuse BY <1>1, <2>1, RefuseStep
  <2>2. CASE Start BY <1>1, <2>2, StartStep
  <2>3. CASE Up BY <1>1, <2>3, UpStep
  <2>4. CASE Gather BY <1>1, <2>4, GatherStep
  <2>5. CASE Laplacian BY <1>1, <2>5, LaplacianStep
  <2>6. CASE Diffuse BY <1>1, <2>6, DiffuseStep
  <2>7. CASE Decay BY <1>1, <2>7, DecayStep
  <2>8. CASE AddSource BY <1>1, <2>8, AddSourceStep
  <2>9. CASE Advance BY <1>1, <2>9, AdvanceStep
  <2>10. CASE UNCHANGED vars BY <1>1, <2>10, StutterStep
  <2> QED BY <1>1, <2>1, <2>2, <2>3, <2>4, <2>5, <2>6, <2>7, <2>8, <2>9, <2>10
         DEF Next, Iterate
<1> QED BY <1>1, InitIInv, PTL DEF Spec

\* The buffers hold words, and the field stays within its clamps
\* (kernel.py:190-192).
THEOREM TypeCorrectness == Spec => []TypeOK
<1>1. IInv => TypeOK
  BY DEF IInv
<1> QED BY <1>1, Invariance, PTL

\* The envelope of validate_params is sound: it never admits a block on which
\* an operation of evolve wraps (kernel.py:194-195), whatever the word width, the
\* limits and the block.
THEOREM EnvelopeIsSound == Spec => []NothingWraps
<1>1. IInv => NothingWraps
  BY DEF IInv
<1> QED BY <1>1, Invariance, PTL

\* No block makes evolve update more cells than MAX_CELL_STEPS
\* (kernel.py:83, 220).
THEOREM CellUpdatesAreBounded == Spec => []WorkIsBounded
<1>1. IInv => WorkIsBounded
  <2> SUFFICES ASSUME IInv PROVE WorkIsBounded
    OBVIOUS
  <2>1. CASE ~Running
    <3>1. it = 0 /\ p.grid \in Int
      BY <2>1, ParamsAssumption DEF IInv, Counted, Vetted
    <3>2. it * p.grid * p.grid = 0
      BY <3>1
    <3> QED BY <3>2, LimitAssumption DEF WorkIsBounded
  <2>2. CASE Running
    <3>1. /\ p.grid \in Nat /\ p.steps \in Nat /\ it \in Nat /\ it <= p.steps
          /\ p.grid * p.grid * (IF p.steps > 1 THEN p.steps ELSE 1) <= MaxCellSteps
      BY <2>2, Chain DEF IInv, Counted, Vetted, TypeOK, Admitted, Sizes
    <3> DEFINE most == IF p.steps > 1 THEN p.steps ELSE 1
               area == p.grid * p.grid
    <3>2. most \in Nat /\ it <= most
      BY <3>1
    <3>3. area \in Nat
      BY <3>1, Monotone, 0 * p.grid = 0
    <3>4. it * p.grid * p.grid = it * area
      BY <3>1
    <3>5. WorkIsBounded = (it * area <= MaxCellSteps)
      BY <3>4 DEF WorkIsBounded
    <3> HIDE DEF most, area
    <3>6. it * area <= most * area
      BY <3>1, <3>2, <3>3, Monotone
    <3>7. area * most <= MaxCellSteps
      BY <3>1 DEF area, most
    <3>8. most * area = area * most
      BY <3>2, <3>3
    <3>9. it * area \in Int /\ most * area \in Int
      BY <3>1, <3>2, <3>3
    <3>10. MaxCellSteps \in Nat
      BY LimitAssumption
    <3>11. it * area <= MaxCellSteps
      BY <3>6, <3>7, <3>8, <3>9, <3>10
    <3> QED BY <3>5, <3>11
  <2> QED BY <2>1, <2>2
<1> QED BY <1>1, Invariance, PTL

-----------------------------------------------------------------------------
(* That the buffers compute the step of the docstring.  Nothing wraps, so  *)
(* every operation stores its exact result; what acc holds between two     *)
(* operations is the prefix of the formula that they have computed.        *)

Beside(side, c) == t[Neighbour(side, c)]

Lap(c) == Beside("up", c) + Beside("down", c) + Beside("left", c) + Beside("right", c) - 4 * t[c]

Inner(c) == Truncated(p.d * Lap(c)) - Truncated(p.g * t[c]) + p.field[c]

AccIsExact ==
  \A c \in Cells :
    /\ pc = "down" => acc[c] = Beside("up", c)
    /\ pc = "left" => acc[c] = Beside("up", c) + Beside("down", c)
    /\ pc = "right" => acc[c] = Beside("up", c) + Beside("down", c) + Beside("left", c)
    /\ pc = "laplacian" => acc[c] = Lap(c) + 4 * t[c]
    /\ pc = "diffuse" => acc[c] = Lap(c)
    /\ pc = "decay" => acc[c] = Truncated(p.d * Lap(c))
    /\ pc = "source" => acc[c] = Truncated(p.d * Lap(c)) - Truncated(p.g * t[c])
    /\ pc = "advance" => acc[c] = Inner(c)

\* Rounding toward zero, as tdiv does it.
LEMMA ShiftRoundsTowardZero ==
  ASSUME NEW s \in Nat \ {0}, NEW a \in Int, a < 0
  PROVE  (a + (s - 1)) \div s = -((-a) \div s)
<1> DEFINE q == (a + (s - 1)) \div s
           k == (-a) \div s
<1>1. q \in Int /\ s * q <= a + (s - 1) /\ a + (s - 1) < s * q + s
  BY Quotient
<1>2. k \in Int /\ s * k <= -a /\ -a < s * k + s
  BY Quotient
<1> HIDE DEF q, k
<1>3. s * (-k) = -(s * k) /\ s * (-q) = -(s * q)
  BY <1>1, <1>2
<1>4. q <= -k
  <2>1. s * q < s * (-k) + s
    BY <1>1, <1>2, <1>3
  <2> QED BY <2>1, <1>1, <1>2, MultiplesInOrder
<1>5. -k <= q
  <2>1. s * (-k) < s * q + s
    BY <1>1, <1>2, <1>3
  <2> QED BY <2>1, <1>1, <1>2, MultiplesInOrder
<1> QED BY <1>1, <1>2, <1>4, <1>5 DEF q, k

\* So the biased shift is the truncated quotient.
LEMMA TDivIsTruncated ==
  ASSUME Scale \in Nat \ {0}, NEW a \in Int
  PROVE  TDiv(a) = Truncated(a) /\ Truncated(a) \in Int
<1>1. CASE a < 0
  <2>1. -a \in Int /\ (-a) \div Scale \in Int
    BY Quotient
  <2>2. (a + (Scale - 1)) \div Scale = -((-a) \div Scale)
    BY <1>1, ShiftRoundsTowardZero
  <2> QED BY <1>1, <2>1, <2>2 DEF TDiv, Truncated
<1>2. CASE a >= 0
  BY <1>2, Quotient DEF TDiv, Truncated
<1> QED BY <1>1, <1>2

\* The same for a buffer whose product fits in words.
LEMMA ScaledExactly ==
  ASSUME Scale \in Nat \ {0}, NEW field \in [Cells -> Int], NEW k \in Int,
         Fits(Times(field, k))
  PROVE  TDivAll(Stored(Times(field, k))) = [c \in Cells |-> Truncated(k * field[c])]
<1> SUFFICES ASSUME NEW c \in Cells
             PROVE  TDiv(Stored(Times(field, k))[c]) = Truncated(k * field[c])
  BY DEF TDivAll
<1>1. Times(field, k)[c] = field[c] * k /\ Times(field, k)[c] \in Word
  BY DEF Fits, Times
<1>2. Stored(Times(field, k))[c] = field[c] * k
  BY <1>1, WordKept DEF Stored
<1>3. field[c] \in Int /\ k * field[c] = field[c] * k /\ field[c] * k \in Int
  OBVIOUS
<1> QED BY <1>2, <1>3, TDivIsTruncated

\* An exact result that fits is what is stored.
LEMMA FitsIsStored ==
  ASSUME NEW exact, Fits(exact)
  PROVE  Stored(exact) = [c \in Cells |-> exact[c]]
BY WordKept DEF Fits, Stored

\* The numbers the formula is made of.
LEMMA Integers ==
  ASSUME IInv, Running
  PROVE  /\ Scale \in Nat \ {0} /\ p.d \in Int /\ p.g \in Int /\ p.dt \in Int
         /\ t \in [Cells -> Int] /\ acc \in [Cells -> Int]
         /\ \A c \in Cells : /\ t[c] \in Int /\ p.field[c] \in Int
                             /\ \A side \in {"up", "down", "left", "right"} : Beside(side, c) \in Int
                             /\ Lap(c) \in Int
                             /\ Truncated(p.d * Lap(c)) \in Int
                             /\ Truncated(p.g * t[c]) \in Int
                             /\ Inner(c) \in Int
<1>1. /\ p \in Params /\ Admitted /\ Lo \in Nat /\ Hi \in Nat
      /\ t \in [Cells -> Lo .. Hi] /\ acc \in [Cells -> Word]
  BY Iterating
<1>2. t \in [Cells -> Int] /\ acc \in [Cells -> Int]
  BY <1>1, LimitAssumption DEF Word
<1>3. Scale \in Nat \ {0} /\ p.d \in Int /\ p.g \in Int /\ p.dt \in Int
  BY <1>1, Chain
<1>4. ASSUME NEW c \in Cells
      PROVE  /\ t[c] \in Int /\ p.field[c] \in Int
             /\ \A side \in {"up", "down", "left", "right"} : Beside(side, c) \in Int
             /\ Lap(c) \in Int
             /\ Truncated(p.d * Lap(c)) \in Int
             /\ Truncated(p.g * t[c]) \in Int
             /\ Inner(c) \in Int
  <2>1. t[c] \in Int
    BY <1>2
  <2>2. p.field[c] \in Int
    BY <1>1, ParamsAssumption DEF Cells
  <2>3. ASSUME NEW side \in {"up", "down", "left", "right"} PROVE Beside(side, c) \in Int
    <3>1. Shifted(side) \in [Cells -> Lo .. Hi]
      BY <1>1, ShiftedField
    <3>2. Shifted(side)[c] = Beside(side, c)
      BY DEF Shifted, Beside
    <3> QED BY <1>1, <3>1, <3>2
  <2>4. Lap(c) \in Int
    BY <2>1, <2>3 DEF Lap
  <2>5. p.d * Lap(c) \in Int /\ p.g * t[c] \in Int
    BY <1>3, <2>1, <2>4
  <2>6. Truncated(p.d * Lap(c)) \in Int /\ Truncated(p.g * t[c]) \in Int
    BY <1>3, <2>5, TDivIsTruncated
  <2> QED BY <2>1, <2>2, <2>3, <2>4, <2>6 DEF Inner
<1> QED BY <1>2, <1>3, <1>4

\* What the formula says of a field does not change while acc computes it.
LEMMA SameFormula ==
  ASSUME p' = p, t' = t
  PROVE  /\ Cells' = Cells
         /\ \A side, c : Beside(side, c)' = Beside(side, c)
         /\ \A c : Lap(c)' = Lap(c) /\ Inner(c)' = Inner(c)
         /\ \A a : Truncated(a)' = Truncated(a)
BY DEF Cells, Beside, Neighbour, Clamped, Lap, Inner, Truncated, Scale

\* The operations, each adding its term.  That the step ends with nothing
\* wrapped is what makes them exact.
LEMMA GatherIsExact ==
  ASSUME IInv, IInv', AccIsExact, Up \/ Gather
  PROVE  AccIsExact'
<1>1. /\ Running /\ p' = p /\ t' = t
      /\ pc \in {"up", "down", "left", "right"}
  BY DEF Up, Gather, AddNeighbour, Operation, Running
<1>2. \A c \in Cells : /\ acc[c] \in Int /\ t[c] \in Int
                       /\ \A side \in {"up", "down", "left", "right"} : Beside(side, c) \in Int
  BY <1>1, Integers
<1>3. CASE Up
  <2>1. pc' = "down" /\ acc' = Shifted("up")
    BY <1>3 DEF Up, Operation
  <2>2. \A c \in Cells : acc'[c] = Beside("up", c)
    BY <2>1 DEF Shifted, Beside
  <2> QED BY <1>1, <2>1, <2>2, SameFormula DEF AccIsExact
<1>4. ASSUME NEW side \in {"down", "left", "right"}, NEW next, AddNeighbour(side, next)
      PROVE  /\ pc = side /\ pc' = next
             /\ \A c \in Cells : acc'[c] = acc[c] + Beside(side, c)
  <2> DEFINE sum == Sum(acc, Shifted(side))
  <2>1. pc = side /\ pc' = next /\ acc' = Stored(sum) /\ Fits(sum)
    BY <1>4 DEF AddNeighbour, Operation, IInv, NothingWraps
  <2>2. \A c \in Cells : sum[c] = acc[c] + Beside(side, c)
    BY DEF Sum, Shifted, Beside
  <2> HIDE DEF sum
  <2> QED BY <2>1, <2>2, FitsIsStored
<1>5. CASE AddNeighbour("down", "left")
  BY <1>1, <1>4, <1>5, SameFormula DEF AccIsExact
<1>6. CASE AddNeighbour("left", "right")
  BY <1>1, <1>4, <1>6, SameFormula DEF AccIsExact
<1>7. CASE AddNeighbour("right", "laplacian")
  <2>1. ASSUME NEW c \in Cells PROVE acc'[c] = Lap(c) + 4 * t[c]
    <3>1. acc[c] = Beside("up", c) + Beside("down", c) + Beside("left", c)
      BY <1>4, <1>7 DEF AccIsExact
    <3>2. acc'[c] = acc[c] + Beside("right", c)
      BY <1>4, <1>7
    <3> QED BY <1>2, <3>1, <3>2 DEF Lap
  <2> QED BY <1>1, <1>4, <1>7, <2>1, SameFormula DEF AccIsExact
<1> QED BY <1>3, <1>5, <1>6, <1>7 DEF Gather

LEMMA LaplacianIsExact ==
  ASSUME IInv, IInv', AccIsExact, Laplacian
  PROVE  AccIsExact'
<1> DEFINE four == Times(t, 4)
<1>1. /\ Running /\ p' = p /\ t' = t /\ pc = "laplacian" /\ pc' = "diffuse"
      /\ Fits(four) /\ Fits(Difference(acc, Stored(four)))
      /\ acc' = Stored(Difference(acc, Stored(four)))
  BY DEF Laplacian, Operation, Running, IInv, NothingWraps
<1>2. \A c \in Cells : Stored(four)[c] = 4 * t[c]
  <2>1. \A c \in Cells : four[c] = 4 * t[c]
    BY <1>1, Integers DEF Times
  <2> HIDE DEF four
  <2> QED BY <1>1, <2>1, FitsIsStored
<1> HIDE DEF four
<1>3. \A c \in Cells : acc'[c] = acc[c] - 4 * t[c]
  <2>1. \A c \in Cells : Difference(acc, Stored(four))[c] = acc[c] - 4 * t[c]
    BY <1>2 DEF Difference
  <2> QED BY <1>1, <2>1, FitsIsStored
<1>4. \A c \in Cells : acc[c] = Lap(c) + 4 * t[c] /\ Lap(c) \in Int /\ t[c] \in Int
  BY <1>1, Integers DEF AccIsExact
<1>5. \A c \in Cells : acc'[c] = Lap(c)
  BY <1>3, <1>4
<1> QED BY <1>1, <1>5, SameFormula DEF AccIsExact

LEMMA DiffuseIsExact ==
  ASSUME IInv, IInv', AccIsExact, Diffuse
  PROVE  AccIsExact'
<1>1. /\ Running /\ p' = p /\ t' = t /\ pc = "diffuse" /\ pc' = "decay"
      /\ Fits(Times(acc, p.d)) /\ acc' = TDivAll(Stored(Times(acc, p.d)))
  BY DEF Diffuse, Operation, Running, IInv, NothingWraps
<1>2. acc' = [c \in Cells |-> Truncated(p.d * acc[c])]
  BY <1>1, Integers, ScaledExactly
<1>3. \A c \in Cells : acc'[c] = Truncated(p.d * Lap(c))
  BY <1>1, <1>2 DEF AccIsExact
<1> QED BY <1>1, <1>3, SameFormula DEF AccIsExact

LEMMA DecayIsExact ==
  ASSUME IInv, IInv', AccIsExact, Decay
  PROVE  AccIsExact'
<1> DEFINE rate == TDivAll(Stored(Times(t, p.g)))
<1>1. /\ Running /\ p' = p /\ t' = t /\ pc = "decay" /\ pc' = "source"
      /\ Fits(Times(t, p.g)) /\ Fits(Difference(acc, rate))
      /\ acc' = Stored(Difference(acc, rate))
  BY DEF Decay, Operation, Running, IInv, NothingWraps
<1>2. rate = [c \in Cells |-> Truncated(p.g * t[c])]
  BY <1>1, Integers, ScaledExactly
<1> HIDE DEF rate
<1>3. \A c \in Cells : Difference(acc, rate)[c] = acc[c] - Truncated(p.g * t[c])
  BY <1>2 DEF Difference
<1>4. \A c \in Cells : acc'[c] = Truncated(p.d * Lap(c)) - Truncated(p.g * t[c])
  BY <1>1, <1>3, FitsIsStored DEF AccIsExact
<1> QED BY <1>1, <1>4, SameFormula DEF AccIsExact

LEMMA AddSourceIsExact ==
  ASSUME IInv, IInv', AccIsExact, AddSource
  PROVE  AccIsExact'
<1>1. /\ Running /\ p' = p /\ t' = t /\ pc = "source" /\ pc' = "advance"
      /\ Fits(Sum(acc, p.field)) /\ acc' = Stored(Sum(acc, p.field))
  BY DEF AddSource, Operation, Running, IInv, NothingWraps
<1>2. \A c \in Cells : Sum(acc, p.field)[c] = acc[c] + p.field[c]
  BY DEF Sum
<1>3. \A c \in Cells : acc'[c] = Inner(c)
  BY <1>1, <1>2, FitsIsStored DEF AccIsExact, Inner
<1> QED BY <1>1, <1>3, SameFormula DEF AccIsExact

\* The formula, as the property writes it down.
LEMMA FormulaOfTheStep ==
  ASSUME IInv, Running, NEW c \in Cells
  PROVE  ExactStep(c) = Clip(t[c] + Truncated(p.dt * Inner(c)))
BY DEF ExactStep, Inner, Lap, Beside, Neighbour

\* The field moves by the truncated step, and is clipped.
LEMMA AdvanceIsExact ==
  ASSUME IInv, IInv', AccIsExact, Advance
  PROVE  /\ AccIsExact'
         /\ t' = [c \in Cells |-> ExactStep(c)]
<1> DEFINE change == TDivAll(Stored(Times(acc, p.dt)))
<1>1. /\ Running /\ pc = "advance" /\ pc' \in {"done", "up"}
      /\ Fits(Times(acc, p.dt)) /\ Fits(Sum(t, change))
      /\ t' = [c \in Cells |-> Clip(Wrap(Sum(t, change)[c]))]
  BY DEF Advance, Running, IInv, NothingWraps
<1>2. change = [c \in Cells |-> Truncated(p.dt * acc[c])]
  BY <1>1, Integers, ScaledExactly
<1> HIDE DEF change
<1>3. ASSUME NEW c \in Cells
      PROVE  Clip(Wrap(Sum(t, change)[c])) = ExactStep(c)
  <2>1. acc[c] = Inner(c)
    BY <1>1 DEF AccIsExact
  <2>2. Sum(t, change)[c] = t[c] + Truncated(p.dt * Inner(c))
    BY <1>2, <2>1 DEF Sum
  <2>3. Wrap(Sum(t, change)[c]) = Sum(t, change)[c]
    BY <1>1, WordKept DEF Fits
  <2> QED BY <1>1, <2>2, <2>3, FormulaOfTheStep
<1>4. AccIsExact'
  BY <1>1 DEF AccIsExact
<1> QED BY <1>1, <1>3, <1>4

\* What the buffers, shifts and in-place operations of an iteration leave in
\* the field is the step of the docstring over the integers, rounding toward
\* zero, in every iteration on every admitted block (kernel.py:343-348).
THEOREM TheStepIsExact == Spec => FieldIsExact
<1>1. Init => AccIsExact
  BY DEF Init, AccIsExact
<1>2. ASSUME IInv, IInv', AccIsExact, [Next]_vars
      PROVE  AccIsExact' /\ (it' # it => t' = [c \in Cells |-> ExactStep(c)])
  <2>1. CASE Refuse \/ Start
    BY <2>1 DEF Refuse, Start, AccIsExact
  <2>2. CASE Up \/ Gather
    <3>1. it' = it
      BY <2>2 DEF Up, Gather, AddNeighbour, Operation
    <3> QED BY <1>2, <2>2, <3>1, GatherIsExact
  <2>3. CASE Laplacian
    BY <1>2, <2>3, LaplacianIsExact DEF Laplacian, Operation
  <2>4. CASE Diffuse
    BY <1>2, <2>4, DiffuseIsExact DEF Diffuse, Operation
  <2>5. CASE Decay
    BY <1>2, <2>5, DecayIsExact DEF Decay, Operation
  <2>6. CASE AddSource
    BY <1>2, <2>6, AddSourceIsExact DEF AddSource, Operation
  <2>7. CASE Advance
    BY <1>2, <2>7, AdvanceIsExact
  <2>8. CASE UNCHANGED vars
    <3>1. p' = p /\ t' = t /\ pc' = pc /\ acc' = acc /\ it' = it
      BY <2>8 DEF vars
    <3> QED BY <1>2, <3>1, SameFormula DEF AccIsExact
  <2> QED BY <1>2, <2>1, <2>2, <2>3, <2>4, <2>5, <2>6, <2>7, <2>8 DEF Next, Iterate
<1>3. IInv /\ IInv' /\ AccIsExact /\ [Next]_vars
        => AccIsExact' /\ [it' # it => t' = [c \in Cells |-> ExactStep(c)]]_vars
  BY <1>2
<1> QED BY <1>1, <1>3, Invariance, PTL DEF Spec, FieldIsExact

=============================================================================
