----------------------------- MODULE ProbeValues -----------------------------
(***************************************************************************)
(* _probe_values of src/obsign_verify/verify.py: the values with which the *)
(* liveness probe replaces one input, one loop after the other.  A value   *)
(* is dropped when it leaves the word or was listed before.                *)
(***************************************************************************)
EXTENDS Integers, Sequences, SequencesExt

CONSTANTS
  WordMin, WordMax,   \* _I64_MIN, _I64_MAX
  Deltas, Fractions, Shifts, Edges,   \* the four tables, as sequences
  InputValues         \* the values of the input probed

Word == WordMin .. WordMax

\* What the theorems assume of them: the input is a word, and the tables hold
\* integers, with no division by zero and no negative shift.
TablesOK ==
  /\ WordMin \in Int /\ WordMax \in Int /\ WordMin <= WordMax
  /\ Deltas \in Seq(Int) /\ Fractions \in Seq(Nat \ {0}) /\ Shifts \in Seq(Nat)
  /\ Edges \in Seq(Int)
  /\ InputValues \subseteq Word

VARIABLES
  input,
  phase,   \* the loop at hand: "deltas", "fractions", "shifts", "edges", "max", "min", "done"
  turn,    \* its next iteration
  values

valueVars == <<input, phase, turn, values>>

ValuesInit == input \in InputValues /\ phase = "deltas" /\ turn = 1 /\ values = <<>>

Add(vs, v) ==
  IF v \in Word /\ v # input /\ ~Contains(vs, v) THEN Append(vs, v) ELSE vs

AddBoth(step) == Add(Add(values, input + step), input - step)

Magnitude == IF input < 0 THEN -input ELSE input

\* One iteration of the loop over a table.
Iterate(name, table) ==
  /\ phase = name /\ turn <= Len(table)
  /\ turn' = turn + 1
  /\ UNCHANGED <<input, phase>>

\* The end of that loop, and the loop that follows it.
Leave(name, table, next) ==
  /\ phase = name /\ turn > Len(table)
  /\ phase' = next /\ turn' = 1
  /\ UNCHANGED <<input, values>>

AddDelta ==
  /\ Iterate("deltas", Deltas)
  /\ values' = Add(values, input + Deltas[turn])

\* A step that rounds to nothing is skipped.
AddFraction ==
  /\ Iterate("fractions", Fractions)
  /\ LET step == Magnitude \div Fractions[turn]
     IN  values' = IF step = 0 THEN values ELSE AddBoth(step)

AddShift ==
  /\ Iterate("shifts", Shifts)
  /\ values' = AddBoth(2 ^ Shifts[turn])

AddEdge ==
  /\ Iterate("edges", Edges)
  /\ values' = Add(values, Edges[turn])

AddMax ==
  /\ phase = "max" /\ phase' = "min"
  /\ values' = Add(values, WordMax)
  /\ UNCHANGED <<input, turn>>

AddMin ==
  /\ phase = "min" /\ phase' = "done"
  /\ values' = Add(values, WordMin)
  /\ UNCHANGED <<input, turn>>

EndLoop ==
  \/ Leave("deltas", Deltas, "fractions")
  \/ Leave("fractions", Fractions, "shifts")
  \/ Leave("shifts", Shifts, "edges")
  \/ Leave("edges", Edges, "max")

ValuesNext == AddDelta \/ AddFraction \/ AddShift \/ AddEdge \/ EndLoop \/ AddMax \/ AddMin

ValuesSpec == ValuesInit /\ [][ValuesNext]_valueVars

-----------------------------------------------------------------------------

Phases == {"deltas", "fractions", "shifts", "edges", "max", "min", "done"}

\* The loops are taken one by one, and what is listed are words.
ValuesTypeOK ==
  /\ input \in Word /\ phase \in Phases /\ turn \in Nat \ {0}
  /\ values \in Seq(Word)

\* No run of the probe is spent twice: the values are distinct, and none is the
\* input itself, which would be a run that cannot move the output.
NoRunIsWasted ==
  /\ \A j, m \in 1 .. Len(values) : values[j] = values[m] => j = m
  /\ \A j \in 1 .. Len(values) : values[j] # input

\* An input that only decides on which side of a threshold it is cannot pass for
\* ignored: some value lies on the other side, wherever the threshold is, if a
\* word does (verify.py:72-79).
ThresholdsAreCrossed ==
  phase = "done" =>
    \A t \in Word :
      (\E v \in Word : (v >= t) # (input >= t)) =>
        \E j \in 1 .. Len(values) : (values[j] >= t) # (input >= t)

=============================================================================
