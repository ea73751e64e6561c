------------------------- MODULE LivenessProbeProofs -------------------------
(***************************************************************************)
(* What the input-liveness probe guarantees for every program, every       *)
(* ladder and every setting of its limits.                                 *)
(***************************************************************************)
EXTENDS LivenessProbe, ProbeValues, WellFoundedInduction, TLAPS

\* Where the cursors stand, and how far pass 1 has come with each ladder.
Cursors ==
  /\ i = N + 1 => k = 0
  /\ pc # "done" /\ i \in Inputs => k <= Len(subject.runs[i]) + 1
  /\ \A j \in Inputs : tried[j] <= Len(subject.runs[j])
  /\ pc = "pass1" =>
       /\ \A j \in Inputs : j > i \/ (j = i /\ k = 0) => tried[j] = 0
       /\ i \in Inputs /\ k > 0 => tried[i] = k - 1
  /\ pc = "pass2" /\ i \in Inputs /\ k > 0 => k > tried[i]
  /\ pc = "done" /\ swept => i = N + 1

\* What pass 1 knows of the input at hand.
LadderSoFar ==
  pc = "pass1" /\ i \in Inputs /\ k > 0 =>
    /\ \A n \in 1 .. k - 1 : ~Moves(i, n)
    /\ trapped <=> \E n \in 1 .. k - 1 : Outcome(i, n).traps

\* Every run performed is in the record of moved cells, and nothing else is.
CellsRecorded ==
  /\ \A j \in Inputs : \A n \in Performed(j) :
       ~Outcome(j, n).traps => Outcome(j, n).moved \subseteq cellMoved
  /\ \A c \in cellMoved : \E j \in Inputs : \E n \in Ladder(j) :
       Moves(j, n) /\ c \in Outcome(j, n).moved
  /\ ran => \E j \in Inputs : \E n \in Ladder(j) : ~Outcome(j, n).traps

IInv == TypeOK /\ Cursors /\ LadderSoFar /\ InputVerdictSound /\ CellsRecorded /\ WorkBounded

-----------------------------------------------------------------------------
(* Arithmetic of the limits. *)

\* The limits are numbers, and a ladder has a length.
LEMMA Limits ==
  ASSUME SubjectOK(subject)
  PROVE  /\ N \in Nat
         /\ Cap \in Nat
         /\ \A s \in Nat : Cost(s) \in Nat
         /\ Budget \in Nat
         /\ \A j \in Inputs : Len(subject.runs[j]) \in Nat
<1>1. N \in Nat
  BY DEF SubjectOK, N
<1>2. subject.base \in Nat /\ subject.fixed \in Nat
  BY CostAssumption DEF SubjectOK
<1>3. Cap \in Nat
  BY <1>2, CostAssumption DEF Cap
<1>4. \A s \in Nat : s * StepCost \in Nat
  BY CostAssumption, SMT
<1>5. \A s \in Nat : Cost(s) \in Nat
  BY <1>2, <1>4 DEF Cost
<1>6. Cost(subject.base) * Multiple \in Nat
  <2>1. Cost(subject.base) \in Nat
    BY <1>2, <1>5
  <2> QED BY <2>1, CostAssumption, SMT
<1>7. Budget \in Nat
  BY <1>6, CostAssumption DEF Budget
<1>8. \A j \in Inputs : Len(subject.runs[j]) \in Nat
  BY DEF SubjectOK, N, Inputs
<1> QED BY <1>1, <1>3, <1>5, <1>7, <1>8

\* A run under the cap is a run, and stays within it.
LEMMA OutcomeType ==
  ASSUME SubjectOK(subject), NEW j \in Inputs, NEW n \in Ladder(j)
  PROVE  /\ Outcome(j, n).traps \in BOOLEAN
         /\ Outcome(j, n).moved \in SUBSET Nat
         /\ Outcome(j, n).steps \in Nat
         /\ Outcome(j, n).steps <= Cap
<1>1. subject.runs[j][n] \in Run
  BY DEF SubjectOK, Inputs, N, Ladder
<1>2. Cap \in Nat
  BY Limits
<1>3. /\ subject.runs[j][n].traps \in BOOLEAN
      /\ subject.runs[j][n].moved \in SUBSET Nat
      /\ subject.runs[j][n].steps \in Nat
  BY <1>1, CostAssumption DEF Run
<1>4. CASE subject.runs[j][n].steps > Cap
  <2>1. Outcome(j, n) = [traps |-> TRUE, moved |-> {}, steps |-> Cap]
    BY <1>4 DEF Outcome, Capped
  <2> QED BY <2>1, <1>2
<1>5. CASE ~(subject.runs[j][n].steps > Cap)
  <2>1. Outcome(j, n) = subject.runs[j][n]
    BY <1>5 DEF Outcome, Capped
  <2> QED BY <2>1, <1>2, <1>3, <1>5
<1> QED BY <1>4, <1>5

\* A run costs at most what a run at the cap costs.
LEMMA RunCost ==
  ASSUME SubjectOK(subject), NEW j \in Inputs, NEW n \in Ladder(j)
  PROVE  /\ Cost(Outcome(j, n).steps) \in Nat
         /\ Cost(Outcome(j, n).steps) <= Cost(Cap)
<1>1. /\ Outcome(j, n).steps \in Nat
      /\ Outcome(j, n).steps <= Cap
  BY OutcomeType
<1>2. Cap \in Nat /\ subject.fixed \in Nat
  BY Limits DEF SubjectOK
<1>3. \A a, b, c \in Nat : a <= b => a * c <= b * c
  BY SMT
<1>4. Outcome(j, n).steps * StepCost <= Cap * StepCost
  BY <1>1, <1>2, <1>3, CostAssumption
<1>5. Outcome(j, n).steps * StepCost \in Nat /\ Cap * StepCost \in Nat
  BY <1>1, <1>2, CostAssumption, SMT
<1> QED BY <1>2, <1>4, <1>5 DEF Cost

-----------------------------------------------------------------------------
(* The invariant holds initially. *)

\* Before the first run, nothing is known and nothing was spent.
LEMMA InitIInv == Init => IInv
<1> SUFFICES ASSUME Init PROVE IInv
  OBVIOUS
<1>1. SubjectOK(subject)
  BY SubjectAssumption DEF Init
<1>2. N \in Nat
  BY <1>1, Limits
<1>3. subject.runs = <<>> <=> N = 0
  BY <1>1 DEF SubjectOK, N
<1>4. Inputs = 1 .. N /\ \A j \in Inputs : tried[j] = 0
  BY DEF Init, Inputs
<1>5. TypeOK
  <2>1. perInput \in Seq({"live", "guarded", "dead", "indeterminate"}) /\ Len(perInput) = 0
    BY DEF Init
  <2>2. tried \in [Inputs -> Nat]
    BY <1>4 DEF Init
  <2>3. pc = "pass1" \/ (pc = "done" /\ N = 0)
    BY <1>3 DEF Init
  <2>4. i = 1 /\ k = 0 /\ spent = 0 /\ cellMoved = {}
        /\ ran = FALSE /\ trapped = FALSE /\ swept = TRUE
    BY DEF Init
  <2>5. i \in 1 .. N + 1 /\ Len(perInput) = IF pc = "pass1" THEN i - 1 ELSE N
    BY <1>2, <2>1, <2>3, <2>4
  <2>6. pc \in {"pass1", "pass2", "done"} /\ k \in Nat /\ spent \in Nat
        /\ ran \in BOOLEAN /\ trapped \in BOOLEAN /\ swept \in BOOLEAN
        /\ cellMoved \in SUBSET Nat
    BY <2>3, <2>4
  <2> QED BY <1>1, <2>1, <2>2, <2>5, <2>6 DEF TypeOK
<1>6. Cursors
  <2>1. \A j \in Inputs : Len(subject.runs[j]) \in Nat
    BY <1>1, Limits
  <2>2. i = 1 /\ k = 0 /\ (pc = "pass1" \/ (pc = "done" /\ N = 0))
    BY <1>3 DEF Init
  <2> QED BY <1>2, <1>4, <2>1, <2>2 DEF Cursors
<1>7. LadderSoFar
  BY DEF Init, LadderSoFar
<1>8. InputVerdictSound
  BY DEF Init, InputVerdictSound
<1>9. \A j \in Inputs : Performed(j) = {}
  BY <1>2, <1>3, <1>4 DEF Init, Performed
<1>10. CellsRecorded
  BY <1>9 DEF Init, CellsRecorded
<1>11. WorkBounded
  BY DEF Init, WorkBounded
<1> QED BY <1>5, <1>6, <1>7, <1>8, <1>10, <1>11 DEF IInv

-----------------------------------------------------------------------------
(* Facts shared by the actions. *)

\* The subject never changes, and with it everything that depends on it alone.
LEMMA SameSubject ==
  ASSUME subject' = subject
  PROVE  /\ N' = N /\ Inputs' = Inputs /\ Cap' = Cap /\ Budget' = Budget
         /\ SubjectOK(subject)' = SubjectOK(subject)
         /\ \A s : Cost(s)' = Cost(s)
         /\ \A j : Ladder(j)' = Ladder(j) /\ FullVerdict(j)' = FullVerdict(j)
         /\ \A j, n : Outcome(j, n)' = Outcome(j, n) /\ Moves(j, n)' = Moves(j, n)
<1>1. N' = N /\ Inputs' = Inputs
  BY DEF N, Inputs
<1>2. Cap' = Cap /\ Budget' = Budget /\ \A s : Cost(s)' = Cost(s)
  BY DEF Cap, Budget, Cost
<1>3. SubjectOK(subject)' = SubjectOK(subject)
  BY DEF SubjectOK
<1>4. \A j, n : Outcome(j, n)' = Outcome(j, n)
  BY <1>2 DEF Outcome, Capped
<1>5. \A j, n : Moves(j, n)' = Moves(j, n)
  BY <1>4 DEF Moves
<1>6. \A j : Ladder(j)' = Ladder(j)
  BY DEF Ladder
<1>7. \A j : FullVerdict(j)' = FullVerdict(j)
  BY <1>4, <1>5, <1>6 DEF FullVerdict
<1> QED BY <1>1, <1>2, <1>3, <1>4, <1>5, <1>6, <1>7

\* A verdict is appended for the input at hand.
LEMMA Concluded ==
  ASSUME TypeOK, InputVerdictSound, pc = "pass1", i \in Inputs, subject' = subject,
         NEW v \in {"live", "guarded", "dead", "indeterminate"},
         Conclude(v), pc' = pc,
         v # "indeterminate" => v = FullVerdict(i)
  PROVE  /\ perInput' \in Seq({"live", "guarded", "dead", "indeterminate"})
         /\ Len(perInput') = i' - 1
         /\ i' \in 1 .. N + 1 /\ k' = 0
         /\ InputVerdictSound'
<1>1. Len(perInput) = i - 1 /\ i \in Nat /\ N \in Nat
  BY Limits DEF TypeOK, Inputs
<1>2. /\ perInput' \in Seq({"live", "guarded", "dead", "indeterminate"})
      /\ DOMAIN perInput' = 1 .. i
      /\ Len(perInput') = i
      /\ perInput'[i] = v
      /\ \A j \in 1 .. i - 1 : perInput'[j] = perInput[j]
      /\ DOMAIN perInput = 1 .. i - 1
  BY <1>1 DEF Conclude, TypeOK
<1>3. i' = i + 1 /\ k' = 0
  BY DEF Conclude
<1>4. InputVerdictSound'
  <2> SUFFICES ASSUME NEW j \in DOMAIN perInput', perInput'[j] # "indeterminate"
               PROVE  perInput'[j] = FullVerdict(j)'
    BY DEF InputVerdictSound
  <2>1. FullVerdict(j)' = FullVerdict(j)
    BY SameSubject
  <2>2. CASE j = i
    BY <1>2, <2>1, <2>2
  <2>3. CASE j # i
    BY <1>1, <1>2, <2>1, <2>3 DEF InputVerdictSound
  <2> QED BY <2>2, <2>3
<1> QED BY <1>1, <1>2, <1>3, <1>4 DEF Inputs
\* A step that performs no run, and changes no record of one, keeps the record.
LEMMA CellsKept ==
  ASSUME CellsRecorded, subject' = subject, ran' = ran, cellMoved' = cellMoved,
         \A j \in Inputs : Performed(j)' = Performed(j)
  PROVE  CellsRecorded'
<1>1. /\ Inputs' = Inputs
      /\ \A j : Ladder(j)' = Ladder(j)
      /\ \A j, n : Outcome(j, n)' = Outcome(j, n) /\ Moves(j, n)' = Moves(j, n)
  BY SameSubject
<1>2. (\A j \in Inputs : \A n \in Performed(j) :
         ~Outcome(j, n).traps => Outcome(j, n).moved \subseteq cellMoved)'
  BY <1>1 DEF CellsRecorded
<1>3. (\A c \in cellMoved : \E j \in Inputs : \E n \in Ladder(j) :
         Moves(j, n) /\ c \in Outcome(j, n).moved)'
  BY <1>1 DEF CellsRecorded
<1>4. (ran => \E j \in Inputs : \E n \in Ladder(j) : ~Outcome(j, n).traps)'
  BY <1>1 DEF CellsRecorded
<1> QED BY <1>2, <1>3, <1>4 DEF CellsRecorded

\* A step that performs a run records what it moved and is charged for it.
LEMMA Probed ==
  ASSUME TypeOK, CellsRecorded, i \in Inputs, k \in Ladder(i), Probe, subject' = subject,
         \A j \in Inputs : Performed(j)' \subseteq Performed(j) \cup (IF j = i THEN {k} ELSE {})
  PROVE  /\ CellsRecorded' /\ WorkBounded'
         /\ spent' \in Nat /\ ran' \in BOOLEAN /\ cellMoved' \in SUBSET Nat
<1>1. /\ Inputs' = Inputs /\ Budget' = Budget /\ Cap' = Cap
      /\ \A s : Cost(s)' = Cost(s)
      /\ \A j : Ladder(j)' = Ladder(j)
      /\ \A j, n : Outcome(j, n)' = Outcome(j, n) /\ Moves(j, n)' = Moves(j, n)
  BY SameSubject
<1>2. /\ Outcome(i, k).traps \in BOOLEAN
      /\ Outcome(i, k).moved \in SUBSET Nat
      /\ Cost(Outcome(i, k).steps) \in Nat
      /\ Cost(Outcome(i, k).steps) <= Cost(Cap)
      /\ Budget \in Nat /\ Cost(Cap) \in Nat
  BY OutcomeType, RunCost, Limits DEF TypeOK
<1>3. spent < Budget /\ spent \in Nat /\ spent' = spent + Cost(Outcome(i, k).steps)
  BY DEF Probe, TypeOK
<1>4. spent' \in Nat /\ WorkBounded'
  <2>1. spent' \in Nat /\ spent' < Budget + Cost(Cap)
    BY <1>2, <1>3
  <2> QED BY <2>1, <1>1 DEF WorkBounded
<1>5. ran' = (ran \/ ~Outcome(i, k).traps)
      /\ cellMoved' = IF Outcome(i, k).traps THEN cellMoved
                      ELSE cellMoved \cup Outcome(i, k).moved
  BY DEF Probe
<1>6. ran' \in BOOLEAN /\ cellMoved' \in SUBSET Nat
  BY <1>2, <1>5 DEF TypeOK
<1>7. cellMoved \subseteq cellMoved'
      /\ (~Outcome(i, k).traps => Outcome(i, k).moved \subseteq cellMoved')
  BY <1>5
<1>8. (\A j \in Inputs : \A n \in Performed(j) :
         ~Outcome(j, n).traps => Outcome(j, n).moved \subseteq cellMoved)'
  <2> SUFFICES ASSUME NEW j \in Inputs, NEW n \in Performed(j)', ~Outcome(j, n).traps
               PROVE  Outcome(j, n).moved \subseteq cellMoved'
    BY <1>1
  <2>1. n \in Performed(j) \/ (j = i /\ n = k)
    OBVIOUS
  <2>2. CASE n \in Performed(j)
    BY <1>7, <2>2 DEF CellsRecorded
  <2>3. CASE j = i /\ n = k
    BY <1>7, <2>3
  <2> QED BY <2>1, <2>2, <2>3
<1>9. (\A c \in cellMoved : \E j \in Inputs : \E n \in Ladder(j) :
         Moves(j, n) /\ c \in Outcome(j, n).moved)'
  <2> SUFFICES ASSUME NEW c \in cellMoved'
               PROVE  \E j \in Inputs : \E n \in Ladder(j) :
                        Moves(j, n) /\ c \in Outcome(j, n).moved
    BY <1>1
  <2>1. CASE c \in cellMoved
    BY <2>1 DEF CellsRecorded
  <2>2. CASE c \notin cellMoved
    <3>1. ~Outcome(i, k).traps /\ c \in Outcome(i, k).moved
      BY <1>5, <2>2
    <3> QED BY <3>1 DEF Moves
  <2> QED BY <2>1, <2>2
<1>10. (ran => \E j \in Inputs : \E n \in Ladder(j) : ~Outcome(j, n).traps)'
  <2> SUFFICES ASSUME ran'
               PROVE  \E j \in Inputs : \E n \in Ladder(j) : ~Outcome(j, n).traps
    BY <1>1
  <2>1. CASE ran
    BY <2>1 DEF CellsRecorded
  <2>2. CASE ~ran
    BY <1>5, <2>2
  <2> QED BY <2>1, <2>2
<1>11. CellsRecorded'
  BY <1>8, <1>9, <1>10 DEF CellsRecorded
<1> QED BY <1>4, <1>6, <1>11

\* The charge stands while no run is performed.
LEMMA WorkKept ==
  ASSUME WorkBounded, subject' = subject, spent' = spent
  PROVE  WorkBounded'
<1>1. Budget' = Budget /\ Cap' = Cap /\ \A s : Cost(s)' = Cost(s)
  BY SameSubject
<1> QED BY <1>1 DEF WorkBounded

\* The verdicts stand while none is added.
LEMMA VerdictsKept ==
  ASSUME InputVerdictSound, subject' = subject, perInput' = perInput
  PROVE  InputVerdictSound'
<1>1. \A j : FullVerdict(j)' = FullVerdict(j)
  BY SameSubject
<1> QED BY <1>1 DEF InputVerdictSound

-----------------------------------------------------------------------------
(* Each action preserves the invariant. *)

\* The actions of pass 1 that give the input at hand its verdict without a run.
LEMMA PassedOver ==
  ASSUME IInv, pc = "pass1", i \in Inputs, k <= Len(subject.runs[i]) + 1,
         NEW v \in {"live", "guarded", "dead", "indeterminate"},
         Conclude(v), v # "indeterminate" => v = FullVerdict(i),
         Unprobed, UNCHANGED <<subject, pc, tried, trapped, swept>>
  PROVE  IInv'
<1>1. /\ TypeOK /\ Cursors /\ InputVerdictSound /\ CellsRecorded /\ WorkBounded
      /\ subject' = subject /\ pc' = pc /\ tried' = tried /\ trapped' = trapped
      /\ swept' = swept /\ spent' = spent /\ ran' = ran /\ cellMoved' = cellMoved
  BY DEF IInv, Unprobed
<1>2. N' = N /\ Inputs' = Inputs /\ SubjectOK(subject)'
  BY <1>1, SameSubject DEF TypeOK
<1>3. /\ perInput' \in Seq({"live", "guarded", "dead", "indeterminate"})
      /\ Len(perInput') = i' - 1 /\ i' \in 1 .. N + 1 /\ k' = 0
      /\ InputVerdictSound'
  BY <1>1, Concluded
<1>4. i' = i + 1 /\ i \in Nat /\ N \in Nat
  BY <1>1, Limits DEF Conclude, TypeOK, Inputs
<1>5. TypeOK'
  BY <1>1, <1>2, <1>3 DEF TypeOK
<1>6. Cursors'
  <2>1. \A j \in Inputs : Len(subject.runs[j]) \in Nat
    BY <1>1, Limits DEF TypeOK
  <2> QED BY <1>1, <1>2, <1>3, <1>4, <2>1 DEF Cursors, Inputs
<1>7. LadderSoFar'
  BY <1>3 DEF LadderSoFar
<1>8. CellsRecorded'
  <2>1. \A j \in Inputs : Performed(j)' = Performed(j)
    BY <1>1 DEF Performed
  <2> QED BY <1>1, <2>1, CellsKept
<1>9. WorkBounded'
  BY <1>1, WorkKept
<1> QED BY <1>3, <1>5, <1>6, <1>7, <1>8, <1>9 DEF IInv

\* Giving up on an input before its ladder is built says nothing of it.
LEMMA SkipInputStep == ASSUME IInv, SkipInput PROVE IInv'
<1>1. Len(subject.runs[i]) \in Nat
  BY Limits DEF IInv, TypeOK, SkipInput, InPass1
<1> QED BY <1>1, PassedOver DEF SkipInput, InPass1

\* So does giving up in the middle of its ladder.
LEMMA ExhaustedInputStep == ASSUME IInv, ExhaustedInput PROVE IInv'
<1>1. Len(subject.runs[i]) \in Nat
  BY Limits DEF IInv, TypeOK, ExhaustedInput, InPass1
<1> QED BY <1>1, PassedOver DEF ExhaustedInput, InPass1, Ladder

\* At the end of a ladder, what pass 1 knows of it is what there is to know.
LEMMA EndLadderStep == ASSUME IInv, EndLadder PROVE IInv'
<1> DEFINE v == IF trapped THEN "guarded" ELSE "dead"
<1>1. /\ pc = "pass1" /\ i \in Inputs /\ k = Len(subject.runs[i]) + 1
      /\ Len(subject.runs[i]) \in Nat
  BY Limits DEF IInv, TypeOK, EndLadder, InPass1
<1>2. 1 .. k - 1 = Ladder(i) /\ k > 0
  BY <1>1 DEF Ladder
<1>3. /\ \A n \in Ladder(i) : ~Moves(i, n)
      /\ trapped <=> \E n \in Ladder(i) : Outcome(i, n).traps
  BY <1>1, <1>2 DEF IInv, LadderSoFar
<1>4. v = FullVerdict(i)
  BY <1>3 DEF FullVerdict
<1>5. v \in {"live", "guarded", "dead", "indeterminate"}
  OBVIOUS
<1>6. Conclude(v) /\ Unprobed /\ UNCHANGED <<subject, pc, tried, trapped, swept>>
  BY DEF EndLadder
<1> HIDE DEF v
<1> QED BY <1>1, <1>4, <1>5, <1>6, PassedOver

\* A new input starts with no run and no trap.
LEMMA BeginInputStep == ASSUME IInv, BeginInput PROVE IInv'
<1>1. /\ TypeOK /\ Cursors /\ InputVerdictSound /\ CellsRecorded /\ WorkBounded
      /\ pc = "pass1" /\ i \in Inputs /\ k = 0 /\ k' = 1 /\ trapped' = FALSE
      /\ subject' = subject /\ pc' = pc /\ i' = i /\ tried' = tried
      /\ perInput' = perInput /\ swept' = swept
      /\ spent' = spent /\ ran' = ran /\ cellMoved' = cellMoved
  BY DEF IInv, BeginInput, InPass1, Unprobed
<1>2. N' = N /\ Inputs' = Inputs /\ SubjectOK(subject)'
  BY <1>1, SameSubject DEF TypeOK
<1>3. TypeOK'
  BY <1>1, <1>2 DEF TypeOK
<1>4. N \in Nat /\ \A j \in Inputs : Len(subject.runs[j]) \in Nat
  BY <1>1, Limits DEF TypeOK
<1>5. Cursors'
  BY <1>1, <1>2, <1>4 DEF Cursors, Inputs
<1>6. LadderSoFar'
  <2>1. (1 .. k - 1)' = {}
    BY <1>1
  <2> QED BY <1>1, <2>1 DEF LadderSoFar
<1>7. CellsRecorded'
  <2>1. \A j \in Inputs : Performed(j)' = Performed(j)
    BY <1>1 DEF Performed
  <2> QED BY <1>1, <2>1, CellsKept
<1>8. WorkBounded' /\ InputVerdictSound'
  BY <1>1, WorkKept, VerdictsKept
<1> QED BY <1>3, <1>5, <1>6, <1>7, <1>8 DEF IInv

\* A run of pass 1: either it moves the output and the input is live, or the
\* cursor goes on to the next value of the ladder.
LEMMA ProbeInputStep == ASSUME IInv, ProbeInput PROVE IInv'
<1>1. /\ TypeOK /\ Cursors /\ LadderSoFar /\ InputVerdictSound /\ CellsRecorded
      /\ pc = "pass1" /\ i \in Inputs /\ k \in Ladder(i) /\ Probe
      /\ subject' = subject /\ pc' = pc /\ swept' = swept
      /\ tried' = [tried EXCEPT ![i] = @ + 1]
      /\ trapped' = (trapped \/ Outcome(i, k).traps)
  BY DEF IInv, ProbeInput, InPass1
<1>2. /\ N' = N /\ Inputs' = Inputs /\ SubjectOK(subject)'
      /\ \A j, n : Outcome(j, n)' = Outcome(j, n) /\ Moves(j, n)' = Moves(j, n)
  BY <1>1, SameSubject DEF TypeOK
<1>3. /\ N \in Nat /\ i \in Nat /\ k \in Nat /\ k > 0 /\ k <= Len(subject.runs[i])
      /\ Inputs = 1 .. N
      /\ \A j \in Inputs : Len(subject.runs[j]) \in Nat
  BY <1>1, Limits DEF TypeOK, Ladder, Inputs
<1>4. /\ tried[i] = k - 1
      /\ \A n \in 1 .. k - 1 : ~Moves(i, n)
      /\ trapped <=> \E n \in 1 .. k - 1 : Outcome(i, n).traps
  BY <1>1, <1>3 DEF Cursors, LadderSoFar
<1>5. tried' \in [Inputs -> Nat] /\ tried'[i] = k
      /\ \A j \in Inputs : j # i => tried'[j] = tried[j]
  BY <1>1, <1>3, <1>4 DEF TypeOK
<1>6. /\ CellsRecorded' /\ WorkBounded'
      /\ spent' \in Nat /\ ran' \in BOOLEAN /\ cellMoved' \in SUBSET Nat
  <2>1. \A j \in Inputs : Performed(j)' \subseteq Performed(j) \cup (IF j = i THEN {k} ELSE {})
    <3> SUFFICES ASSUME NEW j \in Inputs
                 PROVE  Performed(j)' \subseteq Performed(j) \cup (IF j = i THEN {k} ELSE {})
      OBVIOUS
    <3>1. Performed(j) = 1 .. tried[j] /\ Performed(j)' = 1 .. tried'[j]
      BY <1>1 DEF Performed
    <3> QED BY <1>3, <1>4, <1>5, <3>1
  <2> QED BY <1>1, <2>1, Probed
<1>7. trapped' \in BOOLEAN
  BY <1>1, OutcomeType DEF TypeOK
<1>8. CASE Moves(i, k)
  <2>1. "live" = FullVerdict(i)
    BY <1>1, <1>8 DEF FullVerdict
  <2>2. Conclude("live")
    BY <1>8 DEF ProbeInput
  <2>3. /\ perInput' \in Seq({"live", "guarded", "dead", "indeterminate"})
        /\ Len(perInput') = i' - 1 /\ i' \in 1 .. N + 1 /\ k' = 0
        /\ InputVerdictSound'
    BY <1>1, <2>1, <2>2, Concluded
  <2>4. TypeOK'
    BY <1>1, <1>2, <1>5, <1>6, <1>7, <2>3 DEF TypeOK
  <2>5. i' = i + 1
    BY <2>2 DEF Conclude
  <2>6. Cursors'
    BY <1>1, <1>2, <1>3, <1>5, <2>3, <2>5, SMTT(30) DEF Cursors
  <2>7. LadderSoFar'
    BY <2>3 DEF LadderSoFar
  <2> QED BY <1>6, <2>3, <2>4, <2>6, <2>7 DEF IInv
<1>9. CASE ~Moves(i, k)
  <2>1. k' = k + 1 /\ i' = i /\ perInput' = perInput
    BY <1>9 DEF ProbeInput
  <2>2. TypeOK'
    BY <1>1, <1>2, <1>3, <1>5, <1>6, <1>7, <2>1 DEF TypeOK
  <2>3. Cursors'
    BY <1>1, <1>2, <1>3, <1>5, <2>1 DEF Cursors
  <2>4. LadderSoFar'
    <3>1. \A n : n \in (1 .. k - 1)' <=> n \in 1 .. k - 1 \/ n = k
      BY <1>3, <2>1
    <3>2. (\A n \in 1 .. k - 1 : ~Moves(i, n))'
      BY <1>2, <1>4, <1>9, <2>1, <3>1
    <3>3. trapped' <=> (\E n \in 1 .. k - 1 : Outcome(i, n).traps)'
      <4>1. (\E n \in 1 .. k - 1 : Outcome(i, n).traps)'
              <=> \E n \in (1 .. k - 1)' : Outcome(i, n).traps
        BY <1>2, <2>1
      <4> QED BY <1>1, <1>4, <3>1, <4>1
    <3> QED BY <3>2, <3>3 DEF LadderSoFar
  <2>5. InputVerdictSound'
    BY <1>1, <2>1, VerdictsKept
  <2> QED BY <1>6, <2>2, <2>3, <2>4, <2>5 DEF IInv
<1> QED BY <1>8, <1>9

\* Pass 2 starts from what pass 1 left.
LEMMA StartPass2Step == ASSUME IInv, StartPass2 PROVE IInv'
<1>1. /\ TypeOK /\ Cursors /\ InputVerdictSound /\ CellsRecorded /\ WorkBounded
      /\ pc = "pass1" /\ i = N + 1 /\ pc' = "pass2" /\ i' = 1 /\ k' = k
      /\ subject' = subject /\ tried' = tried /\ trapped' = trapped
      /\ perInput' = perInput /\ swept' = swept
      /\ spent' = spent /\ ran' = ran /\ cellMoved' = cellMoved
  BY DEF IInv, StartPass2, Unprobed
<1>2. N' = N /\ Inputs' = Inputs /\ SubjectOK(subject)'
  BY <1>1, SameSubject DEF TypeOK
<1>3. N \in Nat /\ k = 0 /\ \A j \in Inputs : Len(subject.runs[j]) \in Nat
  BY <1>1, Limits DEF TypeOK, Cursors
<1>4. TypeOK'
  BY <1>1, <1>2, <1>3 DEF TypeOK
<1>5. Cursors'
  BY <1>1, <1>2, <1>3 DEF Cursors
<1>6. LadderSoFar'
  BY <1>1 DEF LadderSoFar
<1>7. CellsRecorded'
  <2>1. \A j \in Inputs : Performed(j)' = Performed(j)
    BY <1>1, <1>3 DEF Performed, Inputs
  <2> QED BY <1>1, <2>1, CellsKept
<1>8. WorkBounded' /\ InputVerdictSound'
  BY <1>1, WorkKept, VerdictsKept
<1> QED BY <1>4, <1>5, <1>6, <1>7, <1>8 DEF IInv

\* The actions of pass 2 that perform no run.
LEMMA SweptOver ==
  ASSUME IInv, pc = "pass2", Unprobed,
         UNCHANGED <<subject, tried, trapped, perInput>>,
         pc' \in {"pass2", "done"}, i' \in 1 .. N + 1, k' \in Nat, swept' \in BOOLEAN,
         Cursors', \A j \in Inputs : Performed(j)' = Performed(j)
  PROVE  IInv'
<1>1. /\ TypeOK /\ InputVerdictSound /\ CellsRecorded /\ WorkBounded
      /\ subject' = subject /\ tried' = tried /\ trapped' = trapped /\ perInput' = perInput
      /\ spent' = spent /\ ran' = ran /\ cellMoved' = cellMoved
  BY DEF IInv, Unprobed
<1>2. N' = N /\ Inputs' = Inputs /\ SubjectOK(subject)'
  BY <1>1, SameSubject DEF TypeOK
<1>3. TypeOK'
  BY <1>1, <1>2 DEF TypeOK
<1>4. LadderSoFar'
  BY DEF LadderSoFar
<1>5. CellsRecorded' /\ WorkBounded' /\ InputVerdictSound'
  BY <1>1, CellsKept, WorkKept, VerdictsKept
<1> QED BY <1>3, <1>4, <1>5 DEF IInv

\* What the actions of pass 2 start from.
LEMMA InSweep ==
  ASSUME IInv
  PROVE  /\ TypeOK /\ Cursors /\ N \in Nat /\ Inputs = 1 .. N /\ i \in 1 .. N + 1 /\ k \in Nat
         /\ \A j \in Inputs : Len(subject.runs[j]) \in Nat /\ tried[j] \in Nat
         /\ subject' = subject => N' = N /\ Inputs' = Inputs
BY Limits, SameSubject DEF IInv, TypeOK, Inputs

\* A sweep cut short says so.
LEMMA CutShortStep == ASSUME IInv, CutShort PROVE IInv'
<1>1. /\ pc = "pass2" /\ i \in Inputs /\ Unprobed /\ subject' = subject
      /\ pc' = "done" /\ swept' = FALSE /\ i' = i /\ k' = k /\ tried' = tried
      /\ trapped' = trapped /\ perInput' = perInput
  BY DEF CutShort, InPass2
<1>2. Cursors'
  BY <1>1, InSweep DEF Cursors
<1>3. \A j \in Inputs : Performed(j)' = Performed(j)
  BY <1>1 DEF Performed, Ladder
<1> QED BY <1>1, <1>2, <1>3, InSweep, SweptOver

\* Pass 2 goes on after the last value pass 1 ran.
LEMMA ResumeLadderStep == ASSUME IInv, ResumeLadder PROVE IInv'
<1>1. /\ pc = "pass2" /\ i \in Inputs /\ k = 0 /\ Unprobed /\ subject' = subject
      /\ pc' = pc /\ swept' = swept /\ i' = i /\ k' = tried[i] + 1 /\ tried' = tried
      /\ trapped' = trapped /\ perInput' = perInput
  BY DEF ResumeLadder, InPass2
<1>2. Cursors'
  BY <1>1, InSweep DEF Cursors
<1>3. \A j \in Inputs : Performed(j)' = Performed(j)
  BY <1>1, InSweep DEF Performed, Ladder
<1>4. swept \in BOOLEAN
  BY InSweep DEF TypeOK
<1> QED BY <1>1, <1>2, <1>3, <1>4, InSweep, SweptOver

\* At the end of a ladder, all of its runs were performed.
LEMMA EndRestStep == ASSUME IInv, EndRest PROVE IInv'
<1>1. /\ pc = "pass2" /\ i \in Inputs /\ k = Len(subject.runs[i]) + 1 /\ Unprobed
      /\ subject' = subject /\ pc' = pc /\ swept' = swept /\ i' = i + 1 /\ k' = 0
      /\ tried' = tried /\ trapped' = trapped /\ perInput' = perInput
  BY DEF EndRest, InPass2
<1>2. Cursors'
  BY <1>1, InSweep DEF Cursors
<1>3. \A j \in Inputs : Performed(j)' = Performed(j)
  <2> SUFFICES ASSUME NEW j \in Inputs PROVE Performed(j)' = Performed(j)
    OBVIOUS
  <2>1. j \in Nat /\ i \in Nat /\ Len(subject.runs[i]) \in Nat /\ Ladder(j)' = Ladder(j)
    BY <1>1, InSweep DEF Ladder
  <2>2. CASE j = i
    BY <1>1, <2>1, <2>2 DEF Performed, Ladder
  <2>3. CASE j # i
    BY <1>1, <2>1, <2>3 DEF Performed
  <2> QED BY <2>2, <2>3
<1>4. swept \in BOOLEAN /\ i + 1 \in 1 .. N + 1
  BY <1>1, InSweep DEF TypeOK
<1> QED BY <1>1, <1>2, <1>3, <1>4, InSweep, SweptOver

\* When every ladder was ended, the sweep is whole.
LEMMA FinishStep == ASSUME IInv, Finish PROVE IInv'
<1>1. /\ pc = "pass2" /\ i = N + 1 /\ Unprobed /\ subject' = subject
      /\ pc' = "done" /\ swept' = swept /\ i' = i /\ k' = k /\ tried' = tried
      /\ trapped' = trapped /\ perInput' = perInput
  BY DEF Finish
<1>2. Cursors'
  BY <1>1, InSweep DEF Cursors
<1>3. \A j \in Inputs : Performed(j)' = Performed(j)
  BY <1>1 DEF Performed, Ladder
<1>4. swept \in BOOLEAN
  BY InSweep DEF TypeOK
<1> QED BY <1>1, <1>2, <1>3, <1>4, InSweep, SweptOver

\* A run of pass 2 only adds to the record of cells.
LEMMA ProbeRestStep == ASSUME IInv, ProbeRest PROVE IInv'
<1>1. /\ TypeOK /\ Cursors /\ InputVerdictSound /\ CellsRecorded
      /\ pc = "pass2" /\ i \in Inputs /\ k \in Ladder(i) /\ Probe
      /\ subject' = subject /\ pc' = pc /\ i' = i /\ k' = k + 1 /\ tried' = tried
      /\ trapped' = trapped /\ perInput' = perInput /\ swept' = swept
  BY DEF IInv, ProbeRest, InPass2
<1>2. N' = N /\ Inputs' = Inputs /\ SubjectOK(subject)'
  BY <1>1, SameSubject DEF TypeOK
<1>3. k > 0 /\ k \in Nat /\ k <= Len(subject.runs[i])
  BY <1>1, InSweep DEF Ladder
<1>4. \A j \in Inputs : Performed(j)' \subseteq Performed(j) \cup (IF j = i THEN {k} ELSE {})
  <2> SUFFICES ASSUME NEW j \in Inputs
               PROVE  Performed(j)' \subseteq Performed(j) \cup (IF j = i THEN {k} ELSE {})
    OBVIOUS
  <2>1. Ladder(j)' = Ladder(j)
    BY <1>1 DEF Ladder
  <2>2. CASE j = i
    <3>1. Performed(j) = 1 .. k - 1 /\ Performed(j)' = 1 .. k
      BY <1>1, <1>3, <2>2, InSweep DEF Performed
    <3> QED BY <1>3, <2>2, <3>1
  <2>3. CASE j # i
    BY <1>1, <2>1, <2>3 DEF Performed
  <2> QED BY <2>2, <2>3
<1>5. /\ CellsRecorded' /\ WorkBounded'
      /\ spent' \in Nat /\ ran' \in BOOLEAN /\ cellMoved' \in SUBSET Nat
  BY <1>1, <1>4, Probed
<1>6. TypeOK'
  BY <1>1, <1>2, <1>3, <1>5 DEF TypeOK
<1>7. Cursors'
  BY <1>1, <1>2, <1>3, InSweep DEF Cursors
<1>8. LadderSoFar'
  BY <1>1 DEF LadderSoFar
<1>9. InputVerdictSound'
  BY <1>1, VerdictsKept
<1> QED BY <1>5, <1>6, <1>7, <1>8, <1>9 DEF IInv

\* A step that changes nothing.
LEMMA StutterStep == ASSUME IInv, UNCHANGED vars PROVE IInv'
<1>1. /\ subject' = subject /\ pc' = pc /\ i' = i /\ k' = k /\ spent' = spent /\ ran' = ran
      /\ cellMoved' = cellMoved /\ tried' = tried /\ trapped' = trapped
      /\ perInput' = perInput /\ swept' = swept
  BY DEF vars
<1>2. /\ N' = N /\ Inputs' = Inputs /\ SubjectOK(subject)' = SubjectOK(subject)
      /\ \A j, n : Outcome(j, n)' = Outcome(j, n) /\ Moves(j, n)' = Moves(j, n)
  BY <1>1, SameSubject
<1>3. TypeOK'
  BY <1>1, <1>2 DEF IInv, TypeOK
<1>4. Cursors'
  BY <1>1, <1>2 DEF IInv, Cursors
<1>5. LadderSoFar'
  BY <1>1, <1>2 DEF IInv, LadderSoFar
<1>6. \A j \in Inputs : Performed(j)' = Performed(j)
  BY <1>1 DEF Performed, Ladder
<1>7. CellsRecorded' /\ WorkBounded' /\ InputVerdictSound'
  BY <1>1, <1>6, CellsKept, WorkKept, VerdictsKept DEF IInv
<1> QED BY <1>3, <1>4, <1>5, <1>7 DEF IInv

-----------------------------------------------------------------------------
(* The theorems. *)

\* The invariant the other theorems follow from: what the two loops of
\* _input_liveness know at each of their steps.
THEOREM Invariance == Spec => []IInv
<1>1. Init => IInv
  BY InitIInv
<1>2. IInv /\ [Next]_vars => IInv'
  BY SkipInputStep, BeginInputStep, ProbeInputStep, ExhaustedInputStep, EndLadderStep,
     StartPass2Step, CutShortStep, ResumeLadderStep, ProbeRestStep, EndRestStep,
     FinishStep, StutterStep DEF Next
<1> QED BY <1>1, <1>2, PTL DEF Spec

\* The cursors of the probe stay in range, and each input gets one verdict, in
\* order, whatever the program and the limits.
THEOREM TypeCorrectness == Spec => []TypeOK
<1>1. IInv => TypeOK
  BY DEF IInv
<1> QED BY <1>1, Invariance, PTL

\* The whole probe of any program costs less than its budget plus one capped
\* run (verify.py:253): the budget is tested before every run of either pass.
THEOREM WorkIsBounded == Spec => []WorkBounded
<1>1. IInv => WorkBounded
  BY DEF IInv
<1> QED BY <1>1, Invariance, PTL

\* Whatever the ladder and wherever the budget ends, an input is called live,
\* guarded or dead only if the whole ladder, run under the cap, says so.
THEOREM InputVerdictIsSound == Spec => []InputVerdictSound
<1>1. IInv => InputVerdictSound
  BY DEF IInv
<1> QED BY <1>1, Invariance, PTL

\* The verdict on the program, which decides whether its receipt is refused, is
\* the one an unlimited probe would give, unless it is "indeterminate".
THEOREM ProgramVerdictIsSound == Spec => []VerdictSound
<1>1. ASSUME IInv PROVE VerdictSound
  <2> DEFINE full == {FullVerdict(j) : j \in Inputs}
  <2> SUFFICES ASSUME pc = "done", N # 0, Verdict # "indeterminate"
               PROVE  Verdict = Weakest(full)
    BY DEF VerdictSound
  <2>1. DOMAIN perInput = Inputs
    BY <1>1, Limits DEF IInv, TypeOK, Inputs
  <2>2. Verdict = Weakest(Verdicts(perInput))
    BY DEF Verdict
  <2>3. \A j \in Inputs : perInput[j] # "indeterminate" => perInput[j] = FullVerdict(j)
    BY <1>1, <2>1 DEF IInv, InputVerdictSound
  <2>4. \A v : v \in Verdicts(perInput) <=> \E j \in Inputs : perInput[j] = v
    BY <2>1 DEF Verdicts
  <2>5. CASE "live" \in Verdicts(perInput)
    <3>1. "live" \in full
      BY <2>3, <2>4, <2>5
    <3> QED BY <2>2, <2>5, <3>1 DEF Weakest
  <2>6. CASE "live" \notin Verdicts(perInput)
    <3>1. "indeterminate" \notin Verdicts(perInput)
      BY <2>2, <2>6 DEF Weakest
    <3>2. \A j \in Inputs : perInput[j] = FullVerdict(j)
      BY <2>3, <2>4, <3>1
    <3>3. Verdicts(perInput) = full
      BY <2>4, <3>2
    <3> QED BY <2>2, <3>3
  <2> QED BY <2>5, <2>6
<1> QED BY <1>1, Invariance, PTL

\* A cell is called dead only when every run of every ladder was performed and
\* left it alone, and live only when some run moved it (verify.py:343).
THEOREM CellVerdictIsSound == Spec => []CellVerdictSound
<1>1. ASSUME IInv PROVE CellVerdictSound
  <2> SUFFICES ASSUME pc = "done", NEW c \in subject.cells
               PROVE  /\ PerCell(c) = "dead" =>
                           /\ \A j \in Inputs : \A n \in Ladder(j) :
                                ~Outcome(j, n).traps => c \notin Outcome(j, n).moved
                           /\ \E j \in Inputs : \E n \in Ladder(j) : ~Outcome(j, n).traps
                      /\ PerCell(c) = "live" =>
                           \E j \in Inputs : \E n \in Ladder(j) :
                             Moves(j, n) /\ c \in Outcome(j, n).moved
    BY DEF CellVerdictSound
  <2>1. CASE PerCell(c) = "dead"
    <3>1. c \notin cellMoved /\ ran /\ swept
      BY <2>1 DEF PerCell
    <3>2. i = N + 1 /\ N \in Nat
      BY <1>1, <3>1, Limits DEF IInv, TypeOK, Cursors
    <3>3. \A j \in Inputs : Performed(j) = Ladder(j)
      BY <3>2 DEF Performed, Inputs
    <3> QED BY <1>1, <2>1, <3>1, <3>3 DEF IInv, CellsRecorded
  <2>2. CASE PerCell(c) = "live"
    <3>1. c \in cellMoved
      BY <2>2 DEF PerCell
    <3> QED BY <1>1, <2>2, <3>1 DEF IInv, CellsRecorded
  <2>3. CASE PerCell(c) \notin {"live", "dead"}
    BY <2>3
  <2> QED BY <2>1, <2>2, <2>3
<1> QED BY <1>1, Invariance, PTL

-----------------------------------------------------------------------------
(* Sums.  A sum is a recursive function of its length; what holds of it      *)
(* holds for want of a least length at which it would not.                   *)

\* Numbers are well founded.
LEMMA LeastOf ==
  ASSUME NEW T, T \subseteq Nat, T # {}
  PROVE  \E x \in T : \A y \in T : x <= y
<1>1. \E x \in T : \A y \in T : ~ (<<y, x>> \in OpToRel(<, Nat))
  BY WFMin, NatLessThanWellFounded, Zenon
<1>2. \A x \in Nat, y \in Nat : ~ (<<y, x>> \in OpToRel(<, Nat)) => x <= y
  BY DEF OpToRel
<1> QED
  BY <1>1, <1>2

\* What holds of 0 and fails up to n fails first after a number of which it holds.
LEMMA FirstFailure ==
  ASSUME NEW n \in Nat, NEW bad, bad \subseteq 0 .. n, bad # {}, 0 \notin bad
  PROVE  \E l \in 0 .. n : l \in Nat /\ l \notin bad /\ l + 1 \in bad /\ l + 1 \in 1 .. n
<1>1. PICK m \in bad : \A l \in bad : m <= l
  <2>1. bad \subseteq Nat
    OBVIOUS
  <2> QED
    BY <2>1, LeastOf
<1>2. m \in 1 .. n /\ m - 1 \in 0 .. n /\ m = (m - 1) + 1
  BY <1>1
<1>3. m - 1 \notin bad
  BY <1>1, <1>2
<1> QED
  BY <1>1, <1>2, <1>3

\* The recursion that defines a sum has a solution, and so does what it says.
LEMMA SumStep ==
  ASSUME NEW f
  PROVE  SumTo(f, 0) = 0 /\ \A n \in Nat : SumTo(f, n + 1) = SumTo(f, n) + f[n + 1]
<1> DEFINE Body(g, m) == IF m = 0 THEN 0 ELSE g[m - 1] + f[m]
           sum == CHOOSE g : g = [m \in Nat |-> Body(g, m)]
           Upto(m, g) == g = [n \in 0 .. m |-> Body(g, n)]
<1>1. \A n : SumTo(f, n) = sum[n]
  BY DEF SumTo
<1>2. \E g : Upto(0, g)
  <2> DEFINE g == [n \in 0 .. 0 |-> 0]
  <2>1. Upto(0, g)
    OBVIOUS
  <2> QED
    BY <2>1
<1>3. ASSUME NEW m \in Nat, NEW g, Upto(m, g)
      PROVE  \E h : Upto(m + 1, h)
  <2> DEFINE h == [n \in 0 .. m + 1 |-> IF n = m + 1 THEN Body(g, m + 1) ELSE g[n]]
  <2> HIDE DEF Body
  <2>1. /\ \A n \in 0 .. m + 1 : n = m + 1 \/ n \in 0 .. m
        /\ h[m + 1] = Body(g, m + 1) /\ \A n \in 0 .. m : h[n] = g[n]
    OBVIOUS
  <2>2. \A n \in 0 .. m + 1 : Body(h, n) = Body(g, n)
    <3> SUFFICES ASSUME NEW n \in 0 .. m + 1 PROVE Body(h, n) = Body(g, n)
      OBVIOUS
    <3>1. CASE n = 0
      BY <3>1 DEF Body
    <3>2. CASE n # 0
      <4>1. n - 1 \in 0 .. m
        BY <3>2
      <4>2. h[n - 1] = g[n - 1]
        BY <2>1, <4>1
      <4> QED
        BY <3>2, <4>2 DEF Body
    <3> QED
      BY <3>1, <3>2
  <2>3. \A n \in 0 .. m : g[n] = Body(g, n)
    BY <1>3
  <2>4. \A n \in 0 .. m + 1 : h[n] = Body(h, n)
    BY <2>1, <2>2, <2>3
  <2>5. Upto(m + 1, h)
    BY <2>4
  <2> QED
    BY <2>5
<1>4. \A m \in Nat : \E g : Upto(m, g)
  <2> HIDE DEF Upto
  <2> DEFINE bad == {m \in Nat : ~\E g : Upto(m, g)}
  <2> SUFFICES ASSUME bad # {} PROVE FALSE
    OBVIOUS
  <2>1. PICK m \in bad : \A n \in bad : m <= n
    <3>1. bad \subseteq Nat
      OBVIOUS
    <3> HIDE DEF bad
    <3> QED
      BY <3>1, LeastOf
  <2>2. PICK n \in Nat : m = n + 1
    <3>1. m \in Nat /\ m # 0
      BY <1>2, <2>1
    <3>2. m - 1 \in Nat /\ m = (m - 1) + 1
      BY <3>1
    <3> QED
      BY <3>2
  <2>3. n \notin bad
    BY <2>1, <2>2
  <2> QED
    BY <1>3, <2>1, <2>2, <2>3
<1>5. ASSUME NEW m \in Nat, NEW g, NEW h, Upto(m, g), Upto(m + 1, h)
      PROVE  \A n \in 0 .. m : g[n] = h[n]
  <2> HIDE DEF Body
  <2>1. \A n \in 0 .. m : g[n] = Body(g, n) /\ h[n] = Body(h, n)
    BY <1>5
  <2> DEFINE bad == {n \in 0 .. m : g[n] # h[n]}
  <2> SUFFICES ASSUME bad # {} PROVE FALSE
    OBVIOUS
  <2>2. PICK n \in bad : \A l \in bad : n <= l
    <3>1. bad \subseteq Nat
      OBVIOUS
    <3> HIDE DEF bad
    <3> QED
      BY <3>1, LeastOf
  <2>3. n # 0
    BY <2>1, <2>2 DEF Body
  <2>4. n - 1 \in 0 .. m /\ n - 1 \notin bad
    BY <2>2, <2>3
  <2>5. g[n - 1] = h[n - 1]
    BY <2>4
  <2> QED
    BY <2>1, <2>2, <2>3, <2>5 DEF Body
<1> DEFINE At(m) == CHOOSE g : Upto(m, g)
           total == [m \in Nat |-> At(m)[m]]
<1>6. \A m \in Nat : Upto(m, At(m))
  <2> HIDE DEF Upto
  <2> QED
    BY <1>4
<1>7. \A m \in Nat : total[m] = Body(total, m)
  <2> SUFFICES ASSUME NEW m \in Nat PROVE total[m] = Body(total, m)
    OBVIOUS
  <2> HIDE DEF At
  <2>1. total[m] = Body(At(m), m)
    <3>1. At(m)[m] = Body(At(m), m)
      <4>1. PICK g : g = At(m)
        OBVIOUS
      <4>2. g = [n \in 0 .. m |-> Body(g, n)]
        BY <1>6, <4>1
      <4> HIDE DEF Body
      <4> QED
        BY <4>1, <4>2
    <3> QED
      BY <3>1
  <2>2. CASE m = 0
    BY <2>1, <2>2
  <2>3. CASE m # 0
    <3>1. PICK n \in Nat : m = n + 1 /\ m - 1 = n
      <4>1. m - 1 \in Nat /\ m = (m - 1) + 1
        BY <2>3
      <4> QED
        BY <4>1
    <3>2. At(n)[n] = At(n + 1)[n]
      <4>1. Upto(n, At(n)) /\ Upto(n + 1, At(n + 1)) /\ n \in 0 .. n
        BY <1>6
      <4> HIDE DEF Upto
      <4> QED
        BY <1>5, <4>1
    <3> QED
      BY <2>1, <2>3, <3>1, <3>2
  <2> QED
    BY <2>2, <2>3
<1>8. total = [m \in Nat |-> Body(total, m)]
  <2> HIDE DEF Body
  <2> QED
    BY <1>7
<1>9. sum = [m \in Nat |-> Body(sum, m)]
  <2> HIDE DEF Body, total
  <2> QED
    BY <1>8
<1>10. \A m \in Nat : sum[m] = Body(sum, m)
  <2> HIDE DEF Body
  <2> QED
    BY <1>9
<1>11. sum[0] = 0
  BY <1>10
<1>12. ASSUME NEW n \in Nat
       PROVE  sum[n + 1] = sum[n] + f[n + 1]
  <2>1. n + 1 \in Nat /\ n + 1 # 0 /\ (n + 1) - 1 = n
    OBVIOUS
  <2> HIDE DEF sum
  <2> QED
    BY <1>10, <2>1
<1> HIDE DEF sum
<1> QED
  BY <1>1, <1>11, <1>12

\* A sum of natural numbers is one.
LEMMA SumIsNat ==
  ASSUME NEW n \in Nat, NEW f \in [1 .. n -> Nat]
  PROVE  \A m \in 0 .. n : SumTo(f, m) \in Nat
<1> DEFINE bad == {m \in 0 .. n : SumTo(f, m) \notin Nat}
<1> SUFFICES ASSUME bad # {} PROVE FALSE
  OBVIOUS
<1>1. 0 \notin bad
  <2>1. SumTo(f, 0) = 0
    BY SumStep, Zenon
  <2> QED
    BY <2>1
<1>2. PICK l \in 0 .. n : l \in Nat /\ l \notin bad /\ l + 1 \in bad /\ l + 1 \in 1 .. n
  <2>1. bad \subseteq 0 .. n
    OBVIOUS
  <2> HIDE DEF bad
  <2> QED
    BY <1>1, <2>1, FirstFailure
<1>3. SumTo(f, l + 1) = SumTo(f, l) + f[l + 1]
  BY <1>2, SumStep, Zenon
<1> QED
  BY <1>2, <1>3

\* Where one term is larger by c, so is the sum.
OneRaised(f, g, n, j, c) == g[j] = f[j] + c /\ \A m \in 1 .. n : m # j => g[m] = f[m]

LEMMA SumOfOneMore ==
  ASSUME NEW n \in Nat, NEW f \in [1 .. n -> Nat], NEW g \in [1 .. n -> Nat], NEW j \in 1 .. n, NEW c \in Nat,
         OneRaised(f, g, n, j, c)
  PROVE  SumTo(g, n) = SumTo(f, n) + c
<1>0. g[j] = f[j] + c /\ \A m \in 1 .. n : m # j => g[m] = f[m]
  BY DEF OneRaised
<1> DEFINE extra(m) == IF m < j THEN 0 ELSE c
           bad == {m \in 0 .. n : SumTo(g, m) # SumTo(f, m) + extra(m)}
<1>1. bad = {}
  <2> SUFFICES ASSUME bad # {} PROVE FALSE
    OBVIOUS
  <2>1. 0 \notin bad
    <3>1. SumTo(g, 0) = 0 /\ SumTo(f, 0) = 0 /\ extra(0) = 0
      BY SumStep
    <3> QED
      BY <3>1
  <2>2. PICK l \in 0 .. n : l \in Nat /\ l \notin bad /\ l + 1 \in bad /\ l + 1 \in 1 .. n
    <3>1. bad \subseteq 0 .. n
      OBVIOUS
    <3> HIDE DEF bad
    <3> QED
      BY <2>1, <3>1, FirstFailure
  <2>3. SumTo(f, l + 1) = SumTo(f, l) + f[l + 1] /\ SumTo(g, l + 1) = SumTo(g, l) + g[l + 1]
    BY <2>2, SumStep, Zenon
  <2>4. SumTo(g, l) = SumTo(f, l) + extra(l)
    BY <2>2
  <2>5. SumTo(f, l) \in Nat /\ f[l + 1] \in Nat /\ g[l + 1] \in Nat
    BY <2>2, SumIsNat
  <2>6. g[l + 1] = f[l + 1] + (IF l + 1 = j THEN c ELSE 0)
    BY <1>0, <2>2, <2>5
  <2>7. SumTo(g, l + 1) = SumTo(f, l + 1) + extra(l + 1)
    BY <2>2, <2>3, <2>4, <2>5, <2>6
  <2> QED
    BY <2>2, <2>7
<1>2. n \in 0 .. n /\ extra(n) = c
  OBVIOUS
<1> QED
  BY <1>1, <1>2

\* Larger terms make no smaller sum.
LEMMA SumIsMonotone ==
  ASSUME NEW n \in Nat, NEW f \in [1 .. n -> Nat], NEW g \in [1 .. n -> Nat],
         \A m \in 1 .. n : f[m] <= g[m]
  PROVE  SumTo(f, n) <= SumTo(g, n)
<1> DEFINE bad == {m \in 0 .. n : ~(SumTo(f, m) <= SumTo(g, m))}
<1>1. bad = {}
  <2> SUFFICES ASSUME bad # {} PROVE FALSE
    OBVIOUS
  <2>1. 0 \notin bad
    <3>1. SumTo(g, 0) = 0 /\ SumTo(f, 0) = 0
      BY SumStep
    <3> QED
      BY <3>1
  <2>2. PICK l \in 0 .. n : l \in Nat /\ l \notin bad /\ l + 1 \in bad /\ l + 1 \in 1 .. n
    <3>1. bad \subseteq 0 .. n
      OBVIOUS
    <3> HIDE DEF bad
    <3> QED
      BY <2>1, <3>1, FirstFailure
  <2>3. SumTo(f, l + 1) = SumTo(f, l) + f[l + 1] /\ SumTo(g, l + 1) = SumTo(g, l) + g[l + 1]
    BY <2>2, SumStep, Zenon
  <2>4. SumTo(f, l) \in Nat /\ f[l + 1] \in Nat /\ SumTo(g, l) \in Nat /\ g[l + 1] \in Nat
    BY <2>2, SumIsNat
  <2>5. SumTo(f, l) <= SumTo(g, l) /\ f[l + 1] <= g[l + 1]
    BY <2>2
  <2> QED
    BY <2>2, <2>3, <2>4, <2>5
<1>2. n \in 0 .. n
  OBVIOUS
<1> QED
  BY <1>1, <1>2

\* Nothing adds up to nothing.
LEMMA SumOfZeros ==
  ASSUME NEW n \in Nat, NEW f \in [1 .. n -> Nat], \A m \in 1 .. n : f[m] = 0
  PROVE  SumTo(f, n) = 0
<1> DEFINE bad == {m \in 0 .. n : SumTo(f, m) # 0}
<1>1. bad = {}
  <2> SUFFICES ASSUME bad # {} PROVE FALSE
    OBVIOUS
  <2>1. 0 \notin bad
    <3>1. SumTo(f, 0) = 0
      BY SumStep, Zenon
    <3> QED
      BY <3>1
  <2>2. PICK l \in 0 .. n : l \in Nat /\ l \notin bad /\ l + 1 \in bad /\ l + 1 \in 1 .. n
    <3>1. bad \subseteq 0 .. n
      OBVIOUS
    <3> HIDE DEF bad
    <3> QED
      BY <2>1, <3>1, FirstFailure
  <2>3. SumTo(f, l + 1) = SumTo(f, l) + f[l + 1]
    BY <2>2, SumStep, Zenon
  <2> QED
    BY <2>2, <2>3
<1>2. n \in 0 .. n
  OBVIOUS
<1> QED
  BY <1>1, <1>2

-----------------------------------------------------------------------------
(* What the runs cost. *)

\* The terms of CostOfRuns.
Terms(j, set) == [n \in Ladder(j) |-> IF n \in set THEN Cost(Outcome(j, n).steps) ELSE 0]

\* A set of runs of one input has a price.
LEMMA TermsAreCosts ==
  ASSUME SubjectOK(subject), NEW j \in Inputs, NEW set
  PROVE  /\ Len(subject.runs[j]) \in Nat /\ Ladder(j) = 1 .. Len(subject.runs[j])
         /\ Terms(j, set) \in [1 .. Len(subject.runs[j]) -> Nat]
         /\ CostOfRuns(j, set) = SumTo(Terms(j, set), Len(subject.runs[j]))
         /\ CostOfRuns(j, set) \in Nat
<1>1. PICK len \in Nat : len = Len(subject.runs[j])
  BY Limits
<1>2. Ladder(j) = 1 .. len
  BY <1>1 DEF Ladder
<1>3. Terms(j, set) \in [1 .. len -> Nat]
  <2>1. \A n \in 1 .. len : Cost(Outcome(j, n).steps) \in Nat
    BY <1>2, RunCost
  <2> QED
    BY <1>2, <2>1 DEF Terms
<1>4. CostOfRuns(j, set) = SumTo(Terms(j, set), len)
  BY <1>1 DEF CostOfRuns, Terms
<1>5. SumTo(Terms(j, set), len) \in Nat
  <2>1. PICK f \in [1 .. len -> Nat] : f = Terms(j, set)
    BY <1>3
  <2>2. len \in 0 .. len
    OBVIOUS
  <2> QED
    BY <2>1, <2>2, SumIsNat
<1> QED
  BY <1>1, <1>2, <1>3, <1>4, <1>5

\* One more run costs its own price more.
LEMMA OneMoreRun ==
  ASSUME SubjectOK(subject), NEW j \in Inputs, NEW set, NEW n \in Ladder(j), n \notin set
  PROVE  CostOfRuns(j, set \cup {n}) = CostOfRuns(j, set) + Cost(Outcome(j, n).steps)
<1>1. PICK len \in Nat : len = Len(subject.runs[j]) /\ Ladder(j) = 1 .. len
  BY TermsAreCosts
<1>2. PICK f \in [1 .. len -> Nat] : f = Terms(j, set) /\ CostOfRuns(j, set) = SumTo(f, len)
  BY <1>1, TermsAreCosts
<1>3. PICK g \in [1 .. len -> Nat] : g = Terms(j, set \cup {n}) /\ CostOfRuns(j, set \cup {n}) = SumTo(g, len)
  BY <1>1, TermsAreCosts
<1>4. PICK c \in Nat : c = Cost(Outcome(j, n).steps)
  BY RunCost
<1>5. g[n] = f[n] + c
  <2>1. f[n] = 0 /\ g[n] = c
    BY <1>1, <1>2, <1>3, <1>4 DEF Terms
  <2> QED
    BY <2>1
<1>6. OneRaised(f, g, len, n, c)
  <2>1. \A m \in 1 .. len : m # n => g[m] = f[m]
    BY <1>1, <1>2, <1>3 DEF Terms
  <2> QED
    BY <1>5, <2>1 DEF OneRaised
<1>7. SumTo(g, len) = SumTo(f, len) + c
  <2>1. n \in 1 .. len
    BY <1>1
  <2> QED
    BY <1>6, <2>1, SumOfOneMore
<1> QED
  BY <1>2, <1>3, <1>4, <1>7

\* No set of runs of an input costs more than its ladder.
LEMMA LadderCostsMost ==
  ASSUME SubjectOK(subject), NEW j \in Inputs, NEW set
  PROVE  CostOfRuns(j, set) <= CostOfRuns(j, Ladder(j))
<1>1. PICK len \in Nat : len = Len(subject.runs[j]) /\ Ladder(j) = 1 .. len
  BY TermsAreCosts
<1>2. PICK f \in [1 .. len -> Nat] : f = Terms(j, set) /\ CostOfRuns(j, set) = SumTo(f, len)
  BY <1>1, TermsAreCosts
<1>3. PICK g \in [1 .. len -> Nat] : g = Terms(j, Ladder(j)) /\ CostOfRuns(j, Ladder(j)) = SumTo(g, len)
  BY <1>1, TermsAreCosts
<1>4. \A m \in 1 .. len : f[m] <= g[m]
  <2> SUFFICES ASSUME NEW m \in 1 .. len PROVE f[m] <= g[m]
    OBVIOUS
  <2>1. f[m] \in {0, g[m]} /\ g[m] \in Nat
    BY <1>1, <1>2, <1>3 DEF Terms
  <2> QED
    BY <2>1
<1>5. SumTo(f, len) <= SumTo(g, len)
  BY <1>4, SumIsMonotone
<1> QED
  BY <1>2, <1>3, <1>5

\* The same for all inputs together.
Prices(sets) == [j \in Inputs |-> CostOfRuns(j, sets[j])]

\* So has a set for each input.
LEMMA PricesAreCosts ==
  ASSUME SubjectOK(subject), NEW sets
  PROVE  /\ N \in Nat /\ Inputs = 1 .. N /\ Prices(sets) \in [1 .. N -> Nat]
         /\ CostOfAll(sets) = SumTo(Prices(sets), N) /\ CostOfAll(sets) \in Nat
<1>1. PICK n \in Nat : n = N /\ Inputs = 1 .. n
  BY Limits DEF Inputs
<1>2. Prices(sets) \in [1 .. n -> Nat]
  <2>1. \A j \in Inputs : CostOfRuns(j, sets[j]) \in Nat
    BY TermsAreCosts
  <2> QED
    BY <1>1, <2>1 DEF Prices
<1>3. CostOfAll(sets) = SumTo(Prices(sets), n)
  BY <1>1 DEF CostOfAll, Prices
<1>4. SumTo(Prices(sets), n) \in Nat
  <2>1. PICK f \in [1 .. n -> Nat] : f = Prices(sets)
    BY <1>2
  <2>2. n \in 0 .. n
    OBVIOUS
  <2> QED
    BY <2>1, <2>2, SumIsNat
<1> QED
  BY <1>1, <1>2, <1>3, <1>4

\* One more run of one input costs its own price more over all of them.
LEMMA OneMoreRunOfAll ==
  ASSUME SubjectOK(subject), NEW sets, NEW more, NEW j \in Inputs, NEW n \in Ladder(j), n \notin sets[j],
         more[j] = sets[j] \cup {n}, \A l \in Inputs : l # j => more[l] = sets[l]
  PROVE  CostOfAll(more) = CostOfAll(sets) + Cost(Outcome(j, n).steps)
<1>1. PICK m \in Nat : m = N /\ Inputs = 1 .. m
  BY PricesAreCosts
<1>2. PICK f \in [1 .. m -> Nat] : f = Prices(sets) /\ CostOfAll(sets) = SumTo(f, m)
  BY <1>1, PricesAreCosts
<1>3. PICK g \in [1 .. m -> Nat] : g = Prices(more) /\ CostOfAll(more) = SumTo(g, m)
  BY <1>1, PricesAreCosts
<1>4. PICK c \in Nat : c = Cost(Outcome(j, n).steps)
  BY RunCost
<1>5. g[j] = f[j] + c
  <2>1. CostOfRuns(j, sets[j] \cup {n}) = CostOfRuns(j, sets[j]) + c
    BY <1>4, OneMoreRun
  <2> QED
    BY <1>2, <1>3, <2>1 DEF Prices
<1>6. OneRaised(f, g, m, j, c)
  <2>1. \A l \in 1 .. m : l # j => g[l] = f[l]
    BY <1>1, <1>2, <1>3 DEF Prices
  <2> QED
    BY <1>5, <2>1 DEF OneRaised
<1>7. SumTo(g, m) = SumTo(f, m) + c
  <2>1. j \in 1 .. m
    BY <1>1
  <2> QED
    BY <1>6, <2>1, SumOfOneMore
<1> QED
  BY <1>2, <1>3, <1>4, <1>7

\* No sets of runs cost more than all the ladders.
LEMMA SweepCostsMost ==
  ASSUME SubjectOK(subject), NEW sets
  PROVE  CostOfAll(sets) <= CostOfAll([j \in Inputs |-> Ladder(j)])
<1> DEFINE all == [j \in Inputs |-> Ladder(j)]
<1>1. PICK m \in Nat : m = N /\ Inputs = 1 .. m
  BY PricesAreCosts
<1>2. PICK f \in [1 .. m -> Nat] : f = Prices(sets) /\ CostOfAll(sets) = SumTo(f, m)
  BY <1>1, PricesAreCosts
<1>3. PICK g \in [1 .. m -> Nat] : g = Prices(all) /\ CostOfAll(all) = SumTo(g, m)
  BY <1>1, PricesAreCosts
<1>4. \A l \in 1 .. m : f[l] <= g[l]
  <2> SUFFICES ASSUME NEW l \in 1 .. m PROVE f[l] <= g[l]
    OBVIOUS
  <2>1. CostOfRuns(l, sets[l]) <= CostOfRuns(l, Ladder(l))
    BY <1>1, LadderCostsMost
  <2>2. f[l] = CostOfRuns(l, sets[l]) /\ g[l] = CostOfRuns(l, Ladder(l))
    BY <1>1, <1>2, <1>3 DEF Prices
  <2> QED
    BY <2>1, <2>2
<1>5. SumTo(f, m) <= SumTo(g, m)
  BY <1>4, SumIsMonotone
<1> QED
  BY <1>2, <1>3, <1>5

-----------------------------------------------------------------------------
(* What was charged, and what a cheap program gets. *)

\* A step performs no run, or one that was not performed before.
NoRun ==
  /\ subject' = subject /\ Unprobed
  /\ \A j \in Inputs : Performed(j)' = Performed(j)

NewRun ==
  /\ subject' = subject /\ i \in Inputs /\ k \in Ladder(i) /\ k \notin Performed(i)
  /\ Probe
  /\ \A j \in Inputs : Performed(j)' = IF j = i THEN Performed(j) \cup {k} ELSE Performed(j)

\* No run is repeated, in either pass or by the second after the first.
LEMMA RunsOfSteps ==
  ASSUME IInv
  PROVE  /\ SkipInput \/ ExhaustedInput \/ EndLadder \/ BeginInput \/ StartPass2 \/ CutShort
              \/ Finish \/ ResumeLadder \/ EndRest \/ UNCHANGED vars => NoRun
         /\ ProbeInput \/ ProbeRest => NewRun
<1>1. /\ TypeOK /\ Cursors /\ N \in Nat /\ Inputs = 1 .. N /\ i \in 1 .. N + 1 /\ k \in Nat
      /\ \A j \in Inputs : Len(subject.runs[j]) \in Nat /\ tried[j] \in Nat
  BY InSweep
<1>2. ASSUME SkipInput \/ ExhaustedInput \/ EndLadder \/ BeginInput PROVE NoRun
  <2>1. pc = "pass1" /\ pc' = pc /\ tried' = tried /\ subject' = subject /\ Unprobed
    BY <1>2 DEF SkipInput, ExhaustedInput, EndLadder, BeginInput, InPass1
  <2> QED
    BY <2>1 DEF NoRun, Performed
<1>3. ASSUME ProbeInput PROVE NewRun
  <2>1. /\ pc = "pass1" /\ pc' = pc /\ subject' = subject /\ i \in Inputs /\ k \in Ladder(i)
        /\ tried' = [tried EXCEPT ![i] = @ + 1] /\ Probe
    BY <1>3 DEF ProbeInput, InPass1
  <2>2. k > 0 /\ tried[i] = k - 1
    BY <1>1, <2>1 DEF Cursors, Ladder
  <2>3. tried'[i] = k /\ \A j \in Inputs : j # i => tried'[j] = tried[j]
    BY <1>1, <2>1, <2>2 DEF TypeOK
  <2>4. \A j \in Inputs : Performed(j) = 1 .. tried[j] /\ Performed(j)' = 1 .. tried'[j]
    BY <2>1 DEF Performed
  <2>5. 1 .. k = (1 .. k - 1) \cup {k} /\ k \notin 1 .. k - 1
    BY <1>1, <2>2
  <2> QED
    BY <2>1, <2>2, <2>3, <2>4, <2>5 DEF NewRun
<1>4. ASSUME StartPass2 PROVE NoRun
  <2>1. /\ pc = "pass1" /\ i = N + 1 /\ pc' = "pass2" /\ i' = 1 /\ k' = k
        /\ tried' = tried /\ subject' = subject /\ Unprobed
    BY <1>4 DEF StartPass2
  <2>2. k = 0
    BY <1>1, <2>1 DEF Cursors
  <2> QED
    BY <1>1, <2>1, <2>2 DEF NoRun, Performed
<1>5. ASSUME CutShort \/ Finish PROVE NoRun
  <2>1. /\ pc = "pass2" /\ pc' = "done" /\ i' = i /\ k' = k
        /\ tried' = tried /\ subject' = subject /\ Unprobed
    BY <1>5 DEF CutShort, Finish, InPass2
  <2> QED
    BY <2>1 DEF NoRun, Performed, Ladder
<1>6. ASSUME ResumeLadder PROVE NoRun
  <2>1. /\ pc = "pass2" /\ pc' = pc /\ i \in Inputs /\ i' = i /\ k = 0 /\ k' = tried[i] + 1
        /\ tried' = tried /\ subject' = subject /\ Unprobed
    BY <1>6 DEF ResumeLadder, InPass2
  <2> QED
    BY <1>1, <2>1 DEF NoRun, Performed, Ladder
<1>7. ASSUME EndRest PROVE NoRun
  <2>1. /\ pc = "pass2" /\ pc' = pc /\ i \in Inputs /\ i' = i + 1 /\ k = Len(subject.runs[i]) + 1 /\ k' = 0
        /\ tried' = tried /\ subject' = subject /\ Unprobed
    BY <1>7 DEF EndRest, InPass2
  <2>2. ASSUME NEW j \in Inputs PROVE Performed(j)' = Performed(j)
    <3>1. j \in Nat /\ i \in Nat /\ Len(subject.runs[i]) \in Nat /\ Ladder(j)' = Ladder(j)
      BY <1>1, <2>1 DEF Ladder
    <3>2. CASE j = i
      BY <2>1, <3>1, <3>2 DEF Performed, Ladder
    <3>3. CASE j # i
      BY <2>1, <3>1, <3>3 DEF Performed
    <3> QED
      BY <3>2, <3>3
  <2> QED
    BY <2>1, <2>2 DEF NoRun
<1>8. ASSUME ProbeRest PROVE NewRun
  <2>1. /\ pc = "pass2" /\ pc' = pc /\ subject' = subject /\ i \in Inputs /\ i' = i
        /\ k \in Ladder(i) /\ k' = k + 1 /\ tried' = tried /\ Probe
    BY <1>8 DEF ProbeRest, InPass2
  <2>2. k > 0
    BY <1>1, <2>1 DEF Ladder
  <2>3. Performed(i) = 1 .. k - 1 /\ Performed(i)' = 1 .. k
    BY <1>1, <2>1, <2>2 DEF Performed
  <2>4. \A j \in Inputs : j # i => Performed(j)' = Performed(j)
    BY <2>1 DEF Performed, Ladder
  <2>5. 1 .. k = (1 .. k - 1) \cup {k} /\ k \notin 1 .. k - 1
    BY <1>1, <2>2
  <2> QED
    BY <2>1, <2>3, <2>4, <2>5 DEF NewRun
<1>9. ASSUME UNCHANGED vars PROVE NoRun
  BY <1>9 DEF vars, NoRun, Unprobed, Performed, Ladder
<1> QED
  BY <1>2, <1>3, <1>4, <1>5, <1>6, <1>7, <1>8, <1>9

LEMMA EachRunIsNew == ASSUME IInv, [Next]_vars PROVE NoRun \/ NewRun
BY RunsOfSteps DEF Next

\* The price of a set of runs depends on the subject alone.
LEMMA SamePrices ==
  ASSUME subject' = subject, NEW sets
  PROVE  CostOfAll(sets)' = CostOfAll(sets)
<1>1. /\ N' = N /\ Inputs' = Inputs /\ \A j : Ladder(j)' = Ladder(j)
      /\ \A s : Cost(s)' = Cost(s) /\ \A j, n : Outcome(j, n)' = Outcome(j, n)
  BY SameSubject
<1>2. \A j, n : Cost(Outcome(j, n).steps)' = Cost(Outcome(j, n).steps)
  BY <1>1 DEF Cost
<1>3. \A j, set : CostOfRuns(j, set)' = CostOfRuns(j, set)
  BY <1>1, <1>2 DEF CostOfRuns
<1> QED
  BY <1>1, <1>3 DEF CostOfAll

\* A step is charged for the run it adds, if any.
LEMMA WorkStep == ASSUME IInv, WorkAccounted, [Next]_vars PROVE WorkAccounted'
<1>1. PICK sets : sets = [j \in Inputs |-> Performed(j)]
  OBVIOUS
<1>2. PICK more : more = [j \in Inputs |-> Performed(j)']
  OBVIOUS
<1>3. SubjectOK(subject) /\ spent = CostOfAll(sets)
  BY <1>1 DEF IInv, TypeOK, WorkAccounted
<1>4. ASSUME subject' = subject, spent' = CostOfAll(more)
      PROVE  WorkAccounted'
  <2>1. more = [j \in Inputs |-> Performed(j)]'
    BY <1>2, <1>4, SameSubject
  <2>2. spent' = CostOfAll(more)'
    BY <1>4, SamePrices
  <2> QED
    BY <2>1, <2>2 DEF WorkAccounted
<1>5. CASE NoRun
  <2>1. more = sets
    BY <1>1, <1>2, <1>5 DEF NoRun
  <2> QED
    BY <1>3, <1>4, <1>5, <2>1 DEF NoRun, Unprobed
<1>6. CASE NewRun
  <2>1. /\ subject' = subject /\ i \in Inputs /\ k \in Ladder(i) /\ k \notin sets[i]
        /\ more[i] = sets[i] \cup {k} /\ \A l \in Inputs : l # i => more[l] = sets[l]
        /\ spent' = spent + Cost(Outcome(i, k).steps)
    BY <1>1, <1>2, <1>6 DEF NewRun, Probe
  <2>2. CostOfAll(more) = CostOfAll(sets) + Cost(Outcome(i, k).steps)
    BY <1>3, <2>1, OneMoreRunOfAll
  <2> QED
    BY <1>3, <1>4, <2>1, <2>2
<1> QED
  BY <1>5, <1>6, EachRunIsNew

\* Nothing was performed, and nothing charged.
LEMMA WorkStart == ASSUME Init PROVE WorkAccounted
<1>1. IInv /\ spent = 0
  BY InitIInv DEF Init
<1>2. SubjectOK(subject) /\ N \in Nat /\ Inputs = 1 .. N
  BY <1>1, InSweep DEF TypeOK
<1>3. \A j \in Inputs : Performed(j) = {}
  <2>1. subject.runs = <<>> <=> N = 0
    BY <1>2 DEF SubjectOK, N
  <2> QED
    BY <1>2, <2>1 DEF Init, Performed
<1>4. \A j \in Inputs : CostOfRuns(j, {}) = 0
  <2> SUFFICES ASSUME NEW j \in Inputs PROVE CostOfRuns(j, {}) = 0
    OBVIOUS
  <2>1. PICK len \in Nat : len = Len(subject.runs[j]) /\ Ladder(j) = 1 .. len
    BY <1>2, TermsAreCosts
  <2>2. PICK f \in [1 .. len -> Nat] : f = Terms(j, {}) /\ CostOfRuns(j, {}) = SumTo(f, len)
    BY <1>2, <2>1, TermsAreCosts
  <2>3. \A n \in 1 .. len : f[n] = 0
    BY <2>1, <2>2 DEF Terms
  <2> QED
    BY <2>2, <2>3, SumOfZeros
<1>5. PICK m \in Nat : m = N /\ Inputs = 1 .. m
  BY <1>2
<1>6. PICK sets : sets = [j \in Inputs |-> Performed(j)]
  OBVIOUS
<1>7. PICK f \in [1 .. m -> Nat] : f = Prices(sets) /\ CostOfAll(sets) = SumTo(f, m)
  BY <1>2, <1>5, PricesAreCosts
<1>8. \A j \in 1 .. m : f[j] = 0
  BY <1>3, <1>4, <1>5, <1>6, <1>7 DEF Prices
<1> QED
  BY <1>1, <1>6, <1>7, <1>8, SumOfZeros DEF WorkAccounted

\* A program whose whole sweep fits in the budget meets its end nowhere.
Cheap == CostOfAll([j \in Inputs |-> Ladder(j)]) < Budget

CheapSoFar == Cheap => swept /\ \A j \in DOMAIN perInput : perInput[j] # "indeterminate"

\* As long as only runs are charged, the budget of such a program is not spent.
LEMMA CheapIsWithin ==
  ASSUME IInv, WorkAccounted, Cheap
  PROVE  spent < Budget
<1>1. SubjectOK(subject) /\ Budget \in Nat
  BY Limits DEF IInv, TypeOK
<1>2. PICK sets : sets = [j \in Inputs |-> Performed(j)]
  OBVIOUS
<1>3. PICK all : all = [j \in Inputs |-> Ladder(j)]
  OBVIOUS
<1>4. CostOfAll(sets) <= CostOfAll(all) /\ CostOfAll(sets) \in Nat /\ CostOfAll(all) \in Nat
  BY <1>1, <1>3, SweepCostsMost, PricesAreCosts
<1>5. spent = CostOfAll(sets) /\ CostOfAll(all) < Budget
  BY <1>2, <1>3 DEF WorkAccounted, Cheap
<1> QED
  BY <1>1, <1>4, <1>5

\* So none of the three actions that give up can happen.
LEMMA CheapStep == ASSUME IInv, WorkAccounted, CheapSoFar, [Next]_vars PROVE CheapSoFar'
<1> SUFFICES ASSUME Cheap' PROVE (swept /\ \A j \in DOMAIN perInput : perInput[j] # "indeterminate")'
  BY DEF CheapSoFar
<1>1. subject' = subject
  BY EachRunIsNew DEF NoRun, NewRun
<1>2. Cheap
  <2>1. PICK all : all = [j \in Inputs |-> Ladder(j)]
    OBVIOUS
  <2>2. all = [j \in Inputs |-> Ladder(j)]' /\ Budget' = Budget /\ CostOfAll(all)' = CostOfAll(all)
    BY <1>1, <2>1, SameSubject, SamePrices
  <2> QED
    BY <2>1, <2>2 DEF Cheap
<1>3. spent < Budget /\ spent \in Nat /\ Budget \in Nat
  BY <1>2, CheapIsWithin, Limits DEF IInv, TypeOK
<1>4. swept /\ \A j \in DOMAIN perInput : perInput[j] # "indeterminate"
  BY <1>2 DEF CheapSoFar
<1>5. ~SkipInput /\ ~ExhaustedInput /\ ~CutShort
  BY <1>3 DEF SkipInput, ExhaustedInput, CutShort
<1>6. swept' = swept
  BY <1>5 DEF Next, BeginInput, ProbeInput, EndLadder, StartPass2, ResumeLadder, ProbeRest, EndRest, Finish,
              vars
<1>7. perInput' = perInput \/ \E v \in {"live", "guarded", "dead"} : perInput' = Append(perInput, v)
  BY <1>5 DEF Next, BeginInput, ProbeInput, EndLadder, StartPass2, ResumeLadder, ProbeRest, EndRest, Finish,
              vars, Conclude
<1>8. ASSUME NEW v \in {"live", "guarded", "dead"}, perInput' = Append(perInput, v)
      PROVE  \A j \in DOMAIN perInput' : perInput'[j] # "indeterminate"
  <2>1. PICK n \in Nat : n = Len(perInput) /\ DOMAIN perInput = 1 .. n
    BY DEF IInv, TypeOK
  <2>2. /\ DOMAIN perInput' = 1 .. n + 1 /\ perInput'[n + 1] = v
        /\ \A j \in 1 .. n : perInput'[j] = perInput[j]
    BY <1>8, <2>1 DEF IInv, TypeOK
  <2>3. \A j \in 1 .. n + 1 : j = n + 1 \/ j \in 1 .. n
    BY <2>1
  <2> QED
    BY <1>4, <2>1, <2>2, <2>3
<1> QED
  BY <1>4, <1>6, <1>7, <1>8

\* Whatever the program and the limits, what was charged is the price of the
\* runs performed, each of them once (verify.py:289, 349).
THEOREM WorkIsAccounted == Spec => []WorkAccounted
<1> QED
  BY Invariance, WorkStart, WorkStep, PTL DEF Spec

\* A program whose whole sweep fits in the budget is decided: every input, and
\* every cell if any run completed (verify.py:141).
THEOREM CheapProgramsAreDecided == Spec => []CheapProgramsDecided
<1>1. Init => CheapSoFar
  BY DEF Init, CheapSoFar
<1>2. ASSUME CheapSoFar PROVE CheapProgramsDecided
  <2> SUFFICES ASSUME Cheap
               PROVE  /\ "indeterminate" \notin Verdicts(perInput)
                      /\ ran => \A c \in subject.cells : PerCell(c) # "indeterminate"
    BY DEF CheapProgramsDecided, Cheap
  <2>1. swept /\ \A j \in DOMAIN perInput : perInput[j] # "indeterminate"
    BY <1>2 DEF CheapSoFar
  <2> QED
    BY <2>1 DEF Verdicts, PerCell
<1> QED
  BY <1>1, <1>2, Invariance, WorkIsAccounted, CheapStep, PTL DEF Spec
-----------------------------------------------------------------------------
(* The probe keeps its promise. *)

\* What the locals of both passes say of the runs performed: the cells they
\* moved, whether one completed, and that nothing was given up yet.
Recorded ==
  /\ \A c : c \in cellMoved <=>
       \E j \in Inputs : \E n \in Performed(j) : ~Outcome(j, n).traps /\ c \in Outcome(j, n).moved
  /\ ran <=> \E j \in Inputs : \E n \in Performed(j) : ~Outcome(j, n).traps
  /\ pc # "done" => swept /\ N # 0

\* A run is recorded when it is performed, and only then.
LEMMA RecordedStep == ASSUME IInv, Recorded, [Next]_vars PROVE Recorded'
<1>1. pc' # "done" => pc # "done" /\ swept' = swept
  BY DEF IInv, TypeOK, Next, vars, SkipInput, BeginInput, ProbeInput, ExhaustedInput, EndLadder,
         StartPass2, CutShort, ResumeLadder, ProbeRest, EndRest, Finish
<1>2. subject' = subject
  BY EachRunIsNew DEF NoRun, NewRun
<1>3. N' = N /\ Inputs' = Inputs /\ \A j, n : Outcome(j, n)' = Outcome(j, n)
  BY <1>2, SameSubject
<1>4. (pc # "done" => swept /\ N # 0)'
  BY <1>1, <1>3 DEF Recorded
<1>5. CASE NoRun
  <2>1. /\ ran' = ran /\ cellMoved' = cellMoved
        /\ \A j \in Inputs : Performed(j)' = Performed(j)
    BY <1>5 DEF NoRun, Unprobed
  <2> QED BY <1>3, <1>4, <2>1 DEF Recorded
<1>6. CASE NewRun
  <2>1. /\ i \in Inputs
        /\ \A j \in Inputs : Performed(j)' = IF j = i THEN Performed(j) \cup {k} ELSE Performed(j)
    BY <1>6 DEF NewRun
  <2>2. /\ ran' = (ran \/ ~Outcome(i, k).traps)
        /\ cellMoved' = IF Outcome(i, k).traps THEN cellMoved
                        ELSE cellMoved \cup Outcome(i, k).moved
    BY <1>6 DEF NewRun, Probe
  <2>3. (\A c : c \in cellMoved <=>
           \E j \in Inputs : \E n \in Performed(j) :
              ~Outcome(j, n).traps /\ c \in Outcome(j, n).moved)'
    BY <1>3, <2>1, <2>2 DEF Recorded
  <2>4. (ran <=> \E j \in Inputs : \E n \in Performed(j) : ~Outcome(j, n).traps)'
    BY <1>3, <2>1, <2>2 DEF Recorded
  <2> QED BY <1>4, <2>3, <2>4 DEF Recorded
<1> QED BY <1>5, <1>6, EachRunIsNew

\* Nothing is recorded before the first run.
LEMMA RecordedStart == ASSUME Init PROVE Recorded /\ \A j \in Inputs : Performed(j) = {}
<1>1. SubjectOK(subject) /\ N \in Nat /\ Inputs = 1 .. N
  BY InitIInv, InSweep DEF IInv, TypeOK
<1>2. subject.runs = <<>> <=> N = 0
  BY <1>1 DEF SubjectOK, N
<1>3. \A j \in Inputs : Performed(j) = {}
  BY <1>1, <1>2 DEF Init, Performed
<1> QED BY <1>2, <1>3 DEF Init, Recorded

\* The promise is made of the subject as it is.
LEMMA SameShown ==
  ASSUME subject' = subject
  PROVE  Shown' = Shown /\ Budget' = Budget /\ subject.cells' = subject.cells
<1>1. /\ Inputs' = Inputs /\ Budget' = Budget
      /\ \A j : Ladder(j)' = Ladder(j)
      /\ \A j, n : Outcome(j, n)' = Outcome(j, n)
      /\ \A m : Cost(m)' = Cost(m)
  BY SameSubject
<1>2. \A j, n : Seen(j, n)' = Seen(j, n)
  BY <1>1 DEF Seen, Cost
<1> QED BY <1>1, <1>2 DEF Shown

\* Its ladders are the ladders, its runs the runs.
LEMMA ShownFacts ==
  /\ DOMAIN Shown = Inputs
  /\ \A j \in Inputs : Promise!Ladder(j) = {<<j, n>> : n \in Ladder(j)}
  /\ Promise!Runs = UNION {{<<j, n>> : n \in Ladder(j)} : j \in Inputs}
  /\ \A j \in Inputs : \A n \in Ladder(j) :
       /\ Promise!Seen(<<j, n>>).cost = Cost(Outcome(j, n).steps)
       /\ Promise!Completes(<<j, n>>) <=> ~Outcome(j, n).traps
       /\ Promise!MovesAny(<<j, n>>) <=> Moves(j, n)
       /\ \A c : Promise!Moves(<<j, n>>, c) <=> ~Outcome(j, n).traps /\ c \in Outcome(j, n).moved
<1>1. DOMAIN Shown = Inputs
  BY DEF Shown
<1>2. ASSUME NEW j \in Inputs PROVE DOMAIN Shown[j] = Ladder(j)
  BY DEF Shown
<1>3. \A j \in Inputs : Promise!Ladder(j) = {<<j, n>> : n \in Ladder(j)}
  BY <1>2 DEF Promise!Ladder
<1>4. Promise!Runs = UNION {{<<j, n>> : n \in Ladder(j)} : j \in Inputs}
  BY <1>1, <1>3 DEF Promise!Runs
<1>5. ASSUME NEW j \in Inputs, NEW n \in Ladder(j)
      PROVE  /\ Promise!Seen(<<j, n>>).cost = Cost(Outcome(j, n).steps)
             /\ Promise!Seen(<<j, n>>).traps = Outcome(j, n).traps
             /\ Promise!Seen(<<j, n>>).moved = Outcome(j, n).moved
  BY DEF Promise!Seen, Shown, Seen
<1>6. \A j \in Inputs : \A n \in Ladder(j) :
        /\ Promise!Completes(<<j, n>>) <=> ~Outcome(j, n).traps
        /\ Promise!MovesAny(<<j, n>>) <=> Moves(j, n)
        /\ \A c : Promise!Moves(<<j, n>>, c) <=> ~Outcome(j, n).traps /\ c \in Outcome(j, n).moved
  BY <1>5 DEF Promise!Completes, Promise!MovesAny, Promise!Moves, Moves
<1> QED BY <1>1, <1>3, <1>4, <1>5, <1>6

\* Only runs of the ladder are ever performed.
LEMMA PerformedIsOffered ==
  ASSUME IInv, pc # "done", NEW j \in Inputs
  PROVE  Performed(j) \subseteq Ladder(j)
<1>1. /\ N \in Nat /\ Inputs = 1 .. N /\ i \in 1 .. N + 1 /\ k \in Nat
      /\ Len(subject.runs[j]) \in Nat /\ tried[j] \in Nat /\ tried[j] <= Len(subject.runs[j])
  BY InSweep DEF IInv, Cursors
<1>2. CASE j = i
  BY <1>1, <1>2 DEF IInv, Performed, Ladder, Cursors
<1>3. CASE j # i
  BY <1>1, <1>3 DEF Performed, Ladder
<1> QED BY <1>2, <1>3

\* The runs of one input, told apart by their numbers.
Pairs(j, numbers) == {<<j, n>> : n \in numbers}

LEMMA PairsOf ==
  ASSUME NEW j, NEW part, NEW whole, part \subseteq whole
  PROVE  /\ Pairs(j, whole) \cap Pairs(j, part) = Pairs(j, part)
         /\ Pairs(j, part) = Pairs(j, whole) <=> part = whole
         /\ Pairs(j, part) = {} <=> part = {}
<1>1. \A n, m : <<j, n>> = <<j, m>> => n = m
  OBVIOUS
<1>2. Pairs(j, part) = Pairs(j, whole) => part = whole
  <2> SUFFICES ASSUME Pairs(j, part) = Pairs(j, whole), NEW n \in whole
               PROVE  n \in part
    OBVIOUS
  <2>1. <<j, n>> \in Pairs(j, part)
    BY DEF Pairs
  <2> QED BY <1>1, <2>1 DEF Pairs
<1> QED BY <1>2 DEF Pairs

\* The runs of one input among those performed.
LEMMA PerformedOf ==
  ASSUME NEW sets, NEW j \in Inputs
  PROVE  Pairs(j, Ladder(j)) \cap UNION {Pairs(l, sets[l]) : l \in Inputs}
           = Pairs(j, Ladder(j)) \cap Pairs(j, sets[j])
<1>1. \A l, n, m : <<j, n>> = <<l, m>> => l = j /\ n = m
  OBVIOUS
<1> QED BY <1>1 DEF Pairs

\* An answer the runs performed warrant, given for the input at hand.
LEMMA AnswerGiven ==
  ASSUME IInv, pc = "pass1", NEW j \in Inputs, j = i, subject' = subject,
         NEW v \in {"live", "guarded", "dead", "indeterminate"},
         perInput' = Append(perInput, v),
         Performed(j)' \subseteq Ladder(j),
         \/ v = "live" /\ \E n \in Performed(j)' : Moves(j, n)
         \/ /\ v = "guarded" /\ Performed(j)' = Ladder(j)
            /\ \A n \in Ladder(j) : ~Moves(j, n)
            /\ \E n \in Ladder(j) : Outcome(j, n).traps
         \/ /\ v = "dead" /\ Performed(j)' = Ladder(j)
            /\ \A n \in Ladder(j) : ~Outcome(j, n).traps /\ ~Moves(j, n)
         \/ /\ v = "indeterminate" /\ spent' >= Budget
            /\ \A n \in Performed(j)' : ~Moves(j, n)
            /\ Performed(j)' = Ladder(j) => Performed(j)' = {}
  PROVE  Promise!Answer(j)
<1>1. PICK runs : runs = Performed(j)' /\ runs \subseteq Ladder(j)
  OBVIOUS
<1>2. PICK performed : performed = Pairs(j, runs)
  OBVIOUS
<1>p. Promise!Ladder(j) = Pairs(j, Ladder(j))
  BY ShownFacts DEF Pairs
<1>3. Promise!Ladder(j) \cap RunsDone' = performed
  <2>1. PICK sets : sets = [l \in Inputs |-> Performed(l)']
    OBVIOUS
  <2>2. RunsDone' = UNION {Pairs(l, sets[l]) : l \in Inputs}
    <3>1. Inputs' = Inputs /\ \A l \in Inputs : sets[l] = Performed(l)'
      BY <2>1, SameSubject
    <3>2. \A r : r \in RunsDone' <=> \E l \in Inputs : \E n \in sets[l] : r = <<l, n>>
      BY <3>1 DEF RunsDone
    <3> QED BY <3>2 DEF Pairs
  <2>3. sets[j] = runs
    BY <1>1, <2>1
  <2>4. Pairs(j, Ladder(j)) \cap Pairs(j, runs) = Pairs(j, runs)
    BY <1>1, PairsOf
  <2> QED BY <1>2, <1>p, <2>2, <2>3, <2>4, PerformedOf
<1>4. /\ performed = Promise!Ladder(j) <=> runs = Ladder(j)
      /\ performed = {} <=> runs = {}
  BY <1>1, <1>2, <1>p, PairsOf
<1>5. \A n \in runs : /\ <<j, n>> \in performed
                      /\ Promise!Completes(<<j, n>>) <=> ~Outcome(j, n).traps
                      /\ Promise!MovesAny(<<j, n>>) <=> Moves(j, n)
  BY <1>1, <1>2, ShownFacts DEF Pairs
<1>6. \A r \in performed : \E n \in runs : r = <<j, n>>
  BY <1>2 DEF Pairs
<1>7. Promise!Warranted(j, v)
  <2>1. \/ v = "live" /\ \E n \in runs : Moves(j, n)
        \/ /\ v = "guarded" /\ runs = Ladder(j)
           /\ \A n \in runs : ~Moves(j, n)
           /\ \E n \in runs : Outcome(j, n).traps
        \/ /\ v = "dead" /\ runs = Ladder(j)
           /\ \A n \in runs : ~Outcome(j, n).traps /\ ~Moves(j, n)
        \/ /\ v = "indeterminate" /\ spent' >= Budget
           /\ \A n \in runs : ~Moves(j, n)
           /\ runs = Ladder(j) => runs = {}
    BY <1>1
  <2>2. \/ v = "live" /\ \E r \in performed : Promise!MovesAny(r)
        \/ /\ v = "guarded" /\ performed = Promise!Ladder(j)
           /\ \A r \in performed : ~Promise!MovesAny(r)
           /\ \E r \in performed : ~Promise!Completes(r)
        \/ /\ v = "dead" /\ performed = Promise!Ladder(j)
           /\ \A r \in performed : Promise!Completes(r) /\ ~Promise!MovesAny(r)
        \/ /\ v = "indeterminate" /\ spent' >= Budget
           /\ \A r \in performed : ~Promise!MovesAny(r)
           /\ performed = Promise!Ladder(j) => performed = {}
    BY <1>4, <1>5, <1>6, <2>1
  <2> QED BY <1>3, <2>2 DEF Promise!Warranted
<1>8. PICK m \in Nat : m = Len(perInput) /\ m + 1 = j /\ DOMAIN perInput = 1 .. m
  <2>1. Len(perInput) = i - 1 /\ i \in Nat
    BY InSweep DEF IInv, TypeOK
  <2> QED BY <2>1 DEF IInv, TypeOK
<1>9. perInput' = [l \in DOMAIN perInput \cup {j} |-> IF l = j THEN v ELSE perInput[l]]
  <2>1. (1 .. m) \cup {j} = 1 .. m + 1
    BY <1>8
  <2>2. PICK S : perInput \in Seq(S) /\ v \in S
    BY DEF IInv, TypeOK
  <2>3. /\ perInput' \in Seq(S) /\ Len(perInput') = m + 1 /\ perInput'[m + 1] = v
        /\ \A l \in 1 .. m : perInput'[l] = perInput[l]
    BY <1>8, <2>2
  <2>4. ASSUME NEW q \in Seq(S), Len(q) = m + 1 PROVE q = [l \in 1 .. m + 1 |-> q[l]]
    BY <2>4
  <2>5. perInput' = [l \in 1 .. m + 1 |-> perInput'[l]]
    BY <2>3, <2>4
  <2> QED BY <1>8, <2>1, <2>3, <2>5
<1>10. j \in DOMAIN Shown \ DOMAIN perInput
  BY <1>8, ShownFacts
<1> QED BY <1>7, <1>9, <1>10 DEF Promise!Answer

\* A step that performs no run shows none.
LEMMA NoneShown == ASSUME NoRun PROVE RunsDone' = RunsDone /\ spent' = spent
<1>1. Inputs' = Inputs /\ spent' = spent /\ \A j \in Inputs : Performed(j)' = Performed(j)
  BY SameSubject DEF NoRun, Unprobed
<1>2. \A r : r \in RunsDone' <=> r \in RunsDone
  BY <1>1 DEF RunsDone
<1> QED BY <1>1, <1>2

\* A run that is performed was not performed before, and is paid for.
LEMMA RunShown ==
  ASSUME IInv, NewRun, NEW j \in Inputs, j = i, NEW n \in Ladder(j), n = k
  PROVE  Promise!Perform(<<j, n>>)
<1>1. /\ n \notin Performed(j) /\ subject' = subject
      /\ spent < Budget /\ spent' = spent + Cost(Outcome(j, n).steps)
      /\ \A l \in Inputs : Performed(l)' = IF l = j THEN Performed(l) \cup {n} ELSE Performed(l)
  BY DEF NewRun, Probe
<1>2. Inputs' = Inputs
  BY <1>1, SameSubject
<1>3. \A l, m : <<l, m>> = <<j, n>> => l = j /\ m = n
  OBVIOUS
<1>4. <<j, n>> \in Promise!Runs \ RunsDone
  <2>1. <<j, n>> \in Promise!Runs
    BY ShownFacts
  <2>2. <<j, n>> \notin RunsDone
    BY <1>1, <1>3 DEF RunsDone
  <2> QED BY <2>1, <2>2
<1>5. \A r : r \in RunsDone' <=> r \in RunsDone \/ r = <<j, n>>
  BY <1>1, <1>2, <1>3 DEF RunsDone
<1>6. Promise!Seen(<<j, n>>).cost = Cost(Outcome(j, n).steps)
  BY ShownFacts
<1> QED BY <1>1, <1>4, <1>5, <1>6 DEF Promise!Perform

\* The verdict on the program is the strongest answer given.
LEMMA StrongestIsReported ==
  ASSUME IInv, pc = "pass2", N # 0
  PROVE  Weakest(Verdicts(perInput)) \in Promise!Strongest
<1>1. /\ perInput \in Seq({"live", "guarded", "dead", "indeterminate"})
      /\ Len(perInput) = N /\ N \in Nat
  BY InSweep DEF IInv, TypeOK
<1>2. \A v : Promise!Given(v) <=> v \in Verdicts(perInput)
  BY DEF Promise!Given, Verdicts
<1>3. perInput[1] \in {"live", "guarded", "dead", "indeterminate"} /\ 1 \in DOMAIN perInput
  BY <1>1
<1>4. perInput[1] \in Verdicts(perInput)
  BY <1>3 DEF Verdicts
<1>5. /\ Promise!Ranked[1] = "live" /\ Promise!Ranked[2] = "indeterminate"
      /\ Promise!Ranked[3] = "guarded" /\ Promise!Ranked[4] = "dead"
  BY DEF Promise!Ranked
<1>6. ASSUME NEW n \in 1 .. 4, Promise!Given(Promise!Ranked[n]),
             \A l \in 1 .. n - 1 : ~Promise!Given(Promise!Ranked[l])
      PROVE  Promise!Ranked[n] \in Promise!Strongest
  BY <1>6 DEF Promise!Strongest
<1>7. CASE "live" \in Verdicts(perInput)
  BY <1>2, <1>5, <1>6, <1>7 DEF Weakest
<1>8. CASE "live" \notin Verdicts(perInput) /\ "indeterminate" \in Verdicts(perInput)
  <2>1. \A l \in 1 .. 1 : ~Promise!Given(Promise!Ranked[l])
    BY <1>2, <1>5, <1>8
  <2> QED BY <1>2, <1>5, <1>6, <1>8, <2>1 DEF Weakest
<1>9. CASE /\ "live" \notin Verdicts(perInput) /\ "indeterminate" \notin Verdicts(perInput)
           /\ "guarded" \in Verdicts(perInput)
  <2>1. \A l \in 1 .. 2 : ~Promise!Given(Promise!Ranked[l])
    BY <1>2, <1>5, <1>9
  <2> QED BY <1>2, <1>5, <1>6, <1>9, <2>1 DEF Weakest
<1>10. CASE /\ "live" \notin Verdicts(perInput) /\ "indeterminate" \notin Verdicts(perInput)
            /\ "guarded" \notin Verdicts(perInput)
  <2>1. \A l \in 1 .. 3 : ~Promise!Given(Promise!Ranked[l])
    BY <1>2, <1>5, <1>10
  <2>2. "dead" \in Verdicts(perInput)
    BY <1>3, <1>4, <1>10
  <2> QED BY <1>2, <1>5, <1>6, <1>10, <2>1, <2>2 DEF Weakest
<1> QED BY <1>7, <1>8, <1>9, <1>10

\* The answers by cell are those of the runs performed.
LEMMA CellsAreReported ==
  ASSUME IInv, Recorded, pc # "done", NEW whole \in BOOLEAN, NEW c
  PROVE  Promise!CellAnswer(c, whole) =
           IF c \in cellMoved THEN "live" ELSE IF ran /\ whole THEN "dead" ELSE "indeterminate"
<1>1. ASSUME NEW j \in Inputs, NEW n \in Performed(j)
      PROVE  /\ <<j, n>> \in RunsDone
             /\ Promise!Completes(<<j, n>>) <=> ~Outcome(j, n).traps
             /\ Promise!Moves(<<j, n>>, c) <=> ~Outcome(j, n).traps /\ c \in Outcome(j, n).moved
  <2>1. n \in Ladder(j)
    BY PerformedIsOffered
  <2>2. <<j, n>> \in RunsDone
    BY DEF RunsDone
  <2> QED BY <2>1, <2>2, ShownFacts
<1>2. \A r \in RunsDone : \E j \in Inputs : \E n \in Performed(j) : r = <<j, n>>
  BY DEF RunsDone
<1>3. (\E r \in RunsDone : Promise!Moves(r, c)) <=> c \in cellMoved
  <2>1. ASSUME NEW r \in RunsDone, Promise!Moves(r, c) PROVE c \in cellMoved
    <3>1. PICK j \in Inputs : \E n \in Performed(j) : r = <<j, n>>
      BY <1>2
    <3>2. PICK n \in Performed(j) : r = <<j, n>>
      BY <3>1
    <3> QED BY <1>1, <2>1, <3>2 DEF Recorded
  <2>2. ASSUME c \in cellMoved PROVE \E r \in RunsDone : Promise!Moves(r, c)
    <3>1. PICK j \in Inputs : \E n \in Performed(j) : ~Outcome(j, n).traps /\ c \in Outcome(j, n).moved
      BY <2>2 DEF Recorded
    <3>2. PICK n \in Performed(j) : ~Outcome(j, n).traps /\ c \in Outcome(j, n).moved
      BY <3>1
    <3> QED BY <1>1, <3>2
  <2> QED BY <2>1, <2>2
<1>4. (\E r \in RunsDone : Promise!Completes(r)) <=> ran
  <2>1. ASSUME NEW r \in RunsDone, Promise!Completes(r) PROVE ran
    <3>1. PICK j \in Inputs : \E n \in Performed(j) : r = <<j, n>>
      BY <1>2
    <3>2. PICK n \in Performed(j) : r = <<j, n>>
      BY <3>1
    <3> QED BY <1>1, <2>1, <3>2 DEF Recorded
  <2>2. ASSUME ran PROVE \E r \in RunsDone : Promise!Completes(r)
    <3>1. PICK j \in Inputs : \E n \in Performed(j) : ~Outcome(j, n).traps
      BY <2>2 DEF Recorded
    <3>2. PICK n \in Performed(j) : ~Outcome(j, n).traps
      BY <3>1
    <3> QED BY <1>1, <3>2
  <2> QED BY <2>1, <2>2
<1> QED BY <1>3, <1>4 DEF Promise!CellAnswer

\* What the probe returns is what its runs and answers amount to.
LEMMA Returned ==
  ASSUME IInv, Recorded, NoRun, pc = "pass2", pc' = "done", perInput' = perInput,
         NEW whole \in BOOLEAN, swept' = whole,
         whole => \A j \in Inputs : Performed(j) = Ladder(j),
         ~whole => spent >= Budget
  PROVE  Promise!Return
<1>1. /\ N # 0 /\ N' = N /\ subject' = subject /\ ran' = ran /\ cellMoved' = cellMoved
      /\ RunsDone' = RunsDone /\ spent' = spent
  BY SameSubject, NoneShown DEF Recorded, NoRun, Unprobed
<1>2. DOMAIN perInput = DOMAIN Shown
  <2>1. Len(perInput) = N /\ perInput \in Seq({"live", "guarded", "dead", "indeterminate"})
    BY DEF IInv, TypeOK
  <2> QED BY <2>1, ShownFacts DEF Inputs
<1>3. Verdict' \in Promise!Strongest
  <2>1. Verdict' = Weakest(Verdicts(perInput))
    BY <1>1 DEF Verdict, Weakest, Verdicts
  <2> QED BY <1>1, <2>1, StrongestIsReported
<1>4. \A c : PerCell(c)' = Promise!CellAnswer(c, whole)
  <2>1. \A c : PerCell(c)' = IF c \in cellMoved THEN "live"
                             ELSE IF ran /\ whole THEN "dead" ELSE "indeterminate"
    BY <1>1 DEF PerCell
  <2> QED BY <2>1, CellsAreReported
<1>5. Report' = <<Verdict', [c \in subject.cells |-> Promise!CellAnswer(c, whole)]>>
  BY <1>1, <1>4 DEF Report
<1>6. whole => RunsDone = Promise!Runs
  <2>1. CASE whole
    <3>1. \A r : r \in RunsDone <=> r \in Promise!Runs
      BY <2>1, ShownFacts DEF RunsDone
    <3> QED BY <3>1
  <2> QED BY <2>1
<1> QED BY <1>1, <1>2, <1>3, <1>5, <1>6 DEF Promise!Return

\* Every step of the two passes is a step of the promise, or shows nothing.
LEMMA PromiseStep ==
  ASSUME IInv, IInv', Recorded, [Next]_vars
  PROVE  [Promise!Next]_(Promise!vars)
<1>1. /\ TypeOK /\ Cursors /\ N \in Nat /\ Inputs = 1 .. N /\ i \in 1 .. N + 1 /\ k \in Nat
      /\ \A j \in Inputs : Len(subject.runs[j]) \in Nat /\ tried[j] \in Nat
  BY InSweep
<1>3. subject' = subject
  BY EachRunIsNew DEF NoRun, NewRun
<1>4. Shown' = Shown /\ Budget' = Budget /\ subject.cells' = subject.cells
  BY <1>3, SameShown
<1>5. ASSUME NoRun, pc # "done", pc' # "done", perInput' = perInput
      PROVE  UNCHANGED Promise!vars
  BY <1>4, <1>5, NoneShown DEF Report, Promise!vars
<1>6. ASSUME NoRun, pc # "done", pc' # "done", \E j \in Inputs : Promise!Answer(j)
      PROVE  Promise!Next
  <2>1. Report = <<>> /\ Report' = Report /\ DOMAIN Shown = Inputs
    BY <1>6, ShownFacts DEF Report
  <2> QED BY <1>4, <1>6, <2>1, NoneShown DEF Promise!Next
<1>7. PICK j : j = i
  OBVIOUS
<1>8. ASSUME pc = "pass1", i \in Inputs
      PROVE  /\ Performed(j) = 1 .. tried[j] /\ Performed(j) \subseteq Ladder(j)
             /\ k = 0 => tried[j] = 0
             /\ k > 0 => tried[j] = k - 1
             /\ pc' = "pass1" => Performed(j)' = 1 .. tried'[j]
  BY <1>1, <1>7, <1>8, PerformedIsOffered DEF Performed, Cursors
<1>9. CASE SkipInput
  <2>1. /\ pc = "pass1" /\ i \in Inputs /\ k = 0 /\ pc' = pc /\ tried' = tried
        /\ spent' = spent /\ spent >= Budget /\ perInput' = Append(perInput, "indeterminate")
    BY <1>9 DEF SkipInput, InPass1, Conclude, Unprobed
  <2>2. Performed(j)' = {} /\ Performed(j)' \subseteq Ladder(j)
    BY <1>1, <1>7, <1>8, <2>1
  <2>3. Promise!Answer(j)
    BY <1>3, <1>7, <2>1, <2>2, AnswerGiven
  <2> QED BY <1>6, <1>7, <1>9, <2>1, <2>3, RunsOfSteps
<1>10. CASE BeginInput
  <2>1. pc = "pass1" /\ pc' = pc /\ perInput' = perInput
    BY <1>10 DEF BeginInput, InPass1
  <2> QED BY <1>5, <1>10, <2>1, RunsOfSteps
<1>11. CASE ExhaustedInput
  <2>1. /\ pc = "pass1" /\ i \in Inputs /\ k \in Ladder(j) /\ pc' = pc /\ tried' = tried
        /\ spent' = spent /\ spent >= Budget /\ perInput' = Append(perInput, "indeterminate")
    BY <1>7, <1>11 DEF ExhaustedInput, InPass1, Conclude, Unprobed
  <2>2. k > 0 /\ Performed(j)' = 1 .. k - 1 /\ Performed(j) = 1 .. k - 1
    BY <1>1, <1>7, <1>8, <2>1 DEF Ladder
  <2>3. k \notin Performed(j)' /\ Performed(j)' \subseteq Ladder(j)
    BY <1>1, <1>8, <2>1, <2>2
  <2>4. \A n \in Performed(j)' : ~Moves(j, n)
    BY <1>7, <2>1, <2>2 DEF IInv, LadderSoFar
  <2>5. Promise!Answer(j)
    BY <1>3, <1>7, <2>1, <2>3, <2>4, AnswerGiven
  <2> QED BY <1>6, <1>7, <1>11, <2>1, <2>5, RunsOfSteps
<1>12. CASE EndLadder
  <2> DEFINE v == IF trapped THEN "guarded" ELSE "dead"
  <2>1. /\ pc = "pass1" /\ i \in Inputs /\ k = Len(subject.runs[j]) + 1 /\ pc' = pc /\ tried' = tried
        /\ perInput' = Append(perInput, v)
    BY <1>7, <1>12 DEF EndLadder, InPass1, Conclude
  <2>2. k > 0 /\ Performed(j)' = Ladder(j) /\ Ladder(j) = 1 .. k - 1
    BY <1>1, <1>7, <1>8, <2>1 DEF Ladder
  <2>3. /\ \A n \in Ladder(j) : ~Moves(j, n)
        /\ trapped <=> \E n \in Ladder(j) : Outcome(j, n).traps
    BY <1>7, <2>1, <2>2 DEF IInv, LadderSoFar
  <2>4. Promise!Answer(j)
    <3>1. CASE trapped
      BY <1>3, <1>7, <2>1, <2>2, <2>3, <3>1, AnswerGiven
    <3>2. CASE ~trapped
      BY <1>3, <1>7, <2>1, <2>2, <2>3, <3>2, AnswerGiven
    <3> QED BY <3>1, <3>2
  <2> QED BY <1>6, <1>7, <1>12, <2>1, <2>4, RunsOfSteps
<1>13. CASE ProbeInput
  <2>1. NewRun /\ pc = "pass1" /\ i \in Inputs /\ pc' = pc
    BY <1>13, RunsOfSteps DEF ProbeInput, InPass1
  <2>2. PICK n \in Ladder(j) : n = k
    BY <1>7, <1>13 DEF ProbeInput
  <2>3. Promise!Perform(<<j, n>>) /\ <<j, n>> \in Promise!Runs
    BY <1>7, <2>1, <2>2, RunShown DEF Promise!Perform
  <2>4. perInput' = perInput \/ Promise!Answer(j)
    <3>1. CASE Moves(i, k)
      <4>1. perInput' = Append(perInput, "live")
        BY <1>13, <3>1 DEF ProbeInput, Conclude
      <4>2. Performed(j)' = Performed(j) \cup {n}
        BY <1>7, <2>1, <2>2 DEF NewRun
      <4>3. Performed(j)' \subseteq Ladder(j)
        BY <1>7, <1>8, <2>1, <2>2, <4>2
      <4>4. \E m \in Performed(j)' : Moves(j, m)
        BY <1>7, <2>2, <3>1, <4>2
      <4> QED BY <1>3, <1>7, <2>1, <4>1, <4>3, <4>4, AnswerGiven
    <3>2. CASE ~Moves(i, k)
      BY <1>13, <3>2 DEF ProbeInput
    <3> QED BY <3>1, <3>2
  <2>5. Report = <<>> /\ Report' = Report
    BY <2>1 DEF Report
  <2>6. \E r \in Promise!Runs : Promise!Perform(r) /\ (UNCHANGED perInput \/ Promise!Answer(r[1]))
    <3>1. <<j, n>>[1] = j
      OBVIOUS
    <3> QED BY <2>3, <2>4, <3>1
  <2> QED BY <1>4, <2>5, <2>6 DEF Promise!Next
<1>14. CASE ProbeRest
  <2>1. NewRun /\ pc = "pass2" /\ i \in Inputs /\ pc' = pc /\ perInput' = perInput
    BY <1>14, RunsOfSteps DEF ProbeRest, InPass2
  <2>2. PICK n \in Ladder(j) : n = k
    BY <1>7, <1>14 DEF ProbeRest
  <2>3. Promise!Perform(<<j, n>>) /\ <<j, n>> \in Promise!Runs
    BY <1>7, <2>1, <2>2, RunShown DEF Promise!Perform
  <2>4. Report = <<>> /\ Report' = Report
    BY <2>1 DEF Report
  <2> QED BY <1>4, <2>1, <2>3, <2>4 DEF Promise!Next
<1>15. CASE StartPass2 \/ ResumeLadder \/ EndRest
  <2>1. pc # "done" /\ pc' # "done" /\ perInput' = perInput
    BY <1>15 DEF StartPass2, ResumeLadder, EndRest, InPass2
  <2> QED BY <1>5, <1>15, <2>1, RunsOfSteps
<1>16. ASSUME pc = "pass2", Promise!Return PROVE Promise!Next
  <2>1. Report = <<>>
    BY <1>16 DEF Report
  <2> QED BY <1>4, <1>16, <2>1 DEF Promise!Next
<1>17. CASE CutShort
  <2>1. NoRun /\ pc = "pass2" /\ pc' = "done" /\ perInput' = perInput /\ swept' = FALSE /\ spent >= Budget
    BY <1>17, RunsOfSteps DEF CutShort, InPass2
  <2> QED BY <1>16, <2>1, Returned
<1>18. CASE Finish
  <2>1. NoRun /\ pc = "pass2" /\ i = N + 1 /\ pc' = "done" /\ perInput' = perInput /\ swept' = TRUE
    BY <1>18, RunsOfSteps DEF Finish, Recorded
  <2>2. \A l \in Inputs : Performed(l) = Ladder(l)
    BY <1>1, <2>1 DEF Performed
  <2> QED BY <1>16, <2>1, <2>2, Returned
<1>19. CASE UNCHANGED vars
  <2>1. NoRun /\ perInput' = perInput /\ pc' = pc
    BY <1>19, RunsOfSteps DEF vars
  <2>2. Report' = Report
    BY <1>19, SameSubject DEF vars, Report, Verdict, Weakest, Verdicts, PerCell
  <2> QED BY <1>4, <2>1, <2>2, NoneShown DEF Promise!vars
<1> QED BY <1>9, <1>10, <1>11, <1>12, <1>13, <1>14, <1>15, <1>17, <1>18, <1>19 DEF Next

\* It starts with nothing performed and nothing said, or without inputs to ask of.
LEMMA PromiseStart == ASSUME Init PROVE Promise!Init
<1>1. N \in Nat /\ Inputs = 1 .. N /\ DOMAIN Shown = Inputs /\ SubjectOK(subject)
  BY InitIInv, InSweep, ShownFacts DEF IInv, TypeOK
<1>2. RunsDone = {}
  BY RecordedStart DEF RunsDone
<1>3. subject.runs = <<>> <=> N = 0
  BY <1>1 DEF SubjectOK, N
<1>4. CASE N = 0
  <2>1. pc = "done" /\ Verdict = "n/a" /\ \A c : PerCell(c) = "indeterminate"
    BY <1>3, <1>4 DEF Init, Verdict, PerCell
  <2>2. Report = <<"n/a", [c \in subject.cells |-> "indeterminate"]>>
    BY <2>1 DEF Report
  <2>3. DOMAIN Shown = {}
    BY <1>1, <1>4
  <2> QED BY <1>2, <2>2, <2>3 DEF Init, Promise!Init
<1>5. CASE N # 0
  <2>1. Report = <<>>
    BY <1>3, <1>5 DEF Init, Report
  <2>2. 1 \in DOMAIN Shown
    BY <1>1, <1>5
  <2> QED BY <1>2, <2>1, <2>2 DEF Init, Promise!Init
<1> QED BY <1>4, <1>5

\* For every program, every ladder and every setting of the limits, the two
\* passes of _input_liveness implement its promise: no run is repeated or
\* performed without budget, and each answer, the verdict and the answers by cell
\* are what the runs performed by then warrant (verify.py:236-258).
THEOREM PromiseIsKept == Spec => PromiseKept
<1>1. Init => Recorded
  BY RecordedStart
<1>2. Spec => [](IInv /\ Recorded)
  BY <1>1, RecordedStep, Invariance, PTL DEF Spec
<1> QED BY <1>2, PromiseStart, PromiseStep, PTL DEF Spec, PromiseKept, Promise!Spec

\* Without a mixed ladder the two readings of the docstring are one.
LEMMA SameReading ==
  ASSUME NoMixedLadder, NEW j \in Inputs, NEW answer, Promise!Warranted(j, answer)
  PROVE  Documented!Warranted(j, answer)
<1>1. /\ Documented!Ladder(j) = Promise!Ladder(j)
      /\ \A r : /\ Documented!Completes(r) <=> Promise!Completes(r)
                /\ Documented!MovesAny(r) <=> Promise!MovesAny(r)
  BY DEF Documented!Ladder, Promise!Ladder, Documented!Completes, Promise!Completes,
         Documented!MovesAny, Promise!MovesAny, Documented!Seen, Promise!Seen
<1>2. PICK performed : performed = Promise!Ladder(j) \cap RunsDone'
  OBVIOUS
<1>3. ~(/\ performed = Promise!Ladder(j)
        /\ \A r \in performed : ~Promise!MovesAny(r)
        /\ \E r \in performed : ~Promise!Completes(r)
        /\ \E r \in performed : Promise!Completes(r))
  <2> SUFFICES ASSUME performed = Promise!Ladder(j),
                      \A r \in performed : ~Promise!MovesAny(r),
                      NEW r \in performed, ~Promise!Completes(r),
                      NEW q \in performed, Promise!Completes(q)
               PROVE  FALSE
    OBVIOUS
  <2>1. /\ performed = {<<j, n>> : n \in Ladder(j)}
        /\ \A n \in Ladder(j) : /\ Promise!Completes(<<j, n>>) <=> ~Outcome(j, n).traps
                                /\ Promise!MovesAny(<<j, n>>) <=> Moves(j, n)
    BY ShownFacts
  <2>2. PICK n \in Ladder(j) : r = <<j, n>>
    BY <2>1
  <2>3. PICK m \in Ladder(j) : q = <<j, m>>
    BY <2>1
  <2>4. \A l \in Ladder(j) : ~Moves(j, l)
    BY <2>1
  <2>5. Outcome(j, n).traps /\ ~Outcome(j, m).traps
    BY <2>1, <2>2, <2>3
  <2>6. Outcome(j, n).traps => Outcome(j, m).traps
    BY <2>4 DEF NoMixedLadder
  <2> QED BY <2>5, <2>6
<1>4. \/ answer = "live" /\ \E r \in performed : Promise!MovesAny(r)
      \/ /\ answer = "guarded" /\ performed = Promise!Ladder(j) /\ performed # {}
         /\ \A r \in performed : ~Promise!Completes(r)
      \/ /\ answer = "dead" /\ performed = Promise!Ladder(j)
         /\ \A r \in performed : Promise!Completes(r) /\ ~Promise!MovesAny(r)
      \/ /\ answer = "indeterminate" /\ spent' >= Budget
         /\ \A r \in performed : ~Promise!MovesAny(r)
         /\ performed = Promise!Ladder(j) => performed = {}
  BY <1>2, <1>3 DEF Promise!Warranted
<1>5. \/ answer = "live" /\ \E r \in performed : Documented!MovesAny(r)
      \/ /\ answer = "guarded" /\ performed = Documented!Ladder(j) /\ performed # {}
         /\ \A r \in performed : ~Documented!Completes(r)
      \/ /\ answer = "dead" /\ performed = Documented!Ladder(j)
         /\ \A r \in performed : Documented!Completes(r) /\ ~Documented!MovesAny(r)
      \/ /\ answer = "indeterminate" /\ spent' >= Budget
         /\ \A r \in performed : ~Documented!MovesAny(r)
         /\ performed = Documented!Ladder(j) => performed = {}
  BY <1>1, <1>4
<1>6. performed = Documented!Ladder(j) \cap RunsDone'
  BY <1>1, <1>2
<1> QED BY <1>5, <1>6 DEF Documented!Warranted

\* The docstring to the letter, for every program none of whose inputs has a mixed
\* ladder: then "guarded" means that every perturbation trapped (verify.py:239)
\* and "dead" that every one ran and left the output alone (verify.py:241).
THEOREM DocumentedPromiseIsKept == Spec /\ []NoMixedLadder => DocumentedPromise
<1>1. Promise!Init => Documented!Init
  BY DEF Promise!Init, Documented!Init
<1>2. ASSUME NoMixedLadder, [Promise!Next]_(Promise!vars)
      PROVE  [Documented!Next]_(Documented!vars)
  <2>1. \A j : Promise!Answer(j) => Documented!Answer(j)
    BY <1>2, SameReading, ShownFacts DEF Promise!Answer, Documented!Answer
  <2>2. /\ \A r : Promise!Perform(r) <=> Documented!Perform(r)
        /\ Promise!Runs = Documented!Runs
    BY DEF Promise!Perform, Documented!Perform, Promise!Runs, Documented!Runs, Promise!Ladder,
           Documented!Ladder, Promise!Seen, Documented!Seen
  <2>3. Promise!Return <=> Documented!Return
    BY <2>2 DEF Promise!Return, Documented!Return, Promise!Strongest, Documented!Strongest,
       Promise!Given, Documented!Given, Promise!Ranked, Documented!Ranked,
       Promise!CellAnswer, Documented!CellAnswer, Promise!Moves, Documented!Moves,
       Promise!Completes, Documented!Completes, Promise!Seen, Documented!Seen
  <2>4. Promise!Next => Documented!Next
    BY <2>1, <2>2, <2>3 DEF Promise!Next, Documented!Next
  <2> QED BY <1>2, <2>4 DEF Promise!vars, Documented!vars
<1> QED BY <1>1, <1>2, PromiseIsKept, PTL DEF PromiseKept, DocumentedPromise, Promise!Spec, Documented!Spec

-----------------------------------------------------------------------------
(* ProbeValues.  What is listed is decided by Add alone, whatever the loops *)
(* compute; that the ladder crosses thresholds rests on its last two values,*)
(* the ends of the word.                                                    *)

\* A list the ladder may have built for input w: distinct words, none of them w.
Listed(vs, w) ==
  /\ vs \in Seq(Word)
  /\ \A j, m \in 1 .. Len(vs) : vs[j] = vs[m] => j = m
  /\ \A j \in 1 .. Len(vs) : vs[j] # w

Reached(vs, w, v) == v = w \/ Contains(vs, v)

\* Add keeps a list a list, loses nothing from it, and a word that is added is
\* in it afterwards or is the input.
LEMMA AddKeepsListed ==
  ASSUME NEW vs, Listed(vs, input), NEW v
  PROVE  /\ Listed(Add(vs, v), input)
         /\ \A u : Contains(vs, u) => Contains(Add(vs, v), u)
         /\ v \in Word => Reached(Add(vs, v), input, v)
<1>1. CASE v \in Word /\ v # input /\ ~Contains(vs, v)
  <2>1. Add(vs, v) = Append(vs, v)
    BY <1>1 DEF Add
  <2> DEFINE ws == Append(vs, v)
  <2>2. /\ ws \in Seq(Word) /\ Len(ws) = Len(vs) + 1
        /\ \A j \in 1 .. Len(vs) : ws[j] = vs[j]
        /\ ws[Len(vs) + 1] = v /\ Len(vs) \in Nat
    BY <1>1 DEF Listed
  <2>3. \A j \in 1 .. Len(vs) : vs[j] # v
    BY <1>1 DEF Contains
  <2>4. Listed(ws, input)
    <3>1. \A j, m \in 1 .. Len(ws) : ws[j] = ws[m] => j = m
      BY <2>2, <2>3 DEF Listed
    <3>2. \A j \in 1 .. Len(ws) : ws[j] # input
      BY <1>1, <2>2 DEF Listed
    <3> QED BY <2>2, <3>1, <3>2 DEF Listed
  <2>5. \A u : Contains(vs, u) => Contains(ws, u)
    BY <2>2 DEF Contains
  <2>6. Reached(ws, input, v)
    BY <2>2 DEF Reached, Contains
  <2> QED BY <2>1, <2>4, <2>5, <2>6
<1>2. CASE ~(v \in Word /\ v # input /\ ~Contains(vs, v))
  <2>1. Add(vs, v) = vs
    BY <1>2 DEF Add
  <2> QED BY <1>2, <2>1 DEF Reached
<1> QED BY <1>1, <1>2

\* The ends of the word are the last two values: once their turn has passed they
\* are in the list.
EndsReached ==
  /\ phase \in {"min", "done"} => Reached(values, input, WordMax)
  /\ phase = "done" => Reached(values, input, WordMin)

\* The inductive invariant.
ValuesIInv == TablesOK /\ ValuesTypeOK /\ NoRunIsWasted /\ EndsReached

\* The input stays, and the list stays one, whichever loop is at work.
LEMMA StepKeepsListed ==
  ASSUME ValuesIInv, [ValuesNext]_valueVars
  PROVE  /\ input' = input /\ Listed(values', input)
         /\ \A u : Contains(values, u) => Contains(values', u)
<1>0. Listed(values, input)
  BY DEF ValuesIInv, ValuesTypeOK, NoRunIsWasted, Listed
<1>1. \A v : /\ Listed(Add(values, v), input)
             /\ \A u : Contains(values, u) => Contains(Add(values, v), u)
  BY <1>0, AddKeepsListed
<1>2. \A step : /\ Listed(AddBoth(step), input)
                /\ \A u : Contains(values, u) => Contains(AddBoth(step), u)
  BY <1>1, AddKeepsListed DEF AddBoth
<1>3. CASE AddDelta
  BY <1>1, <1>3 DEF AddDelta, Iterate
<1>4. CASE AddFraction
  BY <1>0, <1>2, <1>4 DEF AddFraction, Iterate
<1>5. CASE AddShift
  BY <1>2, <1>5 DEF AddShift, Iterate
<1>6. CASE AddEdge
  BY <1>1, <1>6 DEF AddEdge, Iterate
<1>7. CASE AddMax \/ AddMin
  BY <1>1, <1>7 DEF AddMax, AddMin
<1>8. CASE EndLoop \/ UNCHANGED valueVars
  BY <1>0, <1>8 DEF EndLoop, Leave, valueVars
<1> QED BY <1>3, <1>4, <1>5, <1>6, <1>7, <1>8 DEF ValuesNext

\* The two last values reach the ends, and nothing is unlisted after.
LEMMA StepReachesEnds ==
  ASSUME ValuesIInv, [ValuesNext]_valueVars
  PROVE  EndsReached'
<1>0. Listed(values, input) /\ input' = input /\ \A u : Contains(values, u) => Contains(values', u)
  BY StepKeepsListed DEF ValuesIInv, ValuesTypeOK, NoRunIsWasted, Listed
<1>w. WordMax \in Word /\ WordMin \in Word
  BY DEF Word, TablesOK, ValuesIInv
<1>1. CASE AddMax
  <2>1. Reached(values', input, WordMax)
    BY <1>0, <1>1, <1>w, AddKeepsListed DEF AddMax
  <2> QED BY <1>0, <1>1, <2>1 DEF AddMax, EndsReached, Reached
<1>2. CASE AddMin
  <2>1. Reached(values', input, WordMin)
    BY <1>0, <1>2, <1>w, AddKeepsListed DEF AddMin
  <2> QED BY <1>0, <1>2, <2>1 DEF AddMin, EndsReached, Reached, ValuesIInv
<1>3. CASE AddDelta \/ AddFraction \/ AddShift \/ AddEdge
  BY <1>3 DEF AddDelta, AddFraction, AddShift, AddEdge, Iterate, EndsReached
<1>4. CASE EndLoop
  BY <1>4 DEF EndLoop, Leave, EndsReached
<1>5. CASE UNCHANGED valueVars
  BY <1>5 DEF valueVars, EndsReached, Reached, ValuesIInv
<1> QED BY <1>1, <1>2, <1>3, <1>4, <1>5 DEF ValuesNext

\* The cursors stay in range, loop after loop.
LEMMA StepKeepsType ==
  ASSUME ValuesIInv, [ValuesNext]_valueVars
  PROVE  ValuesTypeOK'
<1>1. input' = input /\ values' \in Seq(Word)
  BY StepKeepsListed DEF Listed
<1>2. phase' \in Phases /\ turn' \in Nat \ {0}
  BY DEF ValuesIInv, ValuesTypeOK, ValuesNext, valueVars, AddDelta, AddFraction, AddShift, AddEdge, EndLoop,
         AddMax, AddMin, Iterate, Leave, Phases
<1> QED BY <1>1, <1>2 DEF ValuesIInv, ValuesTypeOK

\* The inductive invariant holds of every behaviour.
THEOREM ValuesInvariance == TablesOK /\ ValuesSpec => []ValuesIInv
<1>1. TablesOK /\ ValuesInit => ValuesIInv
  BY DEF TablesOK, ValuesInit, ValuesIInv, ValuesTypeOK, NoRunIsWasted, EndsReached, Phases, Word
<1>2. ValuesIInv /\ [ValuesNext]_valueVars => ValuesIInv'
  <2> SUFFICES ASSUME ValuesIInv, [ValuesNext]_valueVars PROVE ValuesIInv'
    OBVIOUS
  <2>1. NoRunIsWasted'
    BY StepKeepsListed DEF Listed, NoRunIsWasted
  <2> QED BY <2>1, StepKeepsType, StepReachesEnds DEF ValuesIInv, TablesOK, Word
<1> QED BY <1>1, <1>2, PTL DEF ValuesSpec

\* The ladder's list is of words, and its loops are taken in order
\* (verify.py:92-124).
THEOREM ValuesTypeCorrectness == TablesOK /\ ValuesSpec => []ValuesTypeOK
BY ValuesInvariance, PTL DEF ValuesIInv

\* No value is probed twice, and the input itself never: each run the budget
\* pays for could tell something new.
THEOREM NoValueIsWasted == TablesOK /\ ValuesSpec => []NoRunIsWasted
BY ValuesInvariance, PTL DEF ValuesIInv

\* Whatever the word and the tables, an input that a program only compares with a
\* threshold is moved across it by some value of the ladder.
THEOREM EveryThresholdIsCrossed == TablesOK /\ ValuesSpec => []ThresholdsAreCrossed
<1>1. ValuesIInv => ThresholdsAreCrossed
  <2> SUFFICES ASSUME ValuesIInv, phase = "done", NEW t \in Word, NEW v \in Word,
                      (v >= t) # (input >= t)
               PROVE  \E j \in 1 .. Len(values) : (values[j] >= t) # (input >= t)
    BY DEF ThresholdsAreCrossed
  <2>0. /\ WordMin \in Int /\ WordMax \in Int /\ t \in Int /\ v \in Int /\ input \in Int
        /\ WordMin <= v /\ v <= WordMax /\ WordMin <= input /\ input <= WordMax
    BY DEF Word, TablesOK, ValuesIInv, ValuesTypeOK
  <2>1. CASE input >= t
    <3>1. WordMin < t /\ WordMin # input
      BY <2>0, <2>1
    <3>2. Contains(values, WordMin)
      BY <3>1 DEF ValuesIInv, EndsReached, Reached
    <3> QED BY <2>0, <2>1, <3>1, <3>2 DEF Contains
  <2>2. CASE ~(input >= t)
    <3>1. WordMax >= t /\ WordMax # input
      BY <2>0, <2>2
    <3>2. Contains(values, WordMax)
      BY <3>1 DEF ValuesIInv, EndsReached, Reached
    <3> QED BY <2>0, <2>2, <3>1, <3>2 DEF Contains
  <2> QED BY <2>1, <2>2
<1> QED BY <1>1, ValuesInvariance, PTL

=============================================================================
