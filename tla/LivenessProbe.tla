---------------------------- MODULE LivenessProbe ----------------------------
(***************************************************************************)
(* The input-liveness probe of src/obsign_verify/verify.py: a replayed     *)
(* program is run again with one input perturbed at a time, under a cap on *)
(* each run and a budget on all of them, to learn whether its output       *)
(* depends on its inputs.                                                  *)
(*                                                                         *)
(* The program is seen through what its runs do.  A subject is             *)
(*   base    the steps of the unperturbed run                              *)
(*   fixed   what a run costs before its first step (_probe_cost without   *)
(*           its step term)                                                *)
(*   cells   the output cells                                              *)
(*   runs    runs[i][k] is the run with the k-th value of the ladder of    *)
(*           input i: whether it traps, the cells in which its output      *)
(*           differs from the base output, and its steps.                  *)
(* A run is what run_counted does without a step cap; CappedReplay says    *)
(* what the cap may change, and Capped below is that contract.             *)
(***************************************************************************)
EXTENDS Naturals, Sequences

CONSTANTS
  Subjects,        \* the programs probed
  StepCost,        \* _COST_STEP
  Multiple,        \* the 8 of total_budget
  Floor,           \* _LIVENESS_FLOOR
  CapFloor,        \* the 100_000 of per_run_cap
  MaxSteps         \* replay.MAX_STEPS

\* run_counted retires at least one step and at most the program's own budget.
Run == [traps : BOOLEAN, moved : SUBSET Nat, steps : 1 .. MaxSteps]

ASSUME CostAssumption ==
  /\ StepCost \in Nat /\ Multiple \in Nat /\ Floor \in Nat
  /\ CapFloor \in Nat /\ MaxSteps \in Nat

\* A program has at least one cell and one instruction, so no run is free.
SubjectOK(s) ==
  /\ s.base \in 1 .. MaxSteps /\ s.fixed \in Nat \ {0} /\ s.cells \in SUBSET Nat
  /\ s.runs \in Seq(Seq(Run))

ASSUME SubjectAssumption == \A s \in Subjects : SubjectOK(s)

VARIABLES
  subject,
  pc,          \* "pass1", "pass2", "done"
  i,           \* the input at hand, 1..N+1
  k,           \* the next value of its ladder; 0 before the input is begun
  spent, ran,  \* the dict `state`
  cellMoved,   \* the cells some run moved
  tried,       \* tried[i], the values of its ladder pass 1 ran
  trapped,     \* a run of input i trapped, in pass 1
  perInput,    \* the verdicts so far
  swept        \* pass 2 has not been cut short

vars == <<subject, pc, i, k, spent, ran, cellMoved, tried, trapped, perInput, swept>>

N == Len(subject.runs)
Inputs == 1 .. N
Ladder(j) == 1 .. Len(subject.runs[j])

Cost(steps) == steps * StepCost + subject.fixed

Cap == LET wanted == IF subject.base > CapFloor THEN subject.base ELSE CapFloor
       IN  IF wanted < MaxSteps THEN wanted ELSE MaxSteps

Budget == LET wanted == Cost(subject.base) * Multiple
          IN  IF wanted > Floor THEN wanted ELSE Floor

\* The run as run_counted(..., step_cap=per_run_cap) performs it.
Capped(run) == IF run.steps > Cap
               THEN [traps |-> TRUE, moved |-> {}, steps |-> Cap]
               ELSE run

Outcome(j, n) == Capped(subject.runs[j][n])
Moves(j, n) == ~Outcome(j, n).traps /\ Outcome(j, n).moved # {}

Init ==
  /\ subject \in Subjects
  /\ pc = IF subject.runs = <<>> THEN "done" ELSE "pass1"
  /\ i = 1 /\ k = 0
  /\ spent = 0 /\ ran = FALSE /\ cellMoved = {}
  /\ tried = [j \in Inputs |-> 0]
  /\ trapped = FALSE
  /\ perInput = <<>>
  /\ swept = TRUE

\* Mutant: a run starts although the budget is spent.
ProbeUnchecked ==
  /\ spent' = spent + Cost(Outcome(i, k).steps)
  /\ ran' = (ran \/ ~Outcome(i, k).traps)
  /\ cellMoved' = IF Outcome(i, k).traps THEN cellMoved
                  ELSE cellMoved \cup Outcome(i, k).moved

\* Mutant: a run that trapped is charged the whole cap.
ProbeOverbilled ==
  /\ spent < Budget
  /\ spent' = spent + Cost(IF Outcome(i, k).traps THEN Cap ELSE Outcome(i, k).steps)
  /\ ran' = (ran \/ ~Outcome(i, k).traps)
  /\ cellMoved' = IF Outcome(i, k).traps THEN cellMoved
                  ELSE cellMoved \cup Outcome(i, k).moved

\* probe(i, value), when it runs at all.
Probe ==
  /\ spent < Budget
  /\ spent' = spent + Cost(Outcome(i, k).steps)
  /\ ran' = (ran \/ ~Outcome(i, k).traps)
  /\ cellMoved' = IF Outcome(i, k).traps THEN cellMoved
                  ELSE cellMoved \cup Outcome(i, k).moved

Unprobed == UNCHANGED <<spent, ran, cellMoved>>

-----------------------------------------------------------------------------
(* Pass 1: a verdict for each input, from the first run that moves.        *)

InPass1 == pc = "pass1" /\ i \in Inputs

Conclude(verdict) ==
  /\ perInput' = Append(perInput, verdict)
  /\ i' = i + 1
  /\ k' = 0

\* Mutant: the loop does not `continue` after giving up on the input.
SkipAndStay ==
  /\ InPass1 /\ k = 0
  /\ spent >= Budget
  /\ perInput' = Append(perInput, "indeterminate")
  /\ k' = 1
  /\ Unprobed /\ UNCHANGED <<subject, pc, i, tried, trapped, swept>>

\* No budget left: the ladder of this input is not even built.
SkipInput ==
  /\ InPass1 /\ k = 0
  /\ spent >= Budget
  /\ Conclude("indeterminate")
  /\ Unprobed /\ UNCHANGED <<subject, pc, tried, trapped, swept>>

BeginInput ==
  /\ InPass1 /\ k = 0
  /\ spent < Budget
  /\ k' = 1
  /\ trapped' = FALSE
  /\ Unprobed /\ UNCHANGED <<subject, pc, i, tried, perInput, swept>>

ProbeInput ==
  /\ InPass1 /\ k \in Ladder(i)
  /\ Probe
  /\ tried' = [tried EXCEPT ![i] = @ + 1]
  /\ trapped' = (trapped \/ Outcome(i, k).traps)
  /\ IF Moves(i, k) THEN Conclude("live")
     ELSE k' = k + 1 /\ UNCHANGED <<i, perInput>>
  /\ UNCHANGED <<subject, pc, swept>>

\* Mutant: `exhausted` is forgotten when the verdict is formed.
ExhaustedDecided ==
  /\ InPass1 /\ k \in Ladder(i)
  /\ spent >= Budget
  /\ Conclude(IF trapped THEN "guarded" ELSE "dead")
  /\ Unprobed /\ UNCHANGED <<subject, pc, tried, trapped, swept>>

ExhaustedInput ==
  /\ InPass1 /\ k \in Ladder(i)
  /\ spent >= Budget
  /\ Conclude("indeterminate")
  /\ Unprobed /\ UNCHANGED <<subject, pc, tried, trapped, swept>>

EndLadder ==
  /\ InPass1 /\ k = Len(subject.runs[i]) + 1
  /\ Conclude(IF trapped THEN "guarded" ELSE "dead")
  /\ Unprobed /\ UNCHANGED <<subject, pc, tried, trapped, swept>>

StartPass2 ==
  /\ pc = "pass1" /\ i = N + 1
  /\ pc' = "pass2"
  /\ i' = 1
  /\ Unprobed /\ UNCHANGED <<subject, k, tried, trapped, perInput, swept>>

-----------------------------------------------------------------------------
(* Pass 2: the rest of every ladder, for the cells only.                   *)

InPass2 == pc = "pass2" /\ i \in Inputs

\* Mutant: the sweep ends early and does not say so.
CutShortSilently ==
  /\ InPass2
  /\ k = 0 \/ k \in Ladder(i)
  /\ spent >= Budget
  /\ pc' = "done"
  /\ Unprobed /\ UNCHANGED <<subject, i, k, tried, trapped, perInput, swept>>

\* At the head of an input, and again before each run.
CutShort ==
  /\ InPass2
  /\ k = 0 \/ k \in Ladder(i)
  /\ spent >= Budget
  /\ swept' = FALSE
  /\ pc' = "done"
  /\ Unprobed /\ UNCHANGED <<subject, i, k, tried, trapped, perInput>>

\* Mutant: pass 2 runs the ladder from its beginning.
RestartLadder ==
  /\ InPass2 /\ k = 0
  /\ spent < Budget
  /\ k' = 1
  /\ Unprobed /\ UNCHANGED <<subject, pc, i, tried, trapped, perInput, swept>>

ResumeLadder ==
  /\ InPass2 /\ k = 0
  /\ spent < Budget
  /\ k' = tried[i] + 1
  /\ Unprobed /\ UNCHANGED <<subject, pc, i, tried, trapped, perInput, swept>>

ProbeRest ==
  /\ InPass2 /\ k \in Ladder(i)
  /\ Probe
  /\ k' = k + 1
  /\ UNCHANGED <<subject, pc, i, tried, trapped, perInput, swept>>

EndRest ==
  /\ InPass2 /\ k = Len(subject.runs[i]) + 1
  /\ i' = i + 1
  /\ k' = 0
  /\ Unprobed /\ UNCHANGED <<subject, pc, tried, trapped, perInput, swept>>

Finish ==
  /\ pc = "pass2" /\ i = N + 1
  /\ pc' = "done"
  /\ Unprobed /\ UNCHANGED <<subject, i, k, tried, trapped, perInput, swept>>

Next == \/ SkipInput \/ BeginInput \/ ProbeInput \/ ExhaustedInput \/ EndLadder
        \/ StartPass2 \/ CutShort \/ ResumeLadder \/ ProbeRest \/ EndRest \/ Finish

Spec == Init /\ [][Next]_vars

-----------------------------------------------------------------------------
(* What is returned. *)

\* Mutant: an undecided input no longer outweighs a guarded one.
GuardedFirst(verdicts) == IF "live" \in verdicts THEN "live"
                          ELSE IF "guarded" \in verdicts THEN "guarded"
                          ELSE IF "indeterminate" \in verdicts THEN "indeterminate"
                          ELSE "dead"

Weakest(verdicts) == IF "live" \in verdicts THEN "live"
                     ELSE IF "indeterminate" \in verdicts THEN "indeterminate"
                     ELSE IF "guarded" \in verdicts THEN "guarded"
                     ELSE "dead"

Verdicts(list) == {list[j] : j \in DOMAIN list}

Verdict == IF N = 0 THEN "n/a" ELSE Weakest(Verdicts(perInput))

PerCell(c) == IF c \in cellMoved THEN "live"
              ELSE IF ran /\ swept THEN "dead" ELSE "indeterminate"

-----------------------------------------------------------------------------
(* Properties. *)

\* The cursors stay in range and every input gets one verdict, in order.
TypeOK ==
  /\ SubjectOK(subject)
  /\ pc \in {"pass1", "pass2", "done"}
  /\ i \in 1 .. N + 1
  /\ k \in Nat
  /\ spent \in Nat
  /\ ran \in BOOLEAN /\ trapped \in BOOLEAN /\ swept \in BOOLEAN
  /\ cellMoved \in SUBSET Nat
  /\ tried \in [Inputs -> Nat]
  /\ perInput \in Seq({"live", "guarded", "dead", "indeterminate"})
  /\ Len(perInput) = IF pc = "pass1" THEN i - 1 ELSE N

\* The runs of input j performed so far.
Performed(j) ==
  IF pc = "pass1" \/ j > i \/ (j = i /\ k = 0) THEN 1 .. tried[j]
  ELSE IF j = i THEN 1 .. k - 1
  ELSE Ladder(j)

\* f[1] + ... + f[n].
SumTo(f, n) == LET sum[m \in Nat] == IF m = 0 THEN 0 ELSE sum[m - 1] + f[m]
               IN  sum[n]

\* What the runs in sets[j] of each input j cost, each taken once.
CostOfRuns(j, set) ==
  SumTo([n \in Ladder(j) |-> IF n \in set THEN Cost(Outcome(j, n).steps) ELSE 0], Len(subject.runs[j]))

CostOfAll(sets) == SumTo([j \in Inputs |-> CostOfRuns(j, sets[j])], N)

\* What the whole ladder says of an input, with no budget on the probe.  One run
\* that trapped is enough for "guarded", as in the code (verify.py:337).
FullVerdict(j) ==
  IF \E n \in Ladder(j) : Moves(j, n) THEN "live"
  ELSE IF \E n \in Ladder(j) : Outcome(j, n).traps THEN "guarded"
  ELSE "dead"

\* An answer other than "indeterminate" is the answer of the whole ladder,
\* although pass 1 stops early and the budget may end it anywhere: in particular
\* "dead" and "guarded", which refuse a receipt, are never the effect of a probe
\* that was not run (verify.py:248).
InputVerdictSound ==
  \A j \in DOMAIN perInput :
    perInput[j] # "indeterminate" => perInput[j] = FullVerdict(j)

\* The same for the verdict on the program (verify.py:244).
VerdictSound ==
  pc = "done" /\ N # 0 /\ Verdict # "indeterminate" =>
    Verdict = Weakest({FullVerdict(j) : j \in Inputs})

\* A cell is called dead only when every value of every ladder was run and left
\* it alone, with at least one run that completed; it is called live only when
\* some run moved it (verify.py:343).
CellVerdictSound ==
  pc = "done" =>
    \A c \in subject.cells :
      /\ PerCell(c) = "dead" =>
           /\ \A j \in Inputs : \A n \in Ladder(j) :
                ~Outcome(j, n).traps => c \notin Outcome(j, n).moved
           /\ \E j \in Inputs : \E n \in Ladder(j) : ~Outcome(j, n).traps
      /\ PerCell(c) = "live" =>
           \E j \in Inputs : \E n \in Ladder(j) : Moves(j, n) /\ c \in Outcome(j, n).moved

\* The probe is not an amplifier: all its runs together cost less than the
\* budget plus one capped run (verify.py:253).
WorkBounded == spent < Budget + Cost(Cap) \/ spent = 0

\* What was charged is what was run, each run once: pass 2 neither repeats nor
\* skips a value pass 1 dealt with (verify.py:349), and a refused run is charged
\* for the steps it retired (verify.py:289).
WorkAccounted == spent = CostOfAll([j \in Inputs |-> Performed(j)])

\* A program cheap enough for its whole sweep to fit in the budget gets a
\* definite answer for every input, and for every cell if any run completed
\* (verify.py:141: such a program is "swept exhaustively").
CheapProgramsDecided ==
  pc = "done" /\ CostOfAll([j \in Inputs |-> Ladder(j)]) < Budget =>
    /\ "indeterminate" \notin Verdicts(perInput)
    /\ ran => \A c \in subject.cells : PerCell(c) # "indeterminate"

-----------------------------------------------------------------------------
(* What the probe promises, whatever the order of its runs. *)

\* A run as its caller sees it.
Seen(j, n) == [cost |-> Cost(Outcome(j, n).steps), traps |-> Outcome(j, n).traps,
               moved |-> Outcome(j, n).moved]

Shown == [j \in Inputs |-> [n \in Ladder(j) |-> Seen(j, n)]]

RunsDone == UNION {{<<j, n>> : n \in Performed(j)} : j \in Inputs}

Report == IF pc = "done" THEN <<Verdict, [c \in subject.cells |-> PerCell(c)]>> ELSE <<>>

Promise == INSTANCE ProbePromise WITH
  MixedAnswers <- {"guarded"},
  ladders <- Shown, cells <- subject.cells, budget <- Budget,
  done <- RunsDone, answers <- perInput, report <- Report

\* The two passes, with ladders begun, left and resumed, implement that promise:
\* each step performs a run not performed before, gives an answer the runs so far
\* warrant, returns, or shows nothing (verify.py:236-258).  On one point it is the
\* code's promise and not the docstring's: an input some of whose runs trapped and
\* none of whose moved the output is answered "guarded" (verify.py:337).
PromiseKept == Promise!Spec

\* What the docstring says of that answer: guarded means that every perturbation
\* of the input trapped, "so nothing was learned about the output" (verify.py:239).
GuardedMeansAllTrapped ==
  \A j \in DOMAIN perInput :
    perInput[j] = "guarded" => \A n \in Ladder(j) : Outcome(j, n).traps

\* Where the code and the docstring agree: of the runs of a ladder that moves
\* nothing, all trap or none does.
NoMixedLadder ==
  \A j \in Inputs :
    (\A n \in Ladder(j) : ~Moves(j, n)) =>
      \A n, m \in Ladder(j) : Outcome(j, n).traps => Outcome(j, m).traps

\* The promise to the letter of the docstring, which names no answer for a mixed
\* ladder.
Documented == INSTANCE ProbePromise WITH
  MixedAnswers <- {},
  ladders <- Shown, cells <- subject.cells, budget <- Budget,
  done <- RunsDone, answers <- perInput, report <- Report

DocumentedPromise == Documented!Spec

=============================================================================
