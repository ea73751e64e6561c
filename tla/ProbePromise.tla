---------------------------- MODULE ProbePromise ----------------------------
(***************************************************************************)
(* What _input_liveness of src/obsign_verify/verify.py promises of its     *)
(* answers (its docstring, verify.py:236-258), without its two passes, its *)
(* cursors or the order of its runs: a probe performs runs, none twice and *)
(* none once its budget is spent; it answers for an input what the runs    *)
(* performed by then warrant; and it returns when all inputs are answered  *)
(* and every run is done or the budget is spent.                           *)
(*                                                                         *)
(* One case has no answer in the docstring.  "guarded" is for an input     *)
(* every perturbation of which trapped (verify.py:239), "dead" for one     *)
(* that was fully exercised (verify.py:241); a ladder may be mixed, some   *)
(* of its runs trapped and the others complete and moving nothing.  What a *)
(* probe may answer then is a parameter: {} is the docstring to the        *)
(* letter, {"guarded"} what the code answers (verify.py:337).              *)
(***************************************************************************)
EXTENDS Naturals

CONSTANT MixedAnswers

VARIABLES
  ladders,   \* ladders[j][n] is what the n-th run of input j costs and shows
  cells,     \* the output cells
  budget,
  done,      \* the runs performed, as <<input, number>>
  spent,
  answers,   \* the answers so far, by input
  report     \* <<>> until the probe returns, then <<its verdict, its answers by cell>>

vars == <<ladders, cells, budget, done, spent, answers, report>>

Ladder(j) == {<<j, n>> : n \in DOMAIN ladders[j]}
Runs == UNION {Ladder(j) : j \in DOMAIN ladders}
Seen(r) == ladders[r[1]][r[2]]

Completes(r) == ~Seen(r).traps
Moves(r, c) == Completes(r) /\ c \in Seen(r).moved
MovesAny(r) == Completes(r) /\ Seen(r).moved # {}

\* Nothing is known before a run; a program without inputs is not probed.
Init ==
  /\ done = {} /\ spent = 0 /\ answers = <<>>
  /\ report = IF DOMAIN ladders = {} THEN <<"n/a", [c \in cells |-> "indeterminate"]>> ELSE <<>>

Perform(r) ==
  /\ r \in Runs \ done
  /\ spent < budget
  /\ done' = done \cup {r}
  /\ spent' = spent + Seen(r).cost

\* Evidence is a run that moved the output.  A refusal needs the whole ladder;
\* a budget spent before the ladder was done only ever excuses.
Warranted(j, answer) ==
  LET performed == Ladder(j) \cap done'
  IN  \/ /\ answer = "live"
         /\ \E r \in performed : MovesAny(r)
      \/ /\ answer = "guarded" /\ performed = Ladder(j) /\ performed # {}
         /\ \A r \in performed : ~Completes(r)
      \/ /\ answer = "dead" /\ performed = Ladder(j)
         /\ \A r \in performed : Completes(r) /\ ~MovesAny(r)
      \/ /\ answer \in MixedAnswers /\ performed = Ladder(j)
         /\ \A r \in performed : ~MovesAny(r)
         /\ \E r \in performed : ~Completes(r)
         /\ \E r \in performed : Completes(r)
      \/ /\ answer = "indeterminate" /\ spent' >= budget
         /\ \A r \in performed : ~MovesAny(r)
         /\ performed = Ladder(j) => performed = {}

Answer(j) ==
  /\ j \in DOMAIN ladders \ DOMAIN answers
  /\ \E answer \in {"live", "guarded", "dead", "indeterminate"} :
       /\ Warranted(j, answer)
       /\ answers' = [l \in DOMAIN answers \cup {j} |-> IF l = j THEN answer ELSE answers[l]]

\* The strongest of the answers, in this order.
Ranked == <<"live", "indeterminate", "guarded", "dead">>

Given(answer) == \E j \in DOMAIN answers : answers[j] = answer

Strongest == {Ranked[n] : n \in {m \in 1 .. 4 : Given(Ranked[m]) /\ \A l \in 1 .. m - 1 : ~Given(Ranked[l])}}

\* A cell is dead if every run there is was performed, one at least completed,
\* and none moved it.
CellAnswer(c, whole) ==
  IF \E r \in done : Moves(r, c) THEN "live"
  ELSE IF whole /\ \E r \in done : Completes(r) THEN "dead"
  ELSE "indeterminate"

Return ==
  /\ DOMAIN answers = DOMAIN ladders
  /\ \E whole \in BOOLEAN, verdict \in Strongest :
       /\ whole => done = Runs
       /\ ~whole => spent >= budget
       /\ report' = <<verdict, [c \in cells |-> CellAnswer(c, whole)]>>
  /\ UNCHANGED <<done, spent, answers>>

\* A run, an answer, or the run that settles the answer.
Next ==
  /\ report = <<>>
  /\ UNCHANGED <<ladders, cells, budget>>
  /\ \/ /\ \E r \in Runs : Perform(r) /\ (UNCHANGED answers \/ Answer(r[1]))
        /\ UNCHANGED report
     \/ /\ \E j \in DOMAIN ladders : Answer(j)
        /\ UNCHANGED <<done, spent, report>>
     \/ Return

Spec == Init /\ [][Next]_vars

=============================================================================
