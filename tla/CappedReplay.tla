---------------------------- MODULE CappedReplay ----------------------------
(***************************************************************************)
(* A call of run_counted beside its twin, the call with the same program   *)
(* and inputs and no step cap: a receipt is re-derived without a cap, and  *)
(* the liveness probe repeats the run under one (verify.py:287).  Both are *)
(* ReplayMachine; they share nothing but their arguments and run at their  *)
(* own pace.  The docstring of run_counted promises that the cap can only  *)
(* shorten a call: short of the cap the two are the same computation, byte *)
(* for byte.                                                               *)
(***************************************************************************)
EXTENDS ReplayMachine

VARIABLES freeStatus, freeReason, freeMem, freePc, freeSteps

freeVars == <<freeStatus, freeReason, freeMem, freePc, freeSteps>>

Free == INSTANCE ReplayMachine WITH
  call <- [call EXCEPT !.cap = NoCap], status <- freeStatus, reason <- freeReason,
  mem <- freeMem, pc <- freePc, steps <- freeSteps

PairInit == Init /\ Free!Called

PairNext ==
  \/ UNCHANGED freeVars /\ Next
  \/ UNCHANGED vars /\ Free!Next

\* The caller waits for the call; nothing waits for its twin.
PairSpec == PairInit /\ [][PairNext]_<<vars, freeVars>> /\ Fairness

-----------------------------------------------------------------------------
(* Properties. *)

\* Whenever the call and its twin have retired equally many instructions and
\* both are still executing, they are at the same instruction with the same
\* memory: the machine has no state but what the arguments fix (replay.py:282).
SameComputation ==
  status = "running" /\ freeStatus = "running" /\ steps = freeSteps =>
    pc = freePc /\ mem = freeMem

\* When both are over, either they agree on everything a caller can see
\* (outcome, output window, steps charged), or the call hit its cap: then it
\* charged exactly the cap, and the twin did go on past it (replay.py:297-301).
CapOnlyTruncates ==
  Done /\ Free!Done =>
    \/ /\ status = freeStatus /\ reason = freeReason /\ steps = freeSteps
       /\ status = "halted" => Output = Free!Output
    \/ /\ reason = "budget" /\ call.cap # NoCap /\ steps = call.cap
       /\ freeSteps > call.cap
=============================================================================
