------------------------- MODULE CommandLineProofs -------------------------
(***************************************************************************)
(* First the ladder of TrustLadder: the verdict of verify() is the         *)
(* conjunction of its rungs, for every receipt and call, because the rungs *)
(* passed so far are exactly what the receipt and the local booleans say,  *)
(* on every early return and exception; and a pinned call is answered.     *)
(* Then the command that climbs it once per file: its exit code says of    *)
(* the files what the ladder says of each.                                 *)
(***************************************************************************)
EXTENDS CommandLine, SequenceTheorems, WellFoundedInduction, TLAPS

ReplayRungs == {"replay", "digest", "run", "length", "liveness", "replay verdict"}
TauRungs == {"tau", "evolve", "array", "tau verdict"}

TypeOK ==
  /\ receipt \in Receipt
  /\ call.expect \in Programs \cup {None} /\ call.strict \in BOOLEAN
  /\ pc \in {"integrity", "spec", "kernel", "signature", "finish", "done"}
              \cup ReplayRungs \cup TauRungs
  /\ integrity \in BOOLEAN /\ verified \in BOOLEAN
  /\ rung \in [digest : BOOLEAN, length : BOOLEAN, live : BOOLEAN,
                input : BOOLEAN, array : BOOLEAN]

\* What the rungs every receipt takes have established.
Climbed ==
  /\ pc \notin {"integrity", "finish", "done"} => receipt.object /\ integrity = receipt.intact
  /\ pc \in {"kernel"} \cup ReplayRungs \cup TauRungs => receipt.spec = "v1"
  /\ pc \in ReplayRungs => receipt.kernel = "replay"
  /\ pc \in TauRungs => receipt.kernel = "tau"
  /\ pc = "signature" => ~Rederives

\* What _verify_replay has established.
Replayed ==
  /\ pc \in ReplayRungs \ {"replay"} =>
       receipt.params /\ receipt.inputs /\ receipt.program # None
  /\ pc \in ReplayRungs \ {"replay", "digest"} =>
       /\ receipt.program \in Programs
       /\ rung.digest = (receipt.stated \in {None, receipt.program})
  /\ pc \in {"length", "liveness", "replay verdict"} =>
       receipt.run # "trap" /\ reproduced = (receipt.run = receipt.want)
  /\ pc \in {"liveness", "replay verdict"} =>
       rung.length = (receipt.length \in {None, "right"})
  /\ pc = "replay verdict" => rung.live = LiveEnough

\* What the fixed kernel's rungs have established.
Evolved ==
  /\ pc \in TauRungs \ {"tau"} =>
       /\ receipt.params /\ receipt.build # Malformed
       /\ rung.input = (receipt.input \in {None, receipt.build})
  /\ pc \in {"array", "tau verdict"} => reproduced = (receipt.run = receipt.want)
  /\ pc = "tau verdict" => rung.array = (receipt.array = "right")

\* No verdict before the last rung, and then that of the receipt.
Judged ==
  /\ pc \notin {"finish", "done"} => verified = FALSE
  /\ pc = "finish" => (verified <=> Rederives /\ Gate)

IInv == TypeOK /\ Climbed /\ Replayed /\ Evolved /\ Judged /\ VerifiedIsAllRungs

-----------------------------------------------------------------------------

LEMMA InitIInv == Init => IInv
<1> SUFFICES ASSUME Init PROVE IInv
  OBVIOUS
<1>1. /\ pc = "integrity" /\ verified = FALSE /\ integrity = FALSE
      /\ receipt \in Receipts /\ call \in Calls
  BY DEF Init
<1>2. rung \in [digest : BOOLEAN, length : BOOLEAN, live : BOOLEAN,
                input : BOOLEAN, array : BOOLEAN]
  BY DEF Init
<1>3. TypeOK
  <2>1. receipt \in Receipt /\ call.expect \in Programs \cup {None} /\ call.strict \in BOOLEAN
    BY <1>1, InputAssumption
  <2> QED BY <1>1, <1>2, <2>1 DEF TypeOK
<1>4. Climbed /\ Judged /\ VerifiedIsAllRungs
  BY <1>1 DEF Climbed, Judged, VerifiedIsAllRungs, AcceptedAs, Rederives, ReplayRungs, TauRungs
<1>5. Replayed /\ Evolved
  BY <1>1 DEF Replayed, Evolved, ReplayRungs, TauRungs
<1> QED BY <1>3, <1>4, <1>5 DEF IInv

\* What a verdict rests on does not change while a receipt is judged.
LEMMA SameReceipt ==
  ASSUME receipt' = receipt, call' = call
  PROVE  (Rederives' <=> Rederives) /\ (Gate' <=> Gate) /\ (LiveEnough' <=> LiveEnough)
BY DEF Rederives, RederivesAs, Gate, LiveEnough

\* An exception refuses: it leaves the verdict at FALSE, and is raised only by
\* a receipt that does not deserve another.
LEMMA RaiseKeepsIInv ==
  ASSUME IInv, pc \notin {"finish", "done"}, Raise, receipt' = receipt, call' = call,
         ~(Rederives /\ Gate)
  PROVE  IInv'
<1>1. /\ pc' = "finish" /\ verified' = verified /\ verified = FALSE
      /\ integrity' = integrity /\ rung' = rung
  BY DEF Raise, result, IInv, Judged
<1>2. TypeOK'
  BY <1>1 DEF IInv, TypeOK
<1>3. Judged'
  BY <1>1, SameReceipt DEF Judged
<1> QED BY <1>1, <1>2, <1>3 DEF IInv, Climbed, Replayed, Evolved, VerifiedIsAllRungs, AcceptedAs, Rederives,
                                ReplayRungs, TauRungs

\* A verdict that is that of the receipt, conjoined with the signature's.
LEMMA JudgeKeepsIInv ==
  ASSUME IInv, pc \notin {"finish", "done"}, receipt' = receipt, call' = call,
         NEW verdict, verdict <=> Rederives, Judge(verdict)
  PROVE  IInv'
<1>1. CASE receipt.sig = Malformed
  <2>1. Raise /\ ~Gate
    BY <1>1 DEF Judge, Gate, Malformed
  <2> QED BY <2>1, RaiseKeepsIInv
<1>2. CASE receipt.sig # Malformed
  <2>1. /\ pc' = "finish" /\ verified' = (verdict /\ Gate)
        /\ integrity' = integrity /\ rung' = rung
    BY <1>2 DEF Judge, Goto
  <2>2. verified' \in BOOLEAN
    BY <2>1
  <2>3. TypeOK'
    BY <2>1, <2>2 DEF IInv, TypeOK
  <2>4. verified' <=> Rederives' /\ Gate'
    BY <2>1, SameReceipt, Zenon
  <2>5. Judged'
    BY <2>1, <2>4 DEF Judged
  <2> QED BY <2>1, <2>3, <2>5 DEF IInv, Climbed, Replayed, Evolved, VerifiedIsAllRungs, AcceptedAs, Rederives,
                                  ReplayRungs, TauRungs
<1> QED BY <1>1, <1>2

\* A rung that is climbed without a verdict.
LEMMA ClimbKeepsIInv ==
  ASSUME IInv, receipt' = receipt, call' = call, verified' = verified,
         pc \notin {"finish", "done"}, pc' \notin {"finish", "done"},
         TypeOK', Climbed', Replayed', Evolved'
  PROVE  IInv'
<1>1. Judged' /\ VerifiedIsAllRungs'
  BY DEF IInv, Judged, VerifiedIsAllRungs, AcceptedAs, Rederives
<1> QED BY <1>1 DEF IInv

LEMMA CheckIntegrityStep == ASSUME IInv, CheckIntegrity PROVE IInv'
<1>1. pc = "integrity" /\ receipt' = receipt /\ call' = call
  BY DEF CheckIntegrity
<1>2. CASE ~receipt.object
  <2>1. Raise
    BY <1>2 DEF CheckIntegrity
  <2>2. ~Rederives
    BY <1>2 DEF Rederives, RederivesAs
  <2> QED BY <1>1, <2>1, <2>2, RaiseKeepsIInv
<1>3. CASE receipt.object
  <2>1. pc' = "spec" /\ integrity' = receipt.intact /\ verified' = verified /\ rung' = rung
    BY <1>3 DEF CheckIntegrity, Goto
  <2>2. TypeOK'
    BY <1>1, <2>1 DEF IInv, TypeOK, Receipt
  <2>3. Climbed' /\ Replayed' /\ Evolved'
    BY <1>1, <1>3, <2>1 DEF Climbed, Replayed, Evolved, ReplayRungs, TauRungs
  <2> QED BY <1>1, <2>1, <2>2, <2>3, ClimbKeepsIInv
<1> QED BY <1>2, <1>3

LEMMA CheckSpecStep == ASSUME IInv, CheckSpec PROVE IInv'
<1>1. /\ pc = "spec" /\ receipt' = receipt /\ call' = call
      /\ verified' = verified /\ integrity' = integrity /\ rung' = rung
      /\ pc' = IF receipt.spec = "v1" THEN "kernel" ELSE "signature"
  BY DEF CheckSpec, Goto
<1>2. TypeOK'
  BY <1>1 DEF IInv, TypeOK
<1>3. receipt.spec # "v1" => ~Rederives
  BY DEF Rederives, RederivesAs
<1>4. Climbed'
  BY <1>1, <1>3, SameReceipt DEF IInv, Climbed, ReplayRungs, TauRungs
<1>5. Replayed' /\ Evolved'
  BY <1>1 DEF Replayed, Evolved, ReplayRungs, TauRungs
<1> QED BY <1>1, <1>2, <1>4, <1>5, ClimbKeepsIInv

LEMMA ChooseKernelStep == ASSUME IInv, ChooseKernel PROVE IInv'
<1>1. /\ pc = "kernel" /\ receipt' = receipt /\ call' = call
      /\ verified' = verified /\ integrity' = integrity /\ rung' = rung
      /\ pc' = IF receipt.kernel = "other" THEN "signature" ELSE receipt.kernel
  BY DEF ChooseKernel, Goto, result
<1>2. receipt.kernel \in {"replay", "tau", "other"}
  BY DEF IInv, TypeOK, Receipt
<1>3. TypeOK'
  BY <1>1, <1>2 DEF IInv, TypeOK, ReplayRungs, TauRungs
<1>4. receipt.kernel = "other" => ~Rederives
  BY DEF Rederives, RederivesAs
<1>5. Climbed'
  <2>1. receipt.object /\ integrity = receipt.intact /\ receipt.spec = "v1"
    BY <1>1 DEF IInv, Climbed
  <2>2. pc' = "signature" => ~Rederives'
    BY <1>1, <1>2, <1>4, SameReceipt
  <2> QED BY <1>1, <1>2, <2>1, <2>2 DEF Climbed, ReplayRungs, TauRungs
<1>6. Replayed' /\ Evolved'
  BY <1>1, <1>2 DEF Replayed, Evolved, ReplayRungs, TauRungs
<1>7. pc' \notin {"finish", "done"}
  BY <1>1, <1>2
<1> QED BY <1>1, <1>3, <1>5, <1>6, <1>7, ClimbKeepsIInv

LEMMA SignatureOnlyStep == ASSUME IInv, SignatureOnly PROVE IInv'
<1>1. pc = "signature" /\ receipt' = receipt /\ call' = call /\ Judge(FALSE)
  BY DEF SignatureOnly
<1>2. ~Rederives
  BY <1>1 DEF IInv, Climbed
<1>3. FALSE <=> Rederives
  BY <1>2
<1>4. pc \notin {"finish", "done"}
  BY <1>1
<1> QED BY <1>1, <1>3, <1>4, JudgeKeepsIInv

-----------------------------------------------------------------------------
(* The rungs of _verify_replay.                                            *)

LEMMA ReplayParamsStep == ASSUME IInv, ReplayParams PROVE IInv'
<1> DEFINE complete == receipt.params /\ receipt.program # None /\ receipt.inputs
<1>1. /\ pc = "replay" /\ receipt' = receipt /\ call' = call
      /\ verified' = verified /\ integrity' = integrity /\ rung' = rung
      /\ pc' = IF complete THEN "digest" ELSE "signature"
  BY DEF ReplayParams, Goto, result
<1>2. receipt.object /\ integrity = receipt.intact /\ receipt.spec = "v1"
      /\ receipt.kernel = "replay"
  BY <1>1 DEF IInv, Climbed, ReplayRungs
<1>3. ~complete => ~Rederives
  BY <1>2, TokenAssumption DEF Rederives, RederivesAs
<1>4. TypeOK'
  BY <1>1 DEF IInv, TypeOK, ReplayRungs
<1>5. Climbed'
  <2>1. pc' = "signature" => ~Rederives'
    BY <1>1, <1>3, SameReceipt
  <2> QED BY <1>1, <1>2, <2>1 DEF Climbed, ReplayRungs, TauRungs
<1>6. Replayed' /\ Evolved'
  BY <1>1 DEF Replayed, Evolved, ReplayRungs, TauRungs
<1> QED BY <1>1, <1>4, <1>5, <1>6, ClimbKeepsIInv

LEMMA ReplayDigestStep == ASSUME IInv, ReplayDigest PROVE IInv'
<1>1. /\ pc = "digest" /\ receipt' = receipt /\ call' = call
      /\ receipt.kernel = "replay" /\ receipt.params /\ receipt.inputs /\ receipt.program # None
  BY DEF ReplayDigest, IInv, Climbed, Replayed, ReplayRungs
<1>2. CASE receipt.program = Malformed
  <2>1. Raise
    BY <1>2 DEF ReplayDigest
  <2>2. ~Rederives
    BY <1>1, <1>2, TokenAssumption DEF Rederives, RederivesAs
  <2> QED BY <1>1, <2>1, <2>2, RaiseKeepsIInv
<1>3. CASE receipt.program # Malformed
  <2> DEFINE ok == receipt.stated \in {None, receipt.program}
  <2>1. /\ pc' = "run" /\ verified' = verified /\ integrity' = integrity
        /\ rung' = [rung EXCEPT !.digest = ok]
    BY <1>3 DEF ReplayDigest, Goto, result
  <2>0. ok \in BOOLEAN
    OBVIOUS
  <2> HIDE DEF ok
  <2>2. receipt.program \in Programs
    BY <1>1, <1>3 DEF IInv, TypeOK, Receipt
  <2>3. TypeOK' /\ rung'.digest = ok
    BY <1>1, <2>0, <2>1 DEF IInv, TypeOK, ReplayRungs
  <2>4. Climbed'
    BY <1>1, <2>1 DEF IInv, Climbed, ReplayRungs, TauRungs
  <2>5. Replayed' /\ Evolved'
    BY <1>1, <2>1, <2>2, <2>3 DEF Replayed, Evolved, ReplayRungs, TauRungs, ok
  <2> QED BY <1>1, <2>1, <2>3, <2>4, <2>5, ClimbKeepsIInv
<1> QED BY <1>2, <1>3

LEMMA ReplayTrapStep == ASSUME IInv, ReplayTrap PROVE IInv'
<1>1. /\ pc = "run" /\ receipt' = receipt /\ call' = call /\ receipt.run = "trap"
      /\ verified' = verified /\ integrity' = integrity /\ rung' = rung
      /\ pc' = "signature"
  BY DEF ReplayTrap, Goto, result
<1>2. receipt.want # "trap"
  BY TokenAssumption DEF IInv, TypeOK, Receipt, Hashes, Malformed
<1>3. ~Rederives
  BY <1>1, <1>2 DEF Rederives, RederivesAs
<1>4. TypeOK'
  BY <1>1 DEF IInv, TypeOK
<1>5. Climbed'
  <2>1. ~Rederives'
    BY <1>1, <1>3, SameReceipt
  <2> QED BY <1>1, <2>1 DEF IInv, Climbed, ReplayRungs, TauRungs
<1>6. Replayed' /\ Evolved'
  BY <1>1 DEF Replayed, Evolved, ReplayRungs, TauRungs
<1> QED BY <1>1, <1>4, <1>5, <1>6, ClimbKeepsIInv

LEMMA ReplayOutputStep == ASSUME IInv, ReplayOutput PROVE IInv'
<1>1. /\ pc = "run" /\ receipt' = receipt /\ call' = call
      /\ receipt.run \in Hashes /\ receipt.run # "trap"
  BY DEF ReplayOutput, IInv, TypeOK, Receipt
<1>2. CASE receipt.want = Malformed
  <2>1. Raise
    BY <1>2 DEF ReplayOutput
  <2>2. ~Rederives
    BY <1>1, <1>2 DEF Rederives, RederivesAs, Hashes, Malformed
  <2> QED BY <1>1, <2>1, <2>2, RaiseKeepsIInv
<1>3. CASE receipt.want # Malformed
  <2>1. /\ pc' = "length" /\ verified' = verified /\ integrity' = integrity /\ rung' = rung
        /\ reproduced' = (receipt.run = receipt.want)
    BY <1>3 DEF ReplayOutput, Compare, Goto
  <2>2. TypeOK'
    BY <1>1, <2>1 DEF IInv, TypeOK, ReplayRungs
  <2>3. Climbed'
    BY <1>1, <2>1 DEF IInv, Climbed, ReplayRungs, TauRungs
  <2>4. Replayed' /\ Evolved'
    BY <1>1, <2>1 DEF IInv, Replayed, Evolved, ReplayRungs, TauRungs
  <2> QED BY <1>1, <2>1, <2>2, <2>3, <2>4, ClimbKeepsIInv
<1> QED BY <1>2, <1>3

LEMMA ReplayLengthStep == ASSUME IInv, ReplayLength PROVE IInv'
<1> DEFINE ok == receipt.length \in {None, "right"}
<1>1. /\ pc = "length" /\ receipt' = receipt /\ call' = call
      /\ pc' = "liveness" /\ verified' = verified /\ integrity' = integrity
      /\ reproduced' = reproduced /\ rung' = [rung EXCEPT !.length = ok]
  BY DEF ReplayLength, Goto, result
<1>0. ok \in BOOLEAN
  OBVIOUS
<1> HIDE DEF ok
<1>2. TypeOK' /\ rung'.length = ok /\ rung'.digest = rung.digest
  BY <1>0, <1>1 DEF IInv, TypeOK, ReplayRungs
<1>3. Climbed'
  BY <1>1 DEF IInv, Climbed, ReplayRungs, TauRungs
<1>4. Replayed' /\ Evolved'
  BY <1>1, <1>2 DEF IInv, Replayed, Evolved, ReplayRungs, TauRungs, ok
<1> QED BY <1>1, <1>2, <1>3, <1>4, ClimbKeepsIInv

LEMMA ReplayLivenessStep == ASSUME IInv, ReplayLiveness PROVE IInv'
<1>1. /\ pc = "liveness" /\ receipt' = receipt /\ call' = call
      /\ pc' = "replay verdict" /\ verified' = verified /\ integrity' = integrity
      /\ reproduced' = reproduced /\ rung' = [rung EXCEPT !.live = LiveEnough]
  BY DEF ReplayLiveness, Goto, result
<1>2. LiveEnough \in BOOLEAN
  BY DEF LiveEnough
<1>3. /\ TypeOK' /\ rung'.live = LiveEnough
      /\ rung'.length = rung.length /\ rung'.digest = rung.digest
  BY <1>1, <1>2 DEF IInv, TypeOK, ReplayRungs
<1>4. Climbed'
  BY <1>1 DEF IInv, Climbed, ReplayRungs, TauRungs
<1>5. LiveEnough' = LiveEnough
  BY <1>1 DEF LiveEnough
<1>6. Replayed' /\ Evolved'
  BY <1>1, <1>3, <1>5 DEF IInv, Replayed, Evolved, ReplayRungs, TauRungs
<1> QED BY <1>1, <1>3, <1>4, <1>6, ClimbKeepsIInv

LEMMA ReplayVerdictStep == ASSUME IInv, ReplayVerdict PROVE IInv'
<1> DEFINE verdict == integrity /\ reproduced /\ rung.digest /\ rung.length /\ rung.live
<1>1. pc = "replay verdict" /\ receipt' = receipt /\ call' = call /\ Judge(verdict)
  BY DEF ReplayVerdict
<1>2. /\ receipt.object /\ receipt.spec = "v1" /\ receipt.kernel = "replay"
      /\ receipt.params /\ receipt.inputs /\ receipt.program \in Programs
      /\ integrity = receipt.intact /\ reproduced = (receipt.run = receipt.want)
      /\ rung.digest = (receipt.stated \in {None, receipt.program})
      /\ rung.length = (receipt.length \in {None, "right"})
      /\ rung.live = LiveEnough
  BY <1>1 DEF IInv, Climbed, Replayed, ReplayRungs
<1>3. receipt.length \in {None, "right"} <=> receipt.length # "wrong"
  BY TokenAssumption DEF IInv, TypeOK, Receipt
<1>4. LiveEnough <=> receipt.liveness \in IF call.strict THEN {"live"}
                                          ELSE {"live", "indeterminate", "n/a"}
  BY DEF IInv, TypeOK, Receipt, LiveEnough
<1>5. verdict <=> Rederives
  BY <1>2, <1>3, <1>4 DEF Rederives, RederivesAs
<1>6. pc \notin {"finish", "done"}
  BY <1>1
<1> QED BY <1>1, <1>5, <1>6, JudgeKeepsIInv

-----------------------------------------------------------------------------
(* The rungs of the fixed kernel.                                          *)

LEMMA TauBuildStep == ASSUME IInv, TauBuild PROVE IInv'
<1>1. pc = "tau" /\ receipt' = receipt /\ call' = call /\ receipt.kernel = "tau"
  BY DEF TauBuild, IInv, Climbed, TauRungs
<1>2. CASE ~receipt.params
  <2>1. /\ pc' = "signature" /\ verified' = verified /\ integrity' = integrity
        /\ rung' = rung
    BY <1>2 DEF TauBuild, Goto, result
  <2>2. ~Rederives
    BY <1>2 DEF Rederives, RederivesAs
  <2>3. TypeOK'
    BY <1>1, <2>1 DEF IInv, TypeOK
  <2>4. Climbed'
    <3>1. ~Rederives'
      BY <1>1, <2>2, SameReceipt
    <3> QED BY <1>1, <2>1, <3>1 DEF IInv, Climbed, ReplayRungs, TauRungs
  <2>5. Replayed' /\ Evolved'
    BY <1>1, <2>1 DEF Replayed, Evolved, ReplayRungs, TauRungs
  <2> QED BY <1>1, <2>1, <2>3, <2>4, <2>5, ClimbKeepsIInv
<1>3. CASE receipt.params /\ Malformed \in {receipt.build, receipt.input}
  <2>1. Raise
    BY <1>3 DEF TauBuild
  <2>2. ~Rederives
    BY <1>1, <1>3, TokenAssumption DEF Rederives, RederivesAs
  <2> QED BY <1>1, <2>1, <2>2, RaiseKeepsIInv
<1>4. CASE receipt.params /\ Malformed \notin {receipt.build, receipt.input}
  <2> DEFINE ok == receipt.input \in {None, receipt.build}
  <2>1. /\ pc' = "evolve" /\ verified' = verified /\ integrity' = integrity
        /\ rung' = [rung EXCEPT !.input = ok]
    BY <1>4 DEF TauBuild, Goto, result
  <2>0. ok \in BOOLEAN
    OBVIOUS
  <2> HIDE DEF ok
  <2>2. TypeOK' /\ rung'.input = ok
    BY <1>1, <2>0, <2>1 DEF IInv, TypeOK, TauRungs
  <2>3. Climbed'
    BY <1>1, <2>1 DEF IInv, Climbed, ReplayRungs, TauRungs
  <2>4. Replayed' /\ Evolved'
    BY <1>1, <1>4, <2>1, <2>2 DEF Replayed, Evolved, ReplayRungs, TauRungs, ok
  <2> QED BY <1>1, <2>1, <2>2, <2>3, <2>4, ClimbKeepsIInv
<1> QED BY <1>2, <1>3, <1>4

LEMMA TauEvolveStep == ASSUME IInv, TauEvolve PROVE IInv'
<1>1. /\ pc = "evolve" /\ receipt' = receipt /\ call' = call
      /\ receipt.run \in Hashes \cup {"trap"}
  BY DEF TauEvolve, IInv, TypeOK, Receipt
<1>2. CASE receipt.want = Malformed
  <2>1. Raise
    BY <1>2 DEF TauEvolve
  <2>2. ~Rederives
    BY <1>1, <1>2 DEF Rederives, RederivesAs, Hashes, Malformed
  <2> QED BY <1>1, <2>1, <2>2, RaiseKeepsIInv
<1>3. CASE receipt.want # Malformed
  <2>1. /\ pc' = "array" /\ verified' = verified /\ integrity' = integrity /\ rung' = rung
        /\ reproduced' = (receipt.run = receipt.want)
    BY <1>3 DEF TauEvolve, Compare, Goto
  <2>2. TypeOK'
    BY <1>1, <2>1 DEF IInv, TypeOK, TauRungs
  <2>3. Climbed'
    BY <1>1, <2>1 DEF IInv, Climbed, ReplayRungs, TauRungs
  <2>4. Replayed' /\ Evolved'
    BY <1>1, <2>1 DEF IInv, Replayed, Evolved, ReplayRungs, TauRungs
  <2> QED BY <1>1, <2>1, <2>2, <2>3, <2>4, ClimbKeepsIInv
<1> QED BY <1>2, <1>3

LEMMA TauArrayStep == ASSUME IInv, TauArray PROVE IInv'
<1>1. pc = "array" /\ receipt' = receipt /\ call' = call /\ receipt.kernel = "tau"
  BY DEF TauArray, IInv, Climbed, TauRungs
<1>2. CASE receipt.array = Malformed
  <2>1. Raise
    BY <1>2 DEF TauArray
  <2>2. ~Rederives
    BY <1>1, <1>2 DEF Rederives, RederivesAs, Malformed
  <2> QED BY <1>1, <2>1, <2>2, RaiseKeepsIInv
<1>3. CASE receipt.array # Malformed
  <2> DEFINE ok == receipt.array = "right"
  <2>1. /\ pc' = "tau verdict" /\ verified' = verified /\ integrity' = integrity
        /\ reproduced' = reproduced /\ rung' = [rung EXCEPT !.array = ok]
    BY <1>3 DEF TauArray, Goto, result
  <2>0. ok \in BOOLEAN
    OBVIOUS
  <2> HIDE DEF ok
  <2>2. TypeOK' /\ rung'.array = ok /\ rung'.input = rung.input
    BY <1>1, <2>0, <2>1 DEF IInv, TypeOK, TauRungs
  <2>3. Climbed'
    BY <1>1, <2>1 DEF IInv, Climbed, ReplayRungs, TauRungs
  <2>4. Replayed' /\ Evolved'
    BY <1>1, <2>1, <2>2 DEF IInv, Replayed, Evolved, ReplayRungs, TauRungs, ok
  <2> QED BY <1>1, <2>1, <2>2, <2>3, <2>4, ClimbKeepsIInv
<1> QED BY <1>2, <1>3

LEMMA TauVerdictStep == ASSUME IInv, TauVerdict PROVE IInv'
<1> DEFINE verdict == integrity /\ reproduced /\ rung.input /\ rung.array
<1>1. pc = "tau verdict" /\ receipt' = receipt /\ call' = call /\ Judge(verdict)
  BY DEF TauVerdict
<1>2. /\ receipt.object /\ receipt.spec = "v1" /\ receipt.kernel = "tau"
      /\ receipt.params /\ receipt.build # Malformed
      /\ integrity = receipt.intact /\ reproduced = (receipt.run = receipt.want)
      /\ rung.input = (receipt.input \in {None, receipt.build})
      /\ rung.array = (receipt.array = "right")
  BY <1>1 DEF IInv, Climbed, Evolved, TauRungs
<1>3. verdict <=> Rederives
  BY <1>2 DEF Rederives, RederivesAs
<1>4. pc \notin {"finish", "done"}
  BY <1>1
<1> QED BY <1>1, <1>3, <1>4, JudgeKeepsIInv

-----------------------------------------------------------------------------
(* finish(), and the theorem.                                              *)

\* Without a pin the verdict stands.  A receipt that is no object has none.
LEMMA FinishUnpinnedStep == ASSUME IInv, FinishUnpinned PROVE IInv'
<1>1. /\ pc = "finish" /\ pc' = "done" /\ receipt' = receipt /\ call' = call
      /\ verified' = verified /\ integrity' = integrity /\ rung' = rung
      /\ call.expect = None \/ ~receipt.object
  BY DEF FinishUnpinned, Goto, result
<1>2. TypeOK'
  BY <1>1 DEF IInv, TypeOK
<1>3. Climbed' /\ Replayed' /\ Evolved' /\ Judged'
  BY <1>1 DEF Climbed, Replayed, Evolved, Judged, ReplayRungs, TauRungs
<1>4. verified <=> Rederives /\ Gate
  BY <1>1 DEF IInv, Judged
<1>5. Rederives => call.expect = None
  BY <1>1 DEF Rederives, RederivesAs
<1>6. verified' <=> Rederives' /\ Gate' /\ call'.expect \in {None, receipt'.program}
  BY <1>1, <1>4, <1>5, SameReceipt
<1>7. VerifiedIsAllRungs'
  BY <1>6 DEF VerifiedIsAllRungs, AcceptedAs, Rederives, Gate
<1> QED BY <1>2, <1>3, <1>7 DEF IInv

\* A pin is compared with the program the receipt carries.  The fixed kernel
\* needs none, so the comparison refuses any receipt of it without one.
LEMMA FinishPinnedStep == ASSUME IInv, FinishPinned PROVE IInv'
<1>1. /\ pc = "finish" /\ pc' = "done" /\ receipt' = receipt /\ call' = call
      /\ call.expect # None /\ integrity' = integrity /\ rung' = rung
      /\ verified' = (verified /\ approved') /\ approved' = (ProgramDigest = call.expect)
  BY DEF FinishPinned, Goto
<1>2. verified' <=> verified /\ ProgramDigest = call.expect
  BY <1>1
<1>3. verified' \in BOOLEAN
  BY <1>1
<1>4. TypeOK'
  BY <1>1, <1>3 DEF IInv, TypeOK
<1>5. Climbed' /\ Replayed' /\ Evolved' /\ Judged'
  BY <1>1 DEF Climbed, Replayed, Evolved, Judged, ReplayRungs, TauRungs
<1>6. verified <=> Rederives /\ Gate
  BY <1>1 DEF IInv, Judged
<1>7. call.expect \in Programs /\ call.expect # Malformed
  BY <1>1, TokenAssumption DEF IInv, TypeOK
<1>8. Rederives => (ProgramDigest = call.expect <=> call.expect \in {None, receipt.program})
  BY <1>1, <1>7 DEF Rederives, RederivesAs, ProgramDigest
<1>9. verified' <=> Rederives' /\ Gate' /\ call'.expect \in {None, receipt'.program}
  BY <1>1, <1>2, <1>6, <1>8, SameReceipt
<1>10. VerifiedIsAllRungs'
  BY <1>9 DEF VerifiedIsAllRungs, AcceptedAs, Rederives, Gate
<1> QED BY <1>4, <1>5, <1>10 DEF IInv

LEMMA Stutter == ASSUME IInv, UNCHANGED vars PROVE IInv'
<1>1. TypeOK'
  BY DEF vars, IInv, TypeOK
<1>2. Climbed'
  BY DEF vars, IInv, Climbed, Rederives, RederivesAs
<1>3. Replayed' /\ Evolved'
  BY DEF vars, IInv, Replayed, Evolved, LiveEnough
<1>4. Judged' /\ VerifiedIsAllRungs'
  BY DEF vars, IInv, Judged, VerifiedIsAllRungs, AcceptedAs, Rederives, RederivesAs, Gate
<1> QED BY <1>1, <1>2, <1>3, <1>4 DEF IInv

LEMMA StepKeepsIInv == ASSUME IInv, [Next]_vars PROVE IInv'
<1>1. CASE Common
  BY <1>1, CheckIntegrityStep, CheckSpecStep, ChooseKernelStep, SignatureOnlyStep DEF Common
<1>2. CASE Replay
  BY <1>2, ReplayParamsStep, ReplayDigestStep, ReplayTrapStep, ReplayOutputStep,
     ReplayLengthStep, ReplayLivenessStep, ReplayVerdictStep DEF Replay
<1>3. CASE Tau
  BY <1>3, TauBuildStep, TauEvolveStep, TauArrayStep, TauVerdictStep DEF Tau
<1>4. CASE FinishUnpinned \/ FinishPinned
  BY <1>4, FinishUnpinnedStep, FinishPinnedStep
<1>5. CASE UNCHANGED vars
  BY <1>5, Stutter
<1> QED BY <1>1, <1>2, <1>3, <1>4, <1>5 DEF Next

\* At every point of verify() the rungs passed say what the receipt contains.
THEOREM Invariance == Spec => []IInv
BY InitIInv, StepKeepsIInv, PTL DEF Spec

\* verify() returns `verified` exactly for a receipt that passes every rung of
\* its kernel, whose signature if any is valid, and whose program is the pinned
\* one if any is: for every set of receipts, programs and calls, on every early
\* return and wherever an exception leaves the ladder (verify.py:1-20, 573-681).
THEOREM VerdictIsAllRungs == Spec => []VerifiedIsAllRungs
<1>1. IInv => VerifiedIsAllRungs
  BY DEF IInv
<1> QED BY <1>1, Invariance, PTL

-----------------------------------------------------------------------------
(* The pin.                                                                *)

\* Only finish() ends the ladder, and nothing follows it.
LEMMA OnlyFinishEnds ==
  ASSUME IInv, Next, pc' = "done"
  PROVE  FinishUnpinned \/ FinishPinned
<1>1. CASE Common
  <2>1. ~CheckIntegrity /\ ~CheckSpec
    BY DEF CheckIntegrity, CheckSpec, Raise, Goto
  <2>2. ~ChooseKernel
    BY DEF ChooseKernel, Goto, IInv, TypeOK, Receipt
  <2>3. ~SignatureOnly
    BY DEF SignatureOnly, Judge, Raise, Goto
  <2> QED BY <1>1, <2>1, <2>2, <2>3 DEF Common
<1>2. CASE Replay
  <2>1. ~ReplayParams /\ ~ReplayDigest /\ ~ReplayTrap
    BY DEF ReplayParams, ReplayDigest, ReplayTrap, Raise, Goto
  <2>2. ~ReplayOutput /\ ~ReplayLength /\ ~ReplayLiveness /\ ~ReplayVerdict
    BY DEF ReplayOutput, Compare, ReplayLength, ReplayLiveness, ReplayVerdict, Judge, Raise, Goto
  <2> QED BY <1>2, <2>1, <2>2 DEF Replay
<1>3. CASE Tau
  <2>1. ~TauBuild /\ ~TauEvolve
    BY DEF TauBuild, TauEvolve, Compare, Raise, Goto
  <2>2. ~TauArray /\ ~TauVerdict
    BY DEF TauArray, TauVerdict, Judge, Raise, Goto
  <2> QED BY <1>3, <2>1, <2>2 DEF Tau
<1> QED BY <1>1, <1>2, <1>3 DEF Next

\* The answer is about the program carried: no program, no params and a program
\* that cannot be digested all refuse, since none of them is a pin.
LEMMA PinStep == ASSUME IInv, PinIsAnswered, [Next]_vars PROVE PinIsAnswered'
<1> SUFFICES ASSUME pc' = "done", receipt'.object, call'.expect # None
             PROVE  /\ approved' \in BOOLEAN
                    /\ approved' <=> receipt'.params /\ receipt'.program = call'.expect
  BY DEF PinIsAnswered
<1>1. CASE Next
  <2>1. FinishPinned
    BY <1>1, OnlyFinishEnds DEF FinishUnpinned
  <2>2. /\ receipt' = receipt /\ call' = call
        /\ approved' = (ProgramDigest = call.expect)
    BY <2>1 DEF FinishPinned
  <2>3. call.expect # Malformed
    BY <2>2, TokenAssumption DEF IInv, TypeOK, Malformed
  <2> QED BY <2>2, <2>3 DEF ProgramDigest
<1>2. CASE UNCHANGED vars
  BY <1>2 DEF vars, PinIsAnswered
<1> QED BY <1>1, <1>2

\* A pinned call ends with an answer about the program the receipt carries, on
\* every path to the end: also those that re-executed nothing, and those an
\* exception cut short (verify.py:573-590, 671-673).
THEOREM PinIsAlwaysAnswered == Spec => []PinIsAnswered
<1>1. Init => PinIsAnswered
  BY DEF Init, PinIsAnswered
<1> QED BY <1>1, Invariance, PinStep, PTL DEF Spec

-----------------------------------------------------------------------------
(* The lines of a list file.                                                 *)

\* Numbers are well founded.
LEMMA LeastOf ==
  ASSUME NEW T, T \subseteq Nat, T # {}
  PROVE  \E x \in T : \A y \in T : x <= y
<1>1. \E x \in T : \A y \in T : ~ (<<y, x>> \in OpToRel(<, Nat))
  BY WFMin, NatLessThanWellFounded, Zenon
<1>2. \A x \in Nat, y \in Nat : ~ (<<y, x>> \in OpToRel(<, Nat)) => x <= y
  BY DEF OpToRel
<1> QED
  BY <1>1, <1>2

\* The lines of a list that name a file are a list, however many there are.
LEMMA NamedInIsAList ==
  ASSUME NEW S, NEW list \in Seq(S \cup {Comment})
  PROVE  NamedIn(list) \in Seq(S)
<1> DEFINE Body(g, n) == IF n = 0 THEN <<>>
                         ELSE IF list[n] = Comment THEN g[n - 1] ELSE Append(g[n - 1], list[n])
           named == CHOOSE g : g = [n \in 0 .. Len(list) |-> Body(g, n)]
<1>1. NamedIn(list) = named[Len(list)]
  BY DEF NamedIn
<1>2. PICK size \in Nat : size = Len(list) /\ \A n \in 1 .. size : list[n] \in S \cup {Comment}
  OBVIOUS
<1> DEFINE Upto(m, g) == g \in [0 .. m -> Seq(S)] /\ \A n \in 0 .. m : g[n] = Body(g, n)
<1>3. \E g : Upto(0, g)
  <2> DEFINE g == [n \in 0 .. 0 |-> <<>>]
  <2>1. Upto(0, g)
    OBVIOUS
  <2> QED
    BY <2>1
<1>4. ASSUME NEW m \in 1 .. size, NEW g, Upto(m - 1, g)
      PROVE  \E h : Upto(m, h)
  <2> DEFINE h == [n \in 0 .. m |-> IF n = m THEN Body(g, m) ELSE g[n]]
  <2>1. list[m] \in S \cup {Comment} /\ m # 0 /\ m - 1 \in 0 .. m - 1 /\ g[m - 1] \in Seq(S)
    BY <1>2, <1>4
  <2>2. Body(g, m) \in Seq(S)
    BY <2>1
  <2>3. \A n \in 0 .. m : n = m \/ n \in 0 .. m - 1
    OBVIOUS
  <2> HIDE DEF Body
  <2>4. h \in [0 .. m -> Seq(S)] /\ h[m] = Body(g, m) /\ \A n \in 0 .. m - 1 : h[n] = g[n]
    BY <1>4, <2>2, <2>3
  <2>5. \A n \in 0 .. m : Body(h, n) = Body(g, n)
    <3> SUFFICES ASSUME NEW n \in 0 .. m PROVE Body(h, n) = Body(g, n)
      OBVIOUS
    <3>1. CASE n = 0
      BY <3>1 DEF Body
    <3>2. CASE n # 0
      <4>1. n - 1 \in 0 .. m - 1
        BY <3>2
      <4>2. h[n - 1] = g[n - 1]
        BY <2>4, <4>1
      <4> QED
        BY <3>2, <4>2 DEF Body
    <3> QED
      BY <3>1, <3>2
  <2>6. Upto(m, h)
    BY <1>4, <2>3, <2>4, <2>5
  <2> QED
    BY <2>6
<1>5. \E g : Upto(size, g)
  <2> HIDE DEF Upto
  <2> DEFINE bad == {m \in 0 .. size : ~\E g : Upto(m, g)}
  <2> SUFFICES ASSUME bad # {} PROVE FALSE
    <3>1. size \in 0 .. size
      BY <1>2
    <3> QED
      BY <3>1
  <2>1. PICK m \in bad : \A k \in bad : m <= k
    <3>1. bad \subseteq Nat
      OBVIOUS
    <3> HIDE DEF bad
    <3> QED
      BY <3>1, LeastOf
  <2>2. m # 0
    BY <1>3
  <2>3. m \in 1 .. size /\ m - 1 \in 0 .. size /\ m - 1 \notin bad
    BY <2>1, <2>2
  <2> QED
    BY <1>4, <2>3
<1>6. PICK g : Upto(size, g)
  BY <1>5
<1>7. g = [n \in 0 .. Len(list) |-> Body(g, n)]
  BY <1>2, <1>6
<1>8. named = [n \in 0 .. Len(list) |-> Body(named, n)]
  <2> HIDE DEF Body
  <2> QED
    BY <1>7
<1>9. \A n \in 0 .. size : named[n] = Body(named, n)
  BY <1>2, <1>8
<1>10. \A n \in 0 .. size : named[n] \in Seq(S)
  <2> DEFINE bad == {m \in 0 .. size : named[m] \notin Seq(S)}
  <2> HIDE DEF named
  <2> SUFFICES ASSUME bad # {} PROVE FALSE
    OBVIOUS
  <2>1. PICK m \in bad : \A k \in bad : m <= k
    <3>1. bad \subseteq Nat
      OBVIOUS
    <3> HIDE DEF bad
    <3> QED
      BY <3>1, LeastOf
  <2>2. m # 0
    <3>1. 0 \in 0 .. size => named[0] = <<>>
      BY <1>9
    <3>2. <<>> \in Seq(S)
      OBVIOUS
    <3> QED
      BY <2>1, <3>1, <3>2
  <2>3. m \in 1 .. size /\ m - 1 \in 0 .. size /\ m - 1 \notin bad
    BY <2>1, <2>2
  <2>4. named[m - 1] \in Seq(S) /\ list[m] \in S \cup {Comment}
    BY <1>2, <2>3
  <2>5. Body(named, m) \in Seq(S)
    BY <2>2, <2>4
  <2> QED
    BY <1>9, <2>1, <2>5
<1> QED
  BY <1>1, <1>2, <1>10
-----------------------------------------------------------------------------
(* The command.  First the signature that is reported.                       *)

\* Once the ladder ends, the signature was read or an exception came before it.
Reported ==
  pc \in {"finish", "done"} => signature = receipt.sig \/ (~verified /\ MayRaise(receipt))

\* An exception is reported as one, before the signature is read.
LEMMA RaisedIsReported ==
  ASSUME IInv, pc \notin {"finish", "done"}, Raise, receipt' = receipt, MayRaise(receipt)
  PROVE  Reported'
BY DEF IInv, Judged, Raise, result, Reported, MayRaise

\* The last rung of each path reads the signature, or it cannot be read.
LEMMA JudgedIsReported ==
  ASSUME IInv, pc \notin {"finish", "done"}, NEW verdict, Judge(verdict), receipt' = receipt
  PROVE  Reported'
<1>1. CASE receipt.sig = Malformed
  <2>1. Raise /\ MayRaise(receipt)
    BY <1>1 DEF Judge, MayRaise
  <2> QED
    BY <2>1, RaisedIsReported
<1>2. CASE receipt.sig # Malformed
  BY <1>2 DEF Judge, ReadSignature, Reported
<1> QED
  BY <1>1, <1>2

\* Each rung leaves the report in order.
LEMMA ReportedStep == ASSUME IInv, Reported, Next PROVE Reported'
<1> USE DEF Goto
<1>1. CASE CheckIntegrity
  BY <1>1, RaisedIsReported DEF CheckIntegrity, Reported, MayRaise
<1>2. CASE CheckSpec
  BY <1>2 DEF CheckSpec, Reported
<1>3. CASE ChooseKernel
  BY <1>3 DEF ChooseKernel, Reported, IInv, TypeOK, Receipt
<1>4. CASE SignatureOnly
  BY <1>4, JudgedIsReported DEF SignatureOnly
<1>5. CASE ReplayParams \/ ReplayTrap \/ ReplayLength \/ ReplayLiveness
  BY <1>5 DEF ReplayParams, ReplayTrap, ReplayLength, ReplayLiveness, Reported
<1>6. CASE ReplayDigest
  BY <1>6, RaisedIsReported DEF ReplayDigest, Reported, MayRaise
<1>7. CASE ReplayOutput
  BY <1>7, RaisedIsReported DEF ReplayOutput, Compare, Reported, MayRaise
<1>8. CASE ReplayVerdict
  BY <1>8, JudgedIsReported DEF ReplayVerdict
<1>9. CASE TauBuild
  BY <1>9, RaisedIsReported DEF TauBuild, Reported, MayRaise
<1>10. CASE TauEvolve
  BY <1>10, RaisedIsReported DEF TauEvolve, Compare, Reported, MayRaise
<1>11. CASE TauArray
  BY <1>11, RaisedIsReported DEF TauArray, Reported, MayRaise
<1>12. CASE TauVerdict
  BY <1>12, JudgedIsReported DEF TauVerdict
<1>13. CASE FinishUnpinned
  BY <1>13 DEF FinishUnpinned, result, Reported
<1>14. CASE FinishPinned
  BY <1>14 DEF FinishPinned, Reported, IInv, TypeOK
<1> QED
  BY <1>1, <1>2, <1>3, <1>4, <1>5, <1>6, <1>7, <1>8, <1>9, <1>10, <1>11, <1>12, <1>13, <1>14
     DEF Next, Common, Replay, Tau

\* A ladder that is not being climbed takes no step, and none changes its call.
LEMMA ClimbFrame ==
  ASSUME Next
  PROVE  pc # "idle" /\ receipt' = receipt /\ call' = call
<1>1. CASE Common
  BY <1>1 DEF Common, CheckIntegrity, CheckSpec, ChooseKernel, SignatureOnly
<1>2. CASE Replay
  BY <1>2 DEF Replay, ReplayParams, ReplayDigest, ReplayTrap, ReplayOutput, ReplayLength, ReplayLiveness,
              ReplayVerdict
<1>3. CASE Tau
  BY <1>3 DEF Tau, TauBuild, TauEvolve, TauArray, TauVerdict
<1>4. CASE FinishUnpinned \/ FinishPinned
  BY <1>4 DEF FinishUnpinned, FinishPinned
<1> QED
  BY <1>1, <1>2, <1>3, <1>4 DEF Next

-----------------------------------------------------------------------------
(* Then the count.  What is left to do and what was seen make up the work of *)
(* the stage; failures were counted exactly if one seen was a surprise.      *)

AnyForged ==
  {job \in [kind : {"forged"}, receipt : Receipt, expected : {FALSE}] : ~MayRaise(job.receipt)}

Job == AnyFile \cup AnyShipped("bundle") \cup AnyShipped("signed") \cup AnyForged

Working == stage \in {"files", "bundles", "signed"}

Work == IF stage = "files" THEN ToSet(Named)
        ELSE IF stage = "bundles" THEN ToSet(package.bundles)
        ELSE ToSet(package.bundles) \cup ToSet(package.corpus) \cup {package.forged}

\* A job that ends otherwise than it should, by the contents of its receipt.
Failing(job) ==
  LET good == job.receipt # None /\ AcceptedAs(job.receipt, Options)
  IN  \/ job.kind = "file" /\ ~good
      \/ job.kind = "bundle" /\ good # job.expected
      \/ job.kind = "signed" /\ package.crypto /\ ~(good /\ job.receipt.sig = "valid" /\ job.expected)
      \/ job.kind = "forged" /\ (good \/ job.receipt.sig = "valid")

CommandTypes ==
  /\ command \in Commands /\ package \in Packages
  /\ stage \in {"arguments", "files", "bundles", "signed", "chain", "exited"}
  /\ todo \in Seq(Job) /\ failures \in Nat
  /\ rung \in [digest : BOOLEAN, length : BOOLEAN, live : BOOLEAN, input : BOOLEAN, array : BOOLEAN]

Staged ==
  /\ stage = "arguments" => failures = 0
  /\ stage = "files" => ~command.selfCheck /\ ~command.chain
  /\ stage = "chain" => ~command.selfCheck /\ command.chain /\ todo = Named
  /\ stage \in {"files", "chain"} => ~BadArguments
  /\ stage \in {"bundles", "signed"} => command.selfCheck /\ package.bundles # <<>>
  /\ stage = "signed" => package.corpus # <<>>

Tallied ==
  Working => \E seen : seen \cup ToSet(todo) = Work /\ (failures = 0 <=> \A j \in seen : ~Failing(j))

\* While a ladder is climbed it is that of the first job left.
Climbing ==
  pc # "idle" => /\ IInv /\ Reported /\ Looking
                 /\ receipt = Head(todo).receipt /\ receipt # None /\ call = Options

CommandInv == CommandTypes /\ Staged /\ Tallied /\ Climbing /\ ExitCodeIsTheVerdict

\* A list and the set of its items.
LEMMA ItemsOf ==
  ASSUME NEW S, NEW s \in Seq(S)
  PROVE  /\ s = <<>> => ToSet(s) = {}
         /\ s # <<>> => /\ Head(s) \in S /\ Tail(s) \in Seq(S)
                        /\ ToSet(s) = {Head(s)} \cup ToSet(Tail(s))
         /\ \A e \in S : Append(s, e) \in Seq(S) /\ ToSet(Append(s, e)) = ToSet(s) \cup {e}
<1>1. s = <<>> => ToSet(s) = {}
  BY DEF ToSet
<1>2. ASSUME s # <<>>
      PROVE  /\ Head(s) \in S /\ Tail(s) \in Seq(S)
             /\ ToSet(s) = {Head(s)} \cup ToSet(Tail(s))
  <2>1. PICK n \in Nat : Len(s) = n + 1
    <3>1. Len(s) \in Nat \ {0}
      BY <1>2, EmptySeq
    <3>2. Len(s) - 1 \in Nat /\ Len(s) = (Len(s) - 1) + 1
      BY <3>1
    <3> QED
      BY <3>2
  <2>2. Head(s) = s[1] /\ Tail(s) \in Seq(S) /\ Len(Tail(s)) = n /\ \A i \in 1 .. n : Tail(s)[i] = s[i + 1]
    BY <1>2, <2>1, HeadTailProperties
  <2>3. ASSUME NEW i \in 1 .. n + 1
        PROVE  s[i] \in {Head(s)} \cup {Tail(s)[k] : k \in 1 .. n}
    <3>1. CASE i = 1
      BY <2>2, <3>1
    <3>2. CASE i # 1
      <4>1. PICK k \in 1 .. n : i = k + 1
        <5>1. i - 1 \in 1 .. n /\ i = (i - 1) + 1
          BY <3>2
        <5> QED
          BY <5>1
      <4> QED
        BY <2>2, <4>1
    <3> QED
      BY <3>1, <3>2
  <2>4. ASSUME NEW k \in 1 .. n
        PROVE  Tail(s)[k] \in {s[i] : i \in 1 .. n + 1}
    <3>1. k + 1 \in 1 .. n + 1
      OBVIOUS
    <3> QED
      BY <2>2, <3>1
  <2>5. Head(s) \in {s[i] : i \in 1 .. n + 1} /\ Head(s) \in S
    BY <2>1, <2>2
  <2>a. PICK t \in Seq(S) : t = Tail(s)
    BY <2>2
  <2>b. Len(t) = n /\ DOMAIN t = 1 .. Len(t) /\ DOMAIN s = 1 .. Len(s)
    BY <2>2, <2>a
  <2>6. t = Tail(s) /\ DOMAIN t = 1 .. n /\ DOMAIN s = 1 .. n + 1
    BY <2>1, <2>a, <2>b
  <2>7. ToSet(s) = {Head(s)} \cup ToSet(t)
    BY <2>3, <2>4, <2>5, <2>6 DEF ToSet
  <2> QED
    BY <2>2, <2>5, <2>6, <2>7
<1>3. ASSUME NEW e \in S
      PROVE  Append(s, e) \in Seq(S) /\ ToSet(Append(s, e)) = ToSet(s) \cup {e}
  <2>1. PICK n \in Nat : Len(s) = n
    OBVIOUS
  <2>2. /\ Append(s, e) \in Seq(S) /\ Len(Append(s, e)) = n + 1 /\ Append(s, e)[n + 1] = e
        /\ \A i \in 1 .. n : Append(s, e)[i] = s[i]
    BY <2>1
  <2>3. \A i : i \in 1 .. n + 1 <=> i = n + 1 \/ i \in 1 .. n
    BY <2>1
  <2>a. PICK t \in Seq(S) : t = Append(s, e)
    BY <2>2
  <2>b. Len(t) = n + 1 /\ DOMAIN t = 1 .. Len(t) /\ DOMAIN s = 1 .. Len(s)
    BY <2>2, <2>a
  <2>4. t = Append(s, e) /\ DOMAIN t = 1 .. n + 1 /\ DOMAIN s = 1 .. n
    BY <2>1, <2>a, <2>b
  <2>5. t[n + 1] = e /\ \A i \in 1 .. n : t[i] = s[i]
    BY <2>2, <2>4
  <2>6. ToSet(t) = ToSet(s) \cup {e}
    <3>1. n + 1 \in DOMAIN t /\ \A i \in DOMAIN s : i \in DOMAIN t
      BY <2>3, <2>4
    <3> QED
      BY <2>3, <2>4, <2>5, <3>1 DEF ToSet
  <2> QED
    BY <2>4, <2>6
<1> QED
  BY <1>1, <1>2, <1>3

\* What is named is files.
LEMMA NamedAreFiles ==
  ASSUME command \in Commands, ~BadArguments
  PROVE  Named \in Seq(AnyFile)
<1>1. command.files \in Seq(AnyFile) /\ command.list \in {None} \cup Seq(AnyFile \cup {Comment})
  BY CommandAssumption DEF BadArguments
<1>2. Listed \in Seq(AnyFile)
  <2>1. CASE command.list = None
    BY <2>1 DEF Listed
  <2>2. CASE command.list # None
    <3>1. PICK list \in Seq(AnyFile \cup {Comment}) : list = command.list
      BY <1>1, <2>2
    <3>2. NamedIn(list) \in Seq(AnyFile)
      BY NamedInIsAList
    <3> QED
      BY <2>2, <3>1, <3>2 DEF Listed
  <2> QED
    BY <2>1, <2>2
<1> QED
  BY <1>1, <1>2 DEF Named

\* What the fields of a job hold.
LEMMA JobFields ==
  ASSUME NEW job \in Job
  PROVE  /\ job.kind \in {"file", "bundle", "signed", "forged"} /\ job.expected \in BOOLEAN
         /\ job.receipt \in Receipt \cup {None}
         /\ job.receipt = None => job.kind = "file"
         /\ job.kind = "file" => job.expected = TRUE
         /\ job.kind = "forged" => ~MayRaise(job.receipt)
BY CommandAssumption DEF Job, AnyFile, AnyShipped, AnyForged

\* What is said of the arguments stays said while they stand.
LEMMA SameArguments ==
  ASSUME command' = command, package' = package
  PROVE  /\ Options' = Options /\ Named' = Named
         /\ BadArguments' <=> BadArguments
         /\ AllNamedVerify' <=> AllNamedVerify
         /\ PackageBehaves' <=> PackageBehaves
<1>1. Options' = Options /\ Listed' = Listed
  BY DEF Options, Listed
<1>2. Named' = Named
  BY <1>1 DEF Named
<1>3. BadArguments' <=> BadArguments
  BY <1>2 DEF BadArguments
<1>4. AllNamedVerify' <=> AllNamedVerify
  BY <1>1, <1>2 DEF AllNamedVerify
<1>5. PackageBehaves' <=> PackageBehaves
  BY <1>1 DEF PackageBehaves
<1> QED
  BY <1>1, <1>2, <1>3, <1>4, <1>5

\* A job does not fail sooner or later than it did.
LEMMA SameFailing ==
  ASSUME command' = command, package' = package, NEW job
  PROVE  Failing(job)' <=> Failing(job)
BY SameArguments DEF Failing

\* The parts of the invariant that a step of the ladder does not reach.
LEMMA SameCommand ==
  ASSUME CommandInv, UNCHANGED <<command, package, stage, todo, failures, exit>>,
         rung' \in [digest : BOOLEAN, length : BOOLEAN, live : BOOLEAN, input : BOOLEAN, array : BOOLEAN]
  PROVE  CommandTypes' /\ Staged' /\ Tallied' /\ ExitCodeIsTheVerdict'
<1> USE DEF CommandInv
<1>1. CommandTypes'
  BY DEF CommandTypes
<1>2. Staged'
  <2>1. Named' = Named /\ (BadArguments' <=> BadArguments)
    BY SameArguments
  <2> QED
    BY <2>1 DEF Staged
<1>3. Tallied'
  <2>1. Work' = Work /\ (Working' <=> Working)
    BY SameArguments DEF Work, Working
  <2>2. ASSUME Working
        PROVE  \E seen : seen \cup ToSet(todo') = Work' /\ (failures' = 0 <=> \A j \in seen : ~Failing(j)')
    <3>1. PICK seen : seen \cup ToSet(todo) = Work /\ (failures = 0 <=> \A j \in seen : ~Failing(j))
      BY <2>2 DEF Tallied
    <3>2. \A j \in seen : Failing(j)' <=> Failing(j)
      BY SameFailing
    <3> QED
      BY <2>1, <3>1, <3>2
  <2> QED
    BY <2>1, <2>2 DEF Tallied
<1>4. ExitCodeIsTheVerdict'
  BY SameArguments DEF ExitCodeIsTheVerdict
<1> QED
  BY <1>1, <1>2, <1>3, <1>4

\* What Collect counts as surprising is a failing job.
LEMMA SurpriseIsFailing ==
  ASSUME CommandInv, Looking, pc = "done"
  PROVE  Surprising(Head(todo)) <=> Failing(Head(todo))
<1>1. PICK job \in Job : job = Head(todo)
  BY ItemsOf DEF CommandInv, CommandTypes, Looking
<1>2. /\ verified \in BOOLEAN /\ (verified <=> AcceptedAs(receipt, call))
      /\ receipt = job.receipt /\ receipt # None /\ call = Options
      /\ signature = receipt.sig \/ (~verified /\ MayRaise(receipt))
  BY <1>1 DEF CommandInv, Climbing, IInv, TypeOK, VerifiedIsAllRungs, Reported
<1>3. verified <=> job.receipt # None /\ AcceptedAs(job.receipt, Options)
  BY <1>2
<1>4. /\ job.kind \in {"file", "bundle", "signed", "forged"} /\ job.expected \in BOOLEAN
      /\ job.kind = "file" => job.expected = TRUE
      /\ job.kind = "forged" => signature = job.receipt.sig
      /\ verified => signature = job.receipt.sig
  BY <1>2, JobFields
<1>5. Surprising(job) <=> Failing(job)
  <2>1. CASE job.kind \in {"file", "bundle"}
    BY <1>3, <1>4, <2>1 DEF Surprising, Failing
  <2>2. CASE job.kind = "signed"
    BY <1>3, <1>4, <2>2 DEF Surprising, Failing
  <2>3. CASE job.kind = "forged"
    BY <1>3, <1>4, <2>3 DEF Surprising, Failing
  <2> QED
    BY <1>4, <2>1, <2>2, <2>3
<1> QED
  BY <1>1, <1>5

\* A job counted is one seen.
LEMMA CountJob ==
  ASSUME CommandInv, Looking, NEW wrong, wrong <=> Failing(Head(todo)), Counted(wrong),
         rung' \in [digest : BOOLEAN, length : BOOLEAN, live : BOOLEAN, input : BOOLEAN, array : BOOLEAN]
  PROVE  CommandTypes' /\ Staged' /\ Tallied' /\ ExitCodeIsTheVerdict'
<1>1. /\ UNCHANGED <<command, package, stage, exit>> /\ todo' = Tail(todo)
      /\ failures' = failures + IF wrong THEN 1 ELSE 0
      /\ todo \in Seq(Job) /\ todo # <<>> /\ failures \in Nat /\ Working /\ stage # "exited" /\ stage # "chain"
  BY DEF Counted, CommandInv, CommandTypes, Looking, Working
<1>2. Tail(todo) \in Seq(Job) /\ ToSet(todo) = {Head(todo)} \cup ToSet(Tail(todo))
  BY <1>1, ItemsOf
<1>3. CommandTypes'
  BY <1>1, <1>2 DEF CommandInv, CommandTypes
<1>4. Staged'
  <2>1. BadArguments' <=> BadArguments
    BY <1>1, SameArguments
  <2> QED
    BY <1>1, <2>1 DEF CommandInv, Staged, Looking
<1>5. Tallied'
  <2>1. PICK seen : seen \cup ToSet(todo) = Work /\ (failures = 0 <=> \A j \in seen : ~Failing(j))
    BY <1>1 DEF CommandInv, Tallied
  <2> DEFINE now == seen \cup {Head(todo)}
  <2>2. now \cup ToSet(todo') = Work'
    <3>1. Work' = Work
      BY <1>1, SameArguments DEF Work
    <3> QED
      BY <1>1, <1>2, <2>1, <3>1
  <2>3. failures' = 0 <=> \A j \in now : ~Failing(j)
    <3>1. failures' = 0 <=> failures = 0 /\ ~wrong
      BY <1>1
    <3> QED
      BY <2>1, <3>1
  <2>4. failures' = 0 <=> \A j \in now : ~Failing(j)'
    BY <1>1, <2>3, SameFailing
  <2> QED
    BY <2>2, <2>4 DEF Tallied
<1> QED
  BY <1>1, <1>3, <1>4, <1>5 DEF ExitCodeIsTheVerdict

\* A file that cannot be read is a failing job, counted as one.
LEMMA UnreadableStep == ASSUME CommandInv, Unreadable PROVE CommandInv'
<1>1. Looking /\ pc = "idle" /\ Head(todo).receipt = None /\ Counted(TRUE) /\ UNCHANGED vars
  BY DEF Unreadable
<1>2. PICK job \in Job : job = Head(todo)
  BY <1>1, ItemsOf DEF CommandInv, CommandTypes, Looking
<1>3. Failing(job)
  BY <1>1, <1>2, JobFields DEF Failing
<1>4. rung' = rung /\ pc' = "idle"
  BY <1>1 DEF vars
<1> QED
  BY <1>1, <1>2, <1>3, <1>4, CountJob DEF CommandInv, CommandTypes, Climbing

\* The job just climbed is counted by its own result.
LEMMA CollectStep == ASSUME CommandInv, Collect PROVE CommandInv'
<1>1. Looking /\ pc = "done" /\ Counted(Surprising(Head(todo))) /\ pc' = "idle" /\ rung' = rung
  BY DEF Collect
<1>2. Surprising(Head(todo)) <=> Failing(Head(todo))
  BY <1>1, SurpriseIsFailing
<1> QED
  BY <1>1, <1>2, CountJob DEF CommandInv, CommandTypes, Climbing

\* A new climb begins where Init does.
LEMMA VerifyStep == ASSUME CommandInv, Verify PROVE CommandInv'
<1>1. /\ Looking /\ pc = "idle" /\ Head(todo).receipt # None /\ UNCHANGED commandVars
      /\ receipt' = Head(todo).receipt /\ call' = Options /\ pc' = "integrity"
      /\ integrity' = FALSE /\ signature' = None /\ verified' = FALSE /\ approved' = None
      /\ rung' = [r \in DOMAIN rung |-> FALSE]
  BY DEF Verify
<1>2. PICK job \in Job : job = Head(todo)
  BY <1>1, ItemsOf DEF CommandInv, CommandTypes, Looking
<1>3. receipt' \in Receipt
  BY <1>1, <1>2, JobFields
<1>4. Options.expect \in Programs \cup {None} /\ Options.strict \in BOOLEAN
  BY CommandAssumption DEF CommandInv, CommandTypes, Options
<1>5. rung' \in [digest : BOOLEAN, length : BOOLEAN, live : BOOLEAN, input : BOOLEAN, array : BOOLEAN]
  BY <1>1 DEF CommandInv, CommandTypes
<1>6. IInv'
  BY <1>1, <1>3, <1>4, <1>5 DEF IInv, TypeOK, Climbed, Replayed, Evolved, Judged, VerifiedIsAllRungs,
                                ReplayRungs, TauRungs
<1>7. UNCHANGED <<command, package, stage, todo, failures, exit>>
  BY <1>1 DEF commandVars
<1>8. Options' = Options /\ Looking' /\ Reported'
  BY <1>1, <1>7, SameArguments DEF Looking, Reported
<1>9. Climbing'
  BY <1>1, <1>6, <1>7, <1>8 DEF Climbing
<1>10. CommandTypes' /\ Staged' /\ Tallied' /\ ExitCodeIsTheVerdict'
  BY <1>5, <1>7, SameCommand
<1> QED
  BY <1>9, <1>10 DEF CommandInv

LEMMA ClimbStep == ASSUME CommandInv, Climb PROVE CommandInv'
<1>1. Next /\ UNCHANGED <<command, package, stage, todo, failures, exit>>
  BY DEF Climb, commandVars
<1>2. pc # "idle" /\ receipt' = receipt /\ call' = call
  BY <1>1, ClimbFrame
<1>3. IInv /\ Reported /\ Looking
  BY <1>2 DEF CommandInv, Climbing
<1>4. IInv' /\ Reported'
  BY <1>1, <1>3, StepKeepsIInv, ReportedStep
<1>5. Climbing'
  BY <1>1, <1>2, <1>4, SameArguments DEF CommandInv, Climbing, Looking
<1>6. CommandTypes' /\ Staged' /\ Tallied' /\ ExitCodeIsTheVerdict'
  <2>1. rung' \in [digest : BOOLEAN, length : BOOLEAN, live : BOOLEAN, input : BOOLEAN, array : BOOLEAN]
    BY <1>4 DEF IInv, TypeOK
  <2> QED
    BY <1>1, <2>1, SameCommand
<1> QED
  BY <1>5, <1>6 DEF CommandInv

LEMMA StutterStep == ASSUME CommandInv, UNCHANGED cliVars PROVE CommandInv'
<1>1. UNCHANGED <<command, package, stage, todo, failures, exit>> /\ UNCHANGED vars
  BY DEF cliVars, commandVars
<1>2. CommandTypes' /\ Staged' /\ Tallied' /\ ExitCodeIsTheVerdict'
  <2>1. rung' \in [digest : BOOLEAN, length : BOOLEAN, live : BOOLEAN, input : BOOLEAN, array : BOOLEAN]
    BY <1>1 DEF CommandInv, CommandTypes, vars
  <2> QED
    BY <1>1, <2>1, SameCommand
<1>3. IInv => IInv'
  BY <1>1, StepKeepsIInv
<1>4. Reported' <=> Reported
  BY <1>1 DEF vars, Reported
<1>5. Climbing'
  BY <1>1, <1>3, <1>4, SameArguments DEF CommandInv, Climbing, Looking, vars
<1> QED
  BY <1>2, <1>5 DEF CommandInv

\* Between two stages no ladder is being climbed.
LEMMA IdleBetween == ASSUME CommandInv, ~Looking PROVE pc = "idle"
BY DEF CommandInv, Climbing

\* The shipped receipts are jobs, and so are the named ones.
LEMMA WorkIsJobs ==
  ASSUME CommandInv
  PROVE  /\ package.bundles \in Seq(Job) /\ package.corpus \in Seq(Job) /\ package.forged \in Job
         /\ ~BadArguments => Named \in Seq(Job)
         /\ \A j \in ToSet(package.bundles) : j.kind = "bundle" /\ j.receipt # None
         /\ \A j \in ToSet(package.corpus) : j.kind = "signed" /\ j.receipt # None
         /\ package.forged.kind = "forged" /\ package.forged.receipt # None
         /\ ~BadArguments => \A j \in ToSet(Named) : j.kind = "file"
<1>1. /\ package.bundles \in Seq(AnyShipped("bundle")) /\ package.corpus \in Seq(AnyShipped("signed"))
      /\ package.forged \in AnyForged /\ None \notin Receipt
      /\ ~BadArguments => Named \in Seq(AnyFile)
  BY CommandAssumption, NamedAreFiles DEF CommandInv, CommandTypes, AnyForged
<1>2. \A S, s : s \in Seq(S) => ToSet(s) \subseteq S
  BY DEF ToSet
<1>3. \A S, T, s : s \in Seq(S) /\ S \subseteq T => s \in Seq(T)
  OBVIOUS
<1>4. /\ AnyShipped("bundle") \subseteq Job /\ AnyShipped("signed") \subseteq Job
      /\ AnyForged \subseteq Job /\ AnyFile \subseteq Job
  BY DEF Job
<1>5. /\ \A j \in AnyShipped("bundle") : j.kind = "bundle" /\ j.receipt \in Receipt
      /\ \A j \in AnyShipped("signed") : j.kind = "signed" /\ j.receipt \in Receipt
      /\ \A j \in AnyForged : j.kind = "forged" /\ j.receipt \in Receipt
      /\ \A j \in AnyFile : j.kind = "file"
  BY DEF AnyShipped, AnyForged, AnyFile
<1>6. /\ package.bundles \in Seq(Job) /\ package.corpus \in Seq(Job) /\ package.forged \in Job
      /\ ~BadArguments => Named \in Seq(Job)
  BY <1>1, <1>3, <1>4
<1>7. /\ ToSet(package.bundles) \subseteq AnyShipped("bundle")
      /\ ToSet(package.corpus) \subseteq AnyShipped("signed")
      /\ ~BadArguments => ToSet(Named) \subseteq AnyFile
  BY <1>1, <1>2
<1> QED
  BY <1>1, <1>5, <1>6, <1>7

\* A new stage begins with all its work left, or with what was seen of the last.
LEMMA BeginStage ==
  ASSUME CommandInv, ~Looking, NEW next \in {"files", "bundles", "signed", "chain"}, NEW work \in Seq(Job),
         Begin(next, work)
  PROVE  CommandTypes' /\ Climbing' /\ ExitCodeIsTheVerdict'
<1>1. stage' = next /\ todo' = work /\ UNCHANGED <<command, package, failures, exit>> /\ UNCHANGED vars
  BY DEF Begin
<1>2. CommandTypes'
  BY <1>1 DEF CommandInv, CommandTypes, vars
<1>3. pc' = "idle"
  BY <1>1, IdleBetween DEF vars
<1> QED
  BY <1>1, <1>2, <1>3 DEF Climbing, ExitCodeIsTheVerdict

\* Of a command that has ended only the exit code is left to be justified.
LEMMA ExitStage ==
  ASSUME CommandInv, ~Looking, NEW code, Exit(code)
  PROVE  CommandTypes' /\ Staged' /\ Tallied' /\ Climbing' /\ exit' = code
<1>1. stage' = "exited" /\ exit' = code /\ UNCHANGED <<command, package, todo, failures>> /\ UNCHANGED vars
  BY DEF Exit
<1>2. CommandTypes'
  BY <1>1 DEF CommandInv, CommandTypes, vars
<1>3. pc' = "idle"
  BY <1>1, IdleBetween DEF vars
<1> QED
  BY <1>1, <1>2, <1>3 DEF Climbing, Staged, Tallied, Working

\* Before the first job nothing was seen and nothing failed.
LEMMA NoneSeen ==
  ASSUME failures' = 0, Working' => ToSet(todo') = Work'
  PROVE  Tallied'
<1>1. PICK seen : seen = {}
  OBVIOUS
<1>2. Working' => seen \cup ToSet(todo') = Work'
  BY <1>1
<1>3. failures' = 0 <=> \A j \in seen : ~Failing(j)'
  BY <1>1
<1> QED
  BY <1>2, <1>3 DEF Tallied

LEMMA ReadArgumentsStep == ASSUME CommandInv, ReadArguments PROVE CommandInv'
<1>1. stage = "arguments" /\ ~Looking /\ failures = 0
  BY DEF ReadArguments, CommandInv, Staged, Looking
<1>2. CASE command.selfCheck /\ package.bundles = <<>>
  <2>1. Exit(1)
    BY <1>2 DEF ReadArguments
  <2>2. CommandTypes' /\ Staged' /\ Tallied' /\ Climbing' /\ exit' = 1
    BY <1>1, <2>1, ExitStage
  <2>3. ~PackageBehaves' /\ command'.selfCheck
    BY <1>2, <2>1 DEF Exit, PackageBehaves
  <2> QED
    BY <2>2, <2>3 DEF CommandInv, ExitCodeIsTheVerdict
<1>3. CASE command.selfCheck /\ package.bundles # <<>>
  <2>1. Begin("bundles", package.bundles)
    BY <1>3 DEF ReadArguments
  <2>2. CommandTypes' /\ Climbing' /\ ExitCodeIsTheVerdict'
    BY <1>1, <2>1, WorkIsJobs, BeginStage
  <2>3. /\ stage' = "bundles" /\ todo' = package.bundles
        /\ UNCHANGED <<command, package, failures>>
    BY <2>1 DEF Begin
  <2>4. Staged'
    BY <1>3, <2>3 DEF Staged
  <2>5. failures' = 0 /\ ToSet(todo') = Work'
    BY <1>1, <2>3 DEF Work
  <2>6. Tallied'
    BY <2>5, NoneSeen
  <2> QED
    BY <2>2, <2>4, <2>6 DEF CommandInv
<1>4. CASE ~command.selfCheck /\ BadArguments
  <2>1. Exit(2)
    BY <1>4 DEF ReadArguments
  <2>2. CommandTypes' /\ Staged' /\ Tallied' /\ Climbing' /\ exit' = 2
    BY <1>1, <2>1, ExitStage
  <2>3. BadArguments' /\ ~command'.selfCheck
    BY <1>4, <2>1, SameArguments DEF Exit
  <2> QED
    BY <2>2, <2>3 DEF CommandInv, ExitCodeIsTheVerdict
<1>5. CASE ~command.selfCheck /\ ~BadArguments
  <2>1. PICK next \in {"files", "chain"} : Begin(next, Named) /\ (next = "chain" <=> command.chain)
    <3>1. command.chain \in BOOLEAN
      BY CommandAssumption DEF CommandInv, CommandTypes
    <3> QED
      BY <1>5, <3>1 DEF ReadArguments
  <2>2. CommandTypes' /\ Climbing' /\ ExitCodeIsTheVerdict'
    BY <1>1, <1>5, <2>1, WorkIsJobs, BeginStage
  <2>3. stage' = next /\ todo' = Named /\ UNCHANGED <<command, package, failures>>
    BY <2>1 DEF Begin
  <2>4. Named' = Named /\ (BadArguments' <=> BadArguments)
    BY <2>3, SameArguments
  <2>5. Staged'
    BY <1>5, <2>1, <2>3, <2>4 DEF Staged
  <2>6. failures' = 0 /\ (Working' => ToSet(todo') = Work')
    BY <1>1, <2>3, <2>4 DEF Work, Working
  <2>7. Tallied'
    BY <2>6, NoneSeen
  <2> QED
    BY <2>2, <2>5, <2>7 DEF CommandInv
<1> QED
  <2>1. command.selfCheck \in BOOLEAN
    BY CommandAssumption DEF CommandInv, CommandTypes
  <2> QED
    BY <1>2, <1>3, <1>4, <1>5, <2>1

\* With nothing left, what was seen is all the work of the stage.
LEMMA AllSeen ==
  ASSUME CommandInv, Working, todo = <<>>
  PROVE  failures = 0 <=> \A j \in Work : ~Failing(j)
<1>1. ToSet(todo) = {}
  BY ItemsOf DEF CommandInv, CommandTypes
<1> QED
  BY <1>1 DEF CommandInv, Tallied

LEMMA NextCorpusStep == ASSUME CommandInv, NextCorpus PROVE CommandInv'
<1>1. stage = "bundles" /\ todo = <<>> /\ ~Looking /\ Working /\ command.selfCheck /\ package.bundles # <<>>
  BY DEF NextCorpus, CommandInv, Staged, Looking, Working
<1>2. CASE package.corpus = <<>>
  <2>1. Exit(1)
    BY <1>2 DEF NextCorpus
  <2>2. CommandTypes' /\ Staged' /\ Tallied' /\ Climbing' /\ exit' = 1
    BY <1>1, <2>1, ExitStage
  <2>3. ~PackageBehaves' /\ command'.selfCheck
    BY <1>1, <1>2, <2>1 DEF Exit, PackageBehaves
  <2> QED
    BY <2>2, <2>3 DEF CommandInv, ExitCodeIsTheVerdict
<1>3. CASE package.corpus # <<>>
  <2> DEFINE work == Append(package.corpus, package.forged)
  <2>1. Begin("signed", work)
    BY <1>3 DEF NextCorpus
  <2>2. work \in Seq(Job) /\ ToSet(work) = ToSet(package.corpus) \cup {package.forged}
    <3>1. package.corpus \in Seq(Job) /\ package.forged \in Job
      BY WorkIsJobs
    <3> QED
      BY <3>1, ItemsOf
  <2>3. stage' = "signed" /\ todo' = work /\ UNCHANGED <<command, package, failures>>
    BY <2>1 DEF Begin
  <2> HIDE DEF work
  <2>4. CommandTypes' /\ Climbing' /\ ExitCodeIsTheVerdict'
    BY <1>1, <2>1, <2>2, BeginStage
  <2>5. Staged'
    BY <1>1, <1>3, <2>3 DEF Staged
  <2> DEFINE seen == ToSet(package.bundles)
  <2>6. seen \cup ToSet(todo') = Work'
    BY <2>2, <2>3 DEF Work
  <2>7. failures' = 0 <=> \A j \in seen : ~Failing(j)'
    <3>1. failures = 0 <=> \A j \in seen : ~Failing(j)
      BY <1>1, AllSeen DEF Work
    <3>2. \A j \in seen : Failing(j)' <=> Failing(j)
      BY <2>3, SameFailing
    <3> QED
      BY <2>3, <3>1, <3>2
  <2>8. Tallied'
    BY <2>6, <2>7 DEF Tallied
  <2> QED
    BY <2>4, <2>5, <2>8 DEF CommandInv
<1> QED
  BY <1>2, <1>3

\* What has failed is what the exit code says of the files, or of the package.
LEMMA ReportStep == ASSUME CommandInv, Report PROVE CommandInv'
<1>1. /\ stage \in {"files", "signed"} /\ todo = <<>> /\ ~Looking /\ Working
      /\ Exit(IF failures = 0 THEN 0 ELSE 1)
  BY DEF Report, Looking, Working
<1>2. PICK code \in {0, 1} : Exit(code) /\ (code = 0 <=> failures = 0)
  BY <1>1
<1>3. CommandTypes' /\ Staged' /\ Tallied' /\ Climbing' /\ exit' = code
  BY <1>1, <1>2, ExitStage
<1>4. UNCHANGED <<command, package>> /\ (failures = 0 <=> \A j \in Work : ~Failing(j))
  BY <1>1, AllSeen DEF Exit
<1>5. CASE stage = "files"
  <2>1. ~command.selfCheck /\ ~command.chain /\ ~BadArguments /\ Work = ToSet(Named)
    BY <1>5 DEF CommandInv, Staged, Work
  <2>2. [Options EXCEPT !.expect = IF command.chain THEN None ELSE @] = Options
    BY <2>1 DEF Options
  <2>3. \A j \in ToSet(Named) : ~Failing(j) <=> j.receipt # None /\ AcceptedAs(j.receipt, Options)
    BY <2>1, WorkIsJobs DEF Failing
  <2>4. failures = 0 <=> AllNamedVerify
    BY <1>4, <2>1, <2>2, <2>3 DEF AllNamedVerify
  <2>5. AllNamedVerify' <=> AllNamedVerify
    BY <1>4, SameArguments
  <2> QED
    BY <1>2, <1>3, <1>4, <2>1, <2>4, <2>5 DEF CommandInv, ExitCodeIsTheVerdict
<1>6. CASE stage = "signed"
  <2>1. /\ command.selfCheck /\ package.bundles # <<>> /\ package.corpus # <<>>
        /\ Work = ToSet(package.bundles) \cup ToSet(package.corpus) \cup {package.forged}
    BY <1>6 DEF CommandInv, Staged, Work
  <2>2. \A j \in ToSet(package.bundles) : ~Failing(j) <=> AcceptedAs(j.receipt, Options) = j.expected
    <3>1. ASSUME NEW j \in ToSet(package.bundles)
          PROVE  j.expected \in BOOLEAN /\ j.kind = "bundle" /\ j.receipt # None
      <4>1. j \in Job
        BY WorkIsJobs DEF ToSet
      <4> QED
        BY <4>1, JobFields, WorkIsJobs
    <3>2. \A j : AcceptedAs(j.receipt, Options) \in BOOLEAN
      BY DEF AcceptedAs
    <3> QED
      BY <3>1, <3>2 DEF Failing
  <2>3. package.crypto \in BOOLEAN
    BY CommandAssumption DEF CommandInv, CommandTypes
  <2>4. \A j \in ToSet(package.corpus) :
          ~Failing(j) <=> (package.crypto =>
                             AcceptedAs(j.receipt, Options) /\ j.receipt.sig = "valid" /\ j.expected)
    BY WorkIsJobs DEF Failing
  <2>5. ~Failing(package.forged) <=>
           ~AcceptedAs(package.forged.receipt, Options) /\ package.forged.receipt.sig # "valid"
    BY WorkIsJobs DEF Failing
  <2>6. failures = 0 <=> PackageBehaves
    BY <1>4, <2>1, <2>2, <2>3, <2>4, <2>5 DEF PackageBehaves
  <2>7. PackageBehaves' <=> PackageBehaves
    BY <1>4, SameArguments
  <2> QED
    BY <1>2, <1>3, <1>4, <2>1, <2>6, <2>7 DEF CommandInv, ExitCodeIsTheVerdict
<1> QED
  BY <1>1, <1>5, <1>6

\* A chain is accepted only if each of its files could be read and verifies.
LEMMA VerifyChainStep == ASSUME CommandInv, VerifyChain PROVE CommandInv'
<1>1. stage = "chain" /\ ~Looking /\ ~command.selfCheck /\ command.chain /\ todo = Named
  BY DEF VerifyChain, CommandInv, Staged, Looking
<1>2. PICK code \in {0, 1} :
        Exit(code) /\ (code = 0 => GraphMayVerify /\ Readable = ToSet(todo))
  BY DEF VerifyChain
<1>3. CommandTypes' /\ Staged' /\ Tallied' /\ Climbing' /\ exit' = code
  BY <1>1, <1>2, ExitStage
<1>4. code = 0 => AllNamedVerify
  BY <1>1, <1>2 DEF GraphMayVerify, Readable, AllNamedVerify
<1>5. UNCHANGED <<command, package>>
  BY <1>2 DEF Exit
<1>6. AllNamedVerify' <=> AllNamedVerify
  BY <1>5, SameArguments
<1> QED
  BY <1>1, <1>2, <1>3, <1>4, <1>5, <1>6 DEF CommandInv, ExitCodeIsTheVerdict

LEMMA CommandStep == ASSUME CommandInv, [CommandNext]_cliVars PROVE CommandInv'
BY ReadArgumentsStep, UnreadableStep, VerifyStep, ClimbStep, CollectStep, NextCorpusStep, ReportStep,
   VerifyChainStep, StutterStep
   DEF CommandNext

LEMMA CommandStart == ASSUME CommandInit PROVE CommandInv
<1>1. stage = "arguments" /\ todo = <<>> /\ failures = 0 /\ pc = "idle"
  BY DEF CommandInit
<1>2. CommandTypes
  BY DEF CommandInit, CommandTypes
<1> QED
  BY <1>1, <1>2 DEF CommandInv, Staged, Tallied, Working, Climbing, ExitCodeIsTheVerdict

\* The exit code is the verdict, for any number of files, a list of any length,
\* any package and any contents of the receipts: 0 only if every file named
\* could be read and verifies, 1 only if one does not, and for --self-check 0
\* exactly if the package behaves (cli.py:3-4, 81-83, 151-163).
THEOREM ExitCodeMeansTheVerdict == CommandSpec => []ExitCodeIsTheVerdict
<1>1. CommandSpec => []CommandInv
  BY CommandStart, CommandStep, PTL DEF CommandSpec
<1> QED
  BY <1>1, PTL DEF CommandInv

\* Nothing of one receipt's climb reaches the verdict on the next: whenever a
\* command is done with a receipt, `verified` is the conjunction of the rungs of
\* that receipt under the options of the command (cli.py:317-320).
THEOREM EveryFileIsJudgedAlone ==
  CommandSpec => [](Looking /\ pc = "done" => (verified <=> AcceptedAs(Head(todo).receipt, Options)))
<1>1. CommandSpec => []CommandInv
  BY CommandStart, CommandStep, PTL DEF CommandSpec
<1>2. CommandInv => (Looking /\ pc = "done" => (verified <=> AcceptedAs(Head(todo).receipt, Options)))
  BY DEF CommandInv, Climbing, IInv, VerifiedIsAllRungs
<1> QED
  BY <1>1, <1>2, PTL
=============================================================================
