----------------------------- MODULE TrustLadder -----------------------------
(***************************************************************************)
(* verify() of src/obsign_verify/verify.py: the rungs in the order the     *)
(* code takes them, with every early return and every rung at which a      *)
(* malformed receipt makes an exception leave the ladder for its handler.  *)
(*                                                                         *)
(* A receipt is seen through the answers its contents give at each rung.   *)
(* Where a rung is a module of its own, only its answer is kept: `run` is  *)
(* that of ReplayMachine, `liveness` that of LivenessProbe, `sig` the      *)
(* report of Signature.  "raises" stands for contents on which the Python  *)
(* of that rung raises.                                                    *)
(***************************************************************************)
EXTENDS Naturals, FiniteSets

CONSTANTS
  Receipts,
  Programs,   \* digests of programs
  Calls,      \* [expect, strict]: the arguments of verify()
  None

Malformed == "raises"

\* object    it is a JSON object at all, as a receipt read from a file always is
\* params    `params` is an object
\* program   the digest of the program in it; None if there is no program object,
\*           "raises" if canonical_bytes refuses it
\* inputs    params.inputs is a list
\* stated    params.program_sha256, if any
\* run       "trap", or the hash of what the kernel returned
\* want      output.sha256, or "raises" when `output` is no object
\* length    output.length: absent, right or wrong of what was returned
\* build     of the fixed kernel's inputs: "raises", or their hash
\* input     input.sha256, or "raises" when `input` is no object
\* array     output.shape and output.dtype, against what was returned
\* sig       the report of signature.check, "raises" if what the block covers is
\*           refused by canonical_bytes
Hashes == {"h1", "h2"}
Reports == {"absent", "valid", "refused"}
Receipt == [object : BOOLEAN, intact : BOOLEAN, spec : {"v1", "other"},
            kernel : {"replay", "tau", "other"}, sig : Reports \cup {Malformed},
            params : BOOLEAN, program : Programs \cup {None, Malformed},
            inputs : BOOLEAN, stated : Programs \cup {None},
            run : Hashes \cup {"trap"}, want : Hashes \cup {None, Malformed},
            length : {None, "right", "wrong"},
            liveness : {"live", "dead", "guarded", "indeterminate", "n/a"},
            build : Hashes \cup {Malformed}, input : Hashes \cup {None, Malformed},
            array : {"right", "wrong", Malformed}]

ASSUME InputAssumption ==
  /\ Receipts \subseteq Receipt
  /\ \A c \in Calls : c.expect \in Programs \cup {None} /\ c.strict \in BOOLEAN

\* The tokens are nothing else.
ASSUME TokenAssumption ==
  /\ None \notin Programs \cup Hashes \cup {"trap", "wrong", Malformed}
  /\ Malformed \notin Programs

VARIABLES
  receipt, call,
  pc,          \* the rung next taken; "finish" and "done" end every path
  integrity, reproduced, signature, verified, unsupported, approved,
  notes,       \* the reasons noted, by rung
  rung         \* the local booleans digest_ok, len_ok, live_ok, input_ok, array_ok

vars == <<receipt, call, pc, integrity, reproduced, signature, verified,
          unsupported, approved, notes, rung>>

result == <<integrity, reproduced, signature, verified, unsupported, approved>>

Init ==
  /\ receipt \in Receipts /\ call \in Calls
  /\ pc = "integrity"
  /\ integrity = FALSE /\ reproduced = None /\ signature = None
  /\ verified = FALSE /\ unsupported = FALSE /\ approved = None
  /\ notes = {}
  /\ rung = [digest |-> FALSE, length |-> FALSE, live |-> FALSE,
             input |-> FALSE, array |-> FALSE]

Note(reason, when) == notes' = IF when THEN notes \cup {reason} ELSE notes

\* The handler of verify(): whatever was found so far stands, and is noted.
Raise ==
  /\ pc' = "finish"
  /\ notes' = notes \cup {"error"}
  /\ UNCHANGED <<result, rung>>

Goto(label) == pc' = label

-----------------------------------------------------------------------------
(* The rungs every receipt takes.                                          *)

CheckIntegrity ==
  /\ pc = "integrity"
  /\ IF ~receipt.object THEN Raise
     ELSE /\ integrity' = receipt.intact
          /\ Note("integrity", ~receipt.intact)
          /\ Goto("spec")
          /\ UNCHANGED <<reproduced, signature, verified, unsupported, approved, rung>>
  /\ UNCHANGED <<receipt, call>>

CheckSpec ==
  /\ pc = "spec"
  /\ unsupported' = (receipt.spec # "v1")
  /\ Note("spec", receipt.spec # "v1")
  /\ Goto(IF receipt.spec = "v1" THEN "kernel" ELSE "signature")
  /\ UNCHANGED <<receipt, call, integrity, reproduced, signature, verified, approved, rung>>

ChooseKernel ==
  /\ pc = "kernel"
  /\ Note("kernel", receipt.kernel = "other")
  /\ Goto(IF receipt.kernel = "other" THEN "signature" ELSE receipt.kernel)
  /\ UNCHANGED <<receipt, call, result, rung>>

\* What step 3 lets pass: no signature, or a valid one.
Gate == receipt.sig \in {"absent", "valid"}

ReadSignature ==
  /\ signature' = receipt.sig
  /\ Note("signature", receipt.sig = "refused")

\* Step 3, and the verdict, whatever the rungs before it found.
Judge(verdict) ==
  IF receipt.sig = Malformed THEN Raise
  ELSE /\ ReadSignature
       /\ verified' = (verdict /\ Gate)
       /\ Goto("finish")
       /\ UNCHANGED <<integrity, reproduced, unsupported, approved, rung>>

\* Step 3 on the paths that re-executed nothing: it can only attribute.
SignatureOnly ==
  /\ pc = "signature"
  /\ Judge(FALSE)
  /\ UNCHANGED <<receipt, call>>

-----------------------------------------------------------------------------
(* _verify_replay: the program travels in the receipt.                     *)

ReplayParams ==
  /\ pc = "replay"
  /\ LET complete == receipt.params /\ receipt.program # None /\ receipt.inputs
     IN  /\ Note("params", ~complete)
         /\ Goto(IF complete THEN "digest" ELSE "signature")
  /\ UNCHANGED <<receipt, call, result, rung>>

ReplayDigest ==
  /\ pc = "digest"
  /\ IF receipt.program = Malformed THEN Raise
     ELSE LET ok == receipt.stated \in {None, receipt.program}
          IN  /\ rung' = [rung EXCEPT !.digest = ok]
              /\ Note("digest", ~ok)
              /\ Goto("run")
              /\ UNCHANGED result
  /\ UNCHANGED <<receipt, call>>

\* A trap is a refusal; the signature is read all the same.
ReplayTrap ==
  /\ pc = "run" /\ receipt.run = "trap"
  /\ Note("trap", TRUE)
  /\ Goto("signature")
  /\ UNCHANGED <<receipt, call, result, rung>>

\* Compare what was recomputed with what the claim says.
Compare(next) ==
  /\ reproduced' = (receipt.run = receipt.want)
  /\ Note("output", receipt.run # receipt.want)
  /\ Goto(next)
  /\ UNCHANGED <<integrity, signature, verified, unsupported, approved, rung>>

ReplayOutput ==
  /\ pc = "run" /\ receipt.run # "trap"
  /\ IF receipt.want = Malformed THEN Raise ELSE Compare("length")
  /\ UNCHANGED <<receipt, call>>

ReplayLength ==
  /\ pc = "length"
  /\ rung' = [rung EXCEPT !.length = receipt.length \in {None, "right"}]
  /\ Note("length", receipt.length = "wrong")
  /\ Goto("liveness")
  /\ UNCHANGED <<receipt, call, result>>

\* Mutant: a strict call still accepts a probe that ran out of budget.
LiveUnlessRefuted == receipt.liveness \notin {"dead", "guarded"}

\* What the probe's verdict must be: positive if the call is strict, else not
\* negative.
LiveEnough == IF call.strict THEN receipt.liveness = "live"
              ELSE receipt.liveness \notin {"dead", "guarded"}

\* Every verdict but "n/a" leaves a note, and a strict call notes that too.
ReplayLiveness ==
  /\ pc = "liveness"
  /\ rung' = [rung EXCEPT !.live = LiveEnough]
  /\ Note("liveness", receipt.liveness # "n/a" \/ call.strict)
  /\ Goto("replay verdict")
  /\ UNCHANGED <<receipt, call, result>>

ReplayVerdict ==
  /\ pc = "replay verdict"
  /\ Judge(integrity /\ reproduced /\ rung.digest /\ rung.length /\ rung.live)
  /\ UNCHANGED <<receipt, call>>

-----------------------------------------------------------------------------
(* The fixed kernel, whose inputs are built from params.                   *)

TauBuild ==
  /\ pc = "tau"
  /\ \/ /\ ~receipt.params
        /\ Note("params", TRUE)
        /\ Goto("signature")
        /\ UNCHANGED <<result, rung>>
     \/ /\ receipt.params
        /\ Malformed \in {receipt.build, receipt.input}
        /\ Raise
     \/ /\ receipt.params
        /\ Malformed \notin {receipt.build, receipt.input}
        /\ LET ok == receipt.input \in {None, receipt.build}
           IN  rung' = [rung EXCEPT !.input = ok] /\ Note("input", ~ok)
        /\ Goto("evolve")
        /\ UNCHANGED result
  /\ UNCHANGED <<receipt, call>>

TauEvolve ==
  /\ pc = "evolve"
  /\ IF receipt.want = Malformed THEN Raise ELSE Compare("array")
  /\ UNCHANGED <<receipt, call>>

TauArray ==
  /\ pc = "array"
  /\ IF receipt.array = Malformed THEN Raise
     ELSE /\ rung' = [rung EXCEPT !.array = receipt.array = "right"]
          /\ Note("array", receipt.array = "wrong")
          /\ Goto("tau verdict")
          /\ UNCHANGED result
  /\ UNCHANGED <<receipt, call>>

TauVerdict ==
  /\ pc = "tau verdict"
  /\ Judge(integrity /\ reproduced /\ rung.input /\ rung.array)
  /\ UNCHANGED <<receipt, call>>

-----------------------------------------------------------------------------
(* finish(): the pin is applied whichever rung returned.                   *)

\* Mutant: the pin is compared with the digest the receipt states.
ProgramDigestStated == IF receipt.params THEN receipt.stated ELSE None

\* _program_digest, of an object
ProgramDigest == IF receipt.params /\ receipt.program # Malformed
                 THEN receipt.program ELSE None

\* No pin, or one that cannot be answered: _program_digest reads the receipt
\* as an object, and what it raises is dropped by the handler.
FinishUnpinned ==
  /\ pc = "finish" /\ (call.expect = None \/ ~receipt.object)
  /\ Goto("done")
  /\ UNCHANGED <<receipt, call, result, notes, rung>>

FinishPinned ==
  /\ pc = "finish" /\ call.expect # None /\ receipt.object
  /\ approved' = (ProgramDigest = call.expect)
  /\ verified' = (verified /\ approved')
  /\ Note("program", ~approved')
  /\ Goto("done")
  /\ UNCHANGED <<receipt, call, integrity, reproduced, signature, unsupported, rung>>

Common == CheckIntegrity \/ CheckSpec \/ ChooseKernel \/ SignatureOnly
Replay == ReplayParams \/ ReplayDigest \/ ReplayTrap \/ ReplayOutput
          \/ ReplayLength \/ ReplayLiveness \/ ReplayVerdict
Tau == TauBuild \/ TauEvolve \/ TauArray \/ TauVerdict

Next == Common \/ Replay \/ Tau \/ FinishUnpinned \/ FinishPinned

Spec == Init /\ [][Next]_vars

-----------------------------------------------------------------------------
(* What verify() promises.                                                 *)

\* What steps 1 to 3 require of a receipt, by what the receipt contains and not
\* by what the ladder computed.
RederivesAs(r, c) ==
  /\ r.object /\ r.intact /\ r.spec = "v1" /\ r.params
  /\ r.run = r.want
  /\ \/ /\ r.kernel = "replay"
        /\ r.program \in Programs /\ r.inputs
        /\ r.stated \in {None, r.program}
        /\ r.length # "wrong"
        /\ r.liveness \in IF c.strict THEN {"live"} ELSE {"live", "indeterminate", "n/a"}
     \/ /\ r.kernel = "tau"
        /\ r.build # Malformed /\ r.input \in {None, r.build}
        /\ r.array = "right"

Rederives == RederivesAs(receipt, call)

AcceptedAs(r, c) == /\ RederivesAs(r, c)
                    /\ r.sig \in {"absent", "valid"}
                    /\ c.expect \in {None, r.program}

\* `verified` is the conjunction of the three rungs and the pin, whatever the
\* path to the end and wherever an exception cut it short (verify.py:1-20).
VerifiedIsAllRungs == pc = "done" => (verified <=> AcceptedAs(receipt, call))

\* The pin is answered by the program the receipt carries, on every path a
\* receipt read from a file can take, also those that re-executed nothing
\* (verify.py:573-590, 671-673).
PinIsAnswered ==
  pc = "done" /\ receipt.object /\ call.expect # None =>
    /\ approved \in BOOLEAN
    /\ approved <=> receipt.params /\ receipt.program = call.expect

=============================================================================
