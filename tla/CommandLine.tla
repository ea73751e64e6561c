---------------------------- MODULE CommandLine ----------------------------
(***************************************************************************)
(* The command obsign-verify (src/obsign_verify/cli.py): what its exit     *)
(* code says of the files it was given.  Every receipt it can read climbs  *)
(* the ladder of TrustLadder, one after the other, under the options of    *)
(* the one command; --self-check takes the receipts shipped in the package *)
(* instead, --chain hands them to verify_graph, of which only the answer   *)
(* is kept here (module ReceiptGraph).                                     *)
(***************************************************************************)
EXTENDS TrustLadder, Sequences, SequencesExt

CONSTANTS
  Commands,   \* [files, list, chain, selfCheck, expect, strict]; list is None,
              \* Missing, or the lines of the file --chain-list names
  Packages,   \* [bundles, corpus, forged, crypto]: what is installed
  Missing,    \* a --chain-list file that cannot be read
  Comment     \* a line of one that names nothing

\* A named file: its receipt, or None if it cannot be read or does not load.
File(r) == [kind |-> "file", receipt |-> r, expected |-> TRUE]

\* A shipped bundle, with the verdict it declares.
Bundle(r, declared) == [kind |-> "bundle", receipt |-> r, expected |-> declared]

\* A receipt the producer signed, with whether a valid signature binds its name.
Signed(r, bound) == [kind |-> "signed", receipt |-> r, expected |-> bound]

\* One of them again, its list of bound keys gone and its examiner rewritten.
Forged(r) == [kind |-> "forged", receipt |-> r, expected |-> FALSE]

\* What a command and a package are made of.
AnyFile == [kind : {"file"}, receipt : Receipt \cup {None}, expected : {TRUE}]
AnyShipped(kind) == [kind : {kind}, receipt : Receipt, expected : BOOLEAN]

\* Contents at which some rung may raise.
MayRaise(r) == ~r.object \/ Malformed \in {r.program, r.want, r.build, r.input, r.array, r.sig}

\* The forgery is made from a receipt that is well formed.
ASSUME CommandAssumption ==
  /\ \A c \in Commands :
       /\ c.files \in Seq(AnyFile)
       /\ c.list \in {None, Missing} \cup Seq(AnyFile \cup {Comment})
       /\ {c.chain, c.selfCheck, c.strict} \subseteq BOOLEAN /\ c.expect \in Programs \cup {None}
  /\ \A p \in Packages :
       /\ p.bundles \in Seq(AnyShipped("bundle")) /\ p.corpus \in Seq(AnyShipped("signed"))
       /\ p.forged \in [kind : {"forged"}, receipt : Receipt, expected : {FALSE}]
       /\ ~MayRaise(p.forged.receipt)
       /\ p.crypto \in BOOLEAN
  /\ None \notin Receipt

VARIABLES
  command, package,
  stage,      \* "arguments", "files", "bundles", "signed", "chain" or "exited"
  todo,       \* what is still to be looked at
  failures,
  exit        \* the exit code, or None

commandVars == <<command, package, stage, todo, failures, exit>>
cliVars == <<commandVars, vars>>

Options == IF command.selfCheck THEN [expect |-> None, strict |-> FALSE]
           ELSE [expect |-> command.expect, strict |-> command.strict]

CommandInit ==
  /\ command \in Commands /\ package \in Packages
  /\ stage = "arguments" /\ todo = <<>> /\ failures = 0 /\ exit = None
  /\ receipt = None /\ call = Options
  /\ pc = "idle"
  /\ integrity = FALSE /\ reproduced = None /\ signature = None
  /\ verified = FALSE /\ unsupported = FALSE /\ approved = None
  /\ notes = {}
  /\ rung = [digest |-> FALSE, length |-> FALSE, live |-> FALSE, input |-> FALSE, array |-> FALSE]

Exit(code) == /\ stage' = "exited" /\ exit' = code
              /\ UNCHANGED <<command, package, todo, failures, vars>>

Begin(next, work) == /\ stage' = next /\ todo' = work
                     /\ UNCHANGED <<command, package, failures, exit, vars>>

-----------------------------------------------------------------------------
(* main: the arguments. *)

\* The lines of a list that name a file: of the first n, for each n.
NamedIn(list) ==
  LET named[n \in 0 .. Len(list)] ==
        IF n = 0 THEN <<>>
        ELSE IF list[n] = Comment THEN named[n - 1] ELSE Append(named[n - 1], list[n])
  IN  named[Len(list)]

Listed == IF command.list = None THEN <<>> ELSE NamedIn(command.list)

Named == command.files \o Listed

BadArguments ==
  \/ command.list = Missing
  \/ command.list # Missing /\ Named = <<>>

ReadArguments ==
  /\ stage = "arguments"
  /\ IF command.selfCheck
     THEN IF package.bundles = <<>> THEN Exit(1) ELSE Begin("bundles", package.bundles)
     ELSE IF BadArguments THEN Exit(2)                       \* ap.error
     ELSE Begin(IF command.chain THEN "chain" ELSE "files", Named)

-----------------------------------------------------------------------------
(* The receipts, one at a time. *)

Looking == stage \in {"files", "bundles", "signed"} /\ todo # <<>>

Counted(wrong) ==
  /\ failures' = failures + IF wrong THEN 1 ELSE 0
  /\ todo' = Tail(todo)
  /\ UNCHANGED <<command, package, stage, exit>>

\* Mutant: a file that cannot be read is reported and passed over.
SkipUnreadable ==
  /\ Looking /\ pc = "idle"
  /\ Head(todo).receipt = None
  /\ Counted(FALSE)
  /\ UNCHANGED vars

Unreadable ==
  /\ Looking /\ pc = "idle"
  /\ Head(todo).receipt = None
  /\ Counted(TRUE)
  /\ UNCHANGED vars

\* A new call of verify(): nothing of the last one is left.
Verify ==
  /\ Looking /\ pc = "idle"
  /\ Head(todo).receipt # None
  /\ receipt' = Head(todo).receipt /\ call' = Options
  /\ pc' = "integrity"
  /\ integrity' = FALSE /\ reproduced' = None /\ signature' = None
  /\ verified' = FALSE /\ unsupported' = FALSE /\ approved' = None
  /\ notes' = {}
  /\ rung' = [r \in DOMAIN rung |-> FALSE]
  /\ UNCHANGED commandVars

Climb == Next /\ UNCHANGED commandVars

\* Whether the result is not what was expected of this receipt.  A corpus that
\* cannot be exercised without the crypto package is not counted.
Surprising(job) ==
  CASE job.kind \in {"file", "bundle"} -> verified # job.expected
    [] job.kind = "signed" -> package.crypto /\ ~(verified /\ signature = "valid" /\ job.expected)
    [] job.kind = "forged" -> verified \/ signature = "valid"

Collect ==
  /\ Looking /\ pc = "done"
  /\ Counted(Surprising(Head(todo)))
  /\ pc' = "idle"
  /\ UNCHANGED <<receipt, call, result, notes, rung>>

\* The bundles are followed by the corpus and one forgery made from it.
NextCorpus ==
  /\ stage = "bundles" /\ todo = <<>>
  /\ IF package.corpus = <<>> THEN Exit(1)
     ELSE Begin("signed", Append(package.corpus, package.forged))

Report ==
  /\ stage \in {"files", "signed"} /\ todo = <<>>
  /\ Exit(IF failures = 0 THEN 0 ELSE 1)

-----------------------------------------------------------------------------
(* _chain. *)

Readable == {f \in ToSet(todo) : f.receipt # None}

\* verify_graph verifies no set with a receipt in it that does not verify by
\* itself; it is given no pin.
GraphMayVerify ==
  /\ Readable # {}
  /\ \A f \in Readable : AcceptedAs(f.receipt, [Options EXCEPT !.expect = None])

VerifyChain ==
  /\ stage = "chain"
  /\ \E graphVerified \in BOOLEAN :
       /\ graphVerified => GraphMayVerify
       /\ Exit(IF graphVerified /\ Readable = ToSet(todo) THEN 0 ELSE 1)

CommandNext == \/ ReadArguments \/ Unreadable \/ Verify \/ Climb \/ Collect
               \/ NextCorpus \/ Report \/ VerifyChain

CommandSpec == CommandInit /\ [][CommandNext]_cliVars

-----------------------------------------------------------------------------
(* Properties. *)

\* What the exit code promises of the receipts, said of their contents alone.
AllNamedVerify ==
  \A f \in ToSet(Named) :
    /\ f.receipt # None
    /\ AcceptedAs(f.receipt, [Options EXCEPT !.expect = IF command.chain THEN None ELSE @])

PackageBehaves ==
  LET Good(r) == AcceptedAs(r, Options)
  IN  /\ package.bundles # <<>> /\ package.corpus # <<>>
      /\ \A b \in ToSet(package.bundles) : Good(b.receipt) = b.expected
      /\ package.crypto => \A s \in ToSet(package.corpus) :
                             Good(s.receipt) /\ s.receipt.sig = "valid" /\ s.expected
      /\ ~Good(package.forged.receipt) /\ package.forged.receipt.sig # "valid"

\* Exit code 0 means every named receipt verified, 1 that at least one did not,
\* wherever in the list it stands and whatever could not be read (cli.py:3-4);
\* for --self-check, that every shipped receipt got the verdict it declares and
\* the forgery was refused (cli.py:81-83, 151-163).  verify_graph may refuse a
\* chain of receipts that each verify.
ExitCodeIsTheVerdict ==
  stage = "exited" =>
    IF command.selfCheck THEN exit = (IF PackageBehaves THEN 0 ELSE 1)
    ELSE IF exit = 2 THEN BadArguments
    ELSE /\ exit = 0 => AllNamedVerify
         /\ exit = 1 => command.chain \/ ~AllNamedVerify
=============================================================================
