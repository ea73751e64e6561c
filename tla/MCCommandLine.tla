--------------------------- MODULE MCCommandLine ---------------------------
(***************************************************************************)
(* The command on short lists of receipts and on several installed         *)
(* packages; and verify() called by itself, as a library, on every         *)
(* combination of answers of the rungs a receipt takes, each kernel by     *)
(* itself, and on receipts that stop before a kernel is chosen.            *)
(***************************************************************************)
EXTENDS CommandLine

CONSTANTS d1, d2

Honest ==
  [object |-> TRUE, intact |-> TRUE, spec |-> "v1", kernel |-> "replay", sig |-> "valid",
   params |-> TRUE, program |-> d1, inputs |-> TRUE, stated |-> None, run |-> "h1",
   want |-> "h1", length |-> None, liveness |-> "live",
   build |-> "h1", input |-> None, array |-> "right"]

\* What a receipt may carry as params: nothing, no program, one canonical_bytes
\* refuses, no list of inputs, or a program with its inputs.
Carried ==
  {[Honest EXCEPT !.params = FALSE, !.program = None, !.inputs = FALSE],
   [Honest EXCEPT !.program = None], [Honest EXCEPT !.program = Malformed],
   [Honest EXCEPT !.inputs = FALSE], Honest}

\* signature.check refuses a block over a claim that does not hash as stated.
Attributed ==
  {[c EXCEPT !.sig = s] : c \in Carried, s \in Reports \cup {Malformed}}
  \cup {[c EXCEPT !.sig = s, !.intact = FALSE] : c \in Carried, s \in {"absent", "refused"}}

Replays ==
  {[r EXCEPT !.stated = st, !.run = run, !.want = w, !.length = l, !.liveness = v] :
     r \in Attributed, st \in {None, d1, d2}, run \in {"trap", "h1"},
     w \in {"h1", "h2", Malformed}, l \in {None, "wrong"},
     v \in {"live", "dead", "guarded", "indeterminate", "n/a"}}

Taus ==
  {[r EXCEPT !.kernel = "tau", !.build = b, !.input = i, !.want = w, !.array = a] :
     r \in Attributed, b \in {"h1", Malformed}, i \in {None, "h1", "h2", Malformed},
     w \in {"h1", "h2", Malformed}, a \in {"right", "wrong", Malformed}}

Unread ==
  {[r EXCEPT !.kernel = "other"] : r \in Attributed}
  \cup {[r EXCEPT !.spec = "other"] : r \in Attributed}
  \cup {[Honest EXCEPT !.object = FALSE, !.params = FALSE, !.program = None]}

MCReceipts == Replays \cup Taus \cup Unread

MCCalls == [expect : {None, d1, d2}, strict : BOOLEAN]

-----------------------------------------------------------------------------

\* Receipts whose verdict depends on the options, or leaves fields set that the
\* next receipt must not find: a signature, a pin, a hash that was reproduced.
Evolved == [Honest EXCEPT !.kernel = "tau", !.program = None, !.sig = "absent"]
Forgery == [Honest EXCEPT !.want = "h2"]
Pick == {Honest, Forgery, Evolved,
         [Honest EXCEPT !.program = d2, !.liveness = "indeterminate"],
         [Honest EXCEPT !.want = Malformed, !.intact = FALSE, !.sig = "refused"],
         [Honest EXCEPT !.spec = "other"]}

Files == {File(r) : r \in Pick \cup {None}}

Few == {File(r) : r \in {Honest, Forgery, None}}

Lists == {None, Missing}
         \cup {<<Comment>>, <<Comment, File(Honest)>>, <<File(Forgery), Comment>>, <<File(None)>>}

Command(files, list, chain) ==
  {[files |-> f, list |-> l, chain |-> chain, selfCheck |-> FALSE,
    expect |-> e, strict |-> s] :
     f \in files, l \in list, e \in {None, d1}, s \in BOOLEAN}

MCCommands ==
  Command(BoundedSeq(Files, 3), {None}, FALSE) \cup Command(BoundedSeq(Few, 2), Lists, FALSE)
  \cup Command(BoundedSeq(Files, 2), {None}, TRUE) \cup Command(BoundedSeq(Few, 1), Lists, TRUE)
  \cup {[files |-> <<File(Forgery)>>, list |-> Missing, chain |-> TRUE, selfCheck |-> TRUE,
         expect |-> d2, strict |-> TRUE]}

\* Without the crypto package every signed receipt is refused.
Shipped(crypto) == [Honest EXCEPT !.sig = IF crypto THEN "valid" ELSE "refused"]

Corpora(crypto) ==
  {<<>>} \cup {<<Signed(Shipped(crypto), bound)>> : bound \in BOOLEAN}
  \cup {<<Signed(Evolved, TRUE), Signed(Shipped(crypto), TRUE)>>}

Bundles ==
  BoundedSeq({Bundle(Evolved, TRUE), Bundle(Evolved, FALSE), Bundle(Forgery, FALSE)}, 2)

PackagesWith(crypto) ==
  {[bundles |-> b, corpus |-> c, forged |-> f, crypto |-> crypto] :
     b \in Bundles, c \in Corpora(crypto), f \in {Forged(Shipped(FALSE)), Forged(Shipped(crypto))}}

MCPackages == PackagesWith(TRUE) \cup PackagesWith(FALSE)

-----------------------------------------------------------------------------
(* Only --self-check looks at the package, and a library call at neither.  *)

AnyPackage == CHOOSE p \in MCPackages : TRUE
AnyCommand == CHOOSE c \in MCCommands : TRUE

LibraryInit ==
  /\ Init
  /\ command = AnyCommand /\ package = AnyPackage
  /\ stage = "library" /\ todo = <<>> /\ failures = 0 /\ exit = None

MCInit == \/ CommandInit /\ (command.selfCheck \/ package = AnyPackage)
          \/ LibraryInit

MCSpec == MCInit /\ [][CommandNext]_cliVars
============================================================================
