# obsign-verify in TLA+

`obsign-verify` checks *receipts*: JSON documents that state a computation (a
kernel, its parameters, the hash of its output), the hash of that statement
(the *claim*), metadata, and optionally an Ed25519 signature. It checks them
without trusting whoever made them: it re-executes the computation, asks whether
the output depends on the inputs at all, checks the signature and what exactly
it covers, and, for a supply chain of receipts, that each names and embeds the
outputs of the ones below it. It comes with the producer's side too: functions
that mint receipts, and a compiler from a small language, RL, to the programs
receipts carry.

This directory holds TLA+ modules of that program, TLC configurations that
check them on small instances, and theorems about them that TLAPS proves for
every value of their constants. Line references such as `verify.py:337` are to
`src/src/obsign_verify/`; those to the compiler (`codegen.py`, `inline.py` and
so on) to its directory `replayc/`.

## 1. The system

| component | state it keeps | operations | modelled in |
|---|---|---|---|
| replay virtual machine (`replay.py`) | memory, pc, step counter of one call | `validate`, `run_counted`: 31 opcodes on 64-bit words | `ReplayMachine`, `CappedReplay` |
| input-liveness probe (`verify.py:67-370`) | work spent, cells moved, position in each ladder, verdicts | `_probe_values`, `_input_liveness` (two passes) | `LivenessProbe`, `ProbeValues`; what it promises: `ProbePromise` |
| trust ladder (`verify.py:373-677`) | the result dict, notes | `verify`, `_verify_replay`, `_signature_gate`, `_program_digest` | `TrustLadder` |
| signature (`signature.py`) | none; reads the receipt | `check`, `binds_hash`, `unattested_keys` | `Signature` |
| receipt graph (`graph.py`) | node index, link verdicts, colours and stack of the walk | `verify_graph`, `check_links`, `dfs` | `ReceiptGraph` |
| fixed kernel (`kernel.py`) | the field and two reused buffers | `validate_params`, `build_fixed_inputs`, `evolve` | `TauKernel` |
| wire format (`canonical.py`) | the parser's open containers, the walk's stack | `load_receipt`; `claim_of`, `integrity` | `WireFormat`; `Signature` |
| minting (`mint.py`) | none; the author keeps receipts and links | `replay_receipt`, `link`, `compose_inputs` | `Mint` |
| command line (`cli.py`) | failures so far, exit code | `main`, `_chain`, `_self_check` | `CommandLine` |
| RL front end (`replayc/frontend.py`, `resolve.py`, `typer.py`, `scales.py`, `fold.py`) | position and depth of the parser, symbol tables, scales known so far | parse, resolve, check, fold | `RLSyntax`, `RLParser`, `RLCheck`, `RLScales`, `RLFold` |
| RL back end (`replayc/inline.py`, `codegen.py`, `interp.py`) | fresh names; code, pool, cells, checks proven so far; frames and ticks | inline, generate; interpret | `RLInline`, `RLCodegen`, `RLInterp`, composed in `RLCompiler` |
| JavaScript and Rust ports (`src/js`, `src/rust`) | as the reference | as the reference | not modelled |

How they interact. `verify` calls `replay.run_counted` once to re-derive a
receipt, and then `_input_liveness` calls it again with one input perturbed at
a time (`_probe_values` lists with what), under a step cap per run and a budget
on all runs. `verify` calls `signature.check`, which recomputes the claim hash
with `canonical.integrity`. `verify_graph` calls `verify` on every document
supplied, runs the programs of linked receipts again and probes their output
cells. The command line calls `verify` or `verify_graph` on files that
`load_receipt` let through, or `verify` on what is shipped in the package.
Minting calls the machine and `verify`, and what it writes is what
`verify_graph` reads. The compiler's output is a program for the machine, and
its interpreter is a second opinion on what that program must compute. The
calls are synchronous and there are no threads; what makes the system hard is
the following.

* *The input is anybody's data.* A program in a receipt may jump anywhere, a
  list `binds` may be edited after it was signed, links may form cycles, and any
  field may have any type, so an exception can leave the ladder at any rung.
* *Budgets end things in the middle.* A probe is cut short between any two runs
  of either pass, and a run at any instruction; neither may look like an answer.
* *Order.* Documents and links come in any order; signing, editing and
  re-signing happen in any order; links are made, composed and minted in any
  order; files of a list fail before or after others succeed.
* *Machine words.* Three implementations must produce the same 64-bit results;
  an operation that wraps where its author thought it could not breaks that.
* *Three-valued answers.* "Could not be checked" must not read as "false", nor
  "never attempted" as either.
* *Facts that go stale.* The compiler proves a bounds check once and relies on
  it later, keeps locals of inlined calls in fixed cells, and checks in the order
  of the text what runs in another.

What makes each component right, in a sentence, is the first column of the
tables in section 3. The hazards in `PROJECT.json` list where each bites.

## 2. The modules

Constants stand for what the code fixes (word width, limits) or receives
(programs, receipts, parameter blocks); the `MC` module of the same name gives
them values for TLC. Definitions marked *Mutant* are wrong variants of the
definition they stand before. No specification uses them: each is named in
`PROJECT.json` with a property that fails when it takes the definition's place.

**`ReplayMachine`**: one call of `run_counted`. `Validate` and `ValidInputs` are
the static checks, `Start` loads memory, and there is one action per branch of
the dispatch chain (`LoadC`, `Load`, `Store`, `Jmp`, `CondJmp`, `Sel`,
`FixedMul`, `Unary`, `Binary`, `Halt`), plus the two ends of the loop
(`BudgetExhausted`, `PcLeft`). Words have `WordBits` bits, so a 4-bit instance
overflows as the 64-bit one does. A program is a record of JSON values of which
nothing is assumed but its outline: a number may be out of range or `NotInt`.

**`CappedReplay`**: a call of the machine beside its twin (`Free`, a second
instance), which has the same program and inputs and no step cap; the two are
interleaved freely. It states the contract of `run_counted` that the probe relies
on, and `LivenessProbe` takes the contract (`Capped`) in place of the machine.

**`LivenessProbe`**: `_input_liveness`. The program under probe is what its runs
do: for each input and each value of its ladder, whether the run traps, which
cells of the output it moves and how many steps it takes. Pass 1 (`BeginInput`,
`ProbeInput`, `EndLadder`, `ExhaustedInput`, `SkipInput`) goes through every
input until one value moves the output; pass 2 (`StartPass2`, `ResumeLadder`,
`ProbeRest`, `EndRest`, `CutShort`) resumes each ladder where pass 1 left it
until every cell is known to be live. `spent` is the code's running total,
compared with the budget before each run.

**`ProbePromise`**: what a probe promises, without passes, cursors or flags.
Runs are performed one at a time, none of them twice and none once the budget is
spent; an answer about an input is given once and only if the runs performed
and the program warrant it; and the report at the end is the strongest of the
answers and the cells seen to move. `LivenessProbe` implements it
(`PromiseKept`): its state is shown as the runs its ladders have been through
(`RunsDone`), its verdicts so far and what it returns (`Report`). The docstring
(`verify.py:236-258`) leaves one case without an answer, an input some of whose
perturbations trapped while the others ran and moved nothing. What may be answered
then is the constant `MixedAnswers`: `{"guarded"}`, as the code has it
(`verify.py:337`), in `PromiseKept`; nothing at all, the docstring to the letter,
in `DocumentedPromise`, which holds where no input is like that (section 4). The
run `guarded_input` shows the difference.

**`ProbeValues`**: `_probe_values`, one action per loop iteration, on a word of
any range and with any tables. Its two properties are proved for all of them
(section 4), and no run repeats it on small ones.

**`TrustLadder`**: `verify`. The receipt is the tuple of answers its contents
give at each rung, among them `raises`, the contents on which the Python of that
rung raises. One action per rung and early return; `FinishPinned` and
`FinishUnpinned` are the local function `finish`, through which all of them
leave. The rungs that are modules of their own enter as answers: `run` is that of
`ReplayMachine`, `liveness` that of `LivenessProbe`, `sig` that of `Signature`.

**`CommandLine`**: `main` on top of `TrustLadder`: `ReadArguments` (exclusive
options, the list file, duplicates), then one file after the other (`Unreadable`,
`Verify`, the ladder's own steps as `Climb`, `Collect`), `Report`, `VerifyChain`,
and the three loops of `--self-check` (`NextCorpus` and the kinds of entry).
`verify_graph`'s answer is any that the ladder allows for the documents given.

**`Signature`**: `Report` is `signature.check` as an operator on the receipt, and
the actions are what the holders of the file do to it, up to `MaxActs` signings
and `MaxEdits` edits in any order: sign under either envelope, change the claim,
drop the stated hash, change or remove metadata, change any field of the block,
put a signature of another act into it. Hashing is a constructor (injective) and
a signature is the pair of key and message: the model has no collisions and no
forgeries. `acts` is the history of what was signed.

**`ReceiptGraph`**: `verify_graph` in four stages: `Index` (by recomputed claim
hash; duplicates, collisions and items that are no receipts), `Ladder` (one
`verify` per node), `LinkStep` (`CheckLink` with `Fault`, the reason a link is
not good, in the order of the code's tests) and `Walk` (the explicit-stack
depth-first search with colours). The probe's answer for each cell is a field of
the claim, as the probe is deterministic.

**`Mint`**: the author of a chain on top of `ReceiptGraph`. `ReplayReceipt`,
`LinkTo` and `ComposeInputs` are the three calls, made in any order up to
`MaxReceipts` and `MaxLinks`; a call that raises is a step that cannot be taken.
`HandOver` gives some of what was minted to `verify_graph`, and the graph's own
actions go on from there.

**`WireFormat`**: `load_receipt` as its three passes: the size of the text and
its encoding, `json.loads` with the callbacks at literals and at the end of
objects (`Scan`), and the walk with its stack (`Visit`). A text is a sequence of
tokens with a length in bytes; the library's parser is external and modelled from
how it calls back. The values it makes are objects, as in Python: `objects` holds
them by the token they begin at, a container lists the objects that stand in it,
and the walk goes from one to the next. Only JSON texts are modelled (`Json`): one
value, in which all the rest stands, with names in objects; `json.loads` refuses
any other, whatever the limits. `InFormat` says of the tokens alone what the format
is, without passes.

**`TauKernel`**: `validate_params` (`Sizes`, `Envelope`) and `evolve` one array
operation after the other on the buffers `acc` and `tmp`, which start out
uninitialised. Every operation stores its exact result reduced to a word;
`wrapped` remembers whether any exact result was not a word. Floats are seen
after scaling, and the source term is any integer field within the bound that
`exp(-x) <= 1` gives it (`ParamsAssumption`).

The compiler is a module for each pass, over one abstract syntax, `RLSyntax`
(`nodes.py`):

* `RLParser`: the recursive descent from tokens to a tree, as a state passed from
  production to production, with the counters that bound nesting. `RLGrammar` is
  the reference it is compared with: the trees a token sequence has by the
  documented grammar (`Meanings`), and how a tree is written (`SpellProgram`).
* `RLCheck`: name and constant resolution, the type rules, recursion, the
  machine limits. Every refusal is a conjunct.
* `RLScales`: the one-pass check of fixed-point scales. `ScaledRun` is its
  reference: runs of the program, through either branch of every `if` and up to
  `Turns` turns of every loop, with the scales its values really have.
* `RLFold`, `RLInline`: constant folding; functions inlined callees first, with
  fresh names and hoisted calls.
* `RLCodegen`: cells, pool, labels, destinations, coalesced bounds checks, step
  costs; the generator's fields are one record. `Assemble` is `generate`'s result.
* `RLInterp`: the reference interpreter, with its own budget (`Ticks`).
* `RLMeaning`: what operators mean, from the machine's own definitions.
* `RLCompiler`: the passes as actions in their order (`ReadText`, `Parse`,
  `InterpretSource`, `InlineCalls`, `Fold`, `Generate` or `GenerateRefuses`), and
  then the actions of `ReplayMachine` on what was generated.

These modules recurse over trees and are for TLC alone.

Modules ending in `Proofs` extend the module they are about with theorems.

## 3. What the runs check

Every run is exhaustive over its instance. Invariants and action properties are
checked in each state or step. Liveness is stated where ending is in doubt: of a
program whose jumps are unrestricted, and of a walk over links that others wrote.
In `replay_machine` fairness is `WF_vars(Next)`, of the call and not of its twin:
a call is a sequential loop that nothing outside it blocks or delays, so as long
as it can take its next step it does. In `receipt_graph` it is weak fairness of
the steps of `verify_graph` alone (`Terminates`: once called, it returns), for
the same reason; nobody is obliged to mint, compose or hand over anything. The
other specifications state no fairness and no liveness: their loops run over
lists fixed before they start, and nobody is obliged to sign, edit or compile.
Deadlock is not checked, because every call ends and every author stops.

### `replay_machine` (339 091 states)

Every operation of one or two operands on every pair of 4-bit words; every
three-instruction program from a set with jumps, loads, stores, traps and
malformed operands, with caps from 1 to past the longest run, and without; every
field of a program out of range in turn; and beside each call, at its own pace,
the same call without a cap. Four bits suffice for each operation to overflow,
each shift to be out of range and `MIN / -1` to occur; three instructions suffice
for loops, falling off the end and reading a cell another instruction made an
address of.

| what holds | property |
|---|---|
| memory is machine words over exactly the declared cells | `TypeOK` |
| what `validate` checked suffices for every instruction executed | `StaticChecksSuffice` |
| no call charges more than its program's budget or its cap | `WorkWithinBudget` |
| at equal step counts, a call and its uncapped twin are in the same state | `SameComputation` |
| they end alike, or the call charged exactly its cap while the twin went on | `CapOnlyTruncates` |
| the result of every operation is the exact one reduced to a word; quotient and fixed-point product round toward zero, a remainder is `a - q * b` for that quotient, a right shift floors | `ArithmeticIsExactThenWrapped` |
| every call returns or traps | `Terminates` |

`ArithmeticIsExactThenWrapped` has a clause for each operation and says what it
writes without using what the machine computes it with: a quotient is
characterised by the size and sign of what it leaves, `NOT` by `v + a = -1`,
minimum and maximum by the order. The bitwise operations are those of the
constants `BitAnd`, `BitOr` and `BitXor`.

### `liveness_probe` (165 729 states)

Up to two inputs with ladders of one or two values, or three with one; two
output cells; runs of 1, 3 and 6 steps against caps of 2 and 4 and budgets of 5,
6 and 10, so that the budget ends between any two runs, at an exact end of a
pass, and never. Two values make "early exit" differ from "whole ladder" and let one
trap and the other not, two cells make pass 2 necessary.

| what holds | property |
|---|---|
| an input is live, guarded or dead only if its whole ladder says so | `InputVerdictSound` |
| each step is a run, an answer the runs so far warrant, or the return of the strongest answer: the probe is one of `ProbePromise`, mixed ladders answered as in the code | `PromiseKept` |
| a cell is dead only after all runs left it alone, live only if one moved it | `CellVerdictSound` |
| all runs cost less than the budget plus one capped run | `WorkBounded` |
| what is charged is what ran, each run once, over both passes | `WorkAccounted` |
| a program whose sweep fits in the budget gets definite answers | `CheapProgramsDecided` |

### `signature` (530 167 states)

Two claims, two keys (one with two spellings), two names, two metadata keys with
two contents; two signings and two edits in any order. Two signings are what
moving a signature between blocks takes, two edits what changing the metadata
and the list that names it takes. Claims, names and contents are interchangeable
and appear in no fixed role, so symmetry over them is sound; there is no
liveness property. Keys are not interchangeable, as one has a second spelling.

| what holds | property |
|---|---|
| a name and bound metadata are reported only if that key signed them, with this claim, in one act | `AttributedToItsSigner` |
| no signature is read under another envelope than it was made under | `ValidUnderItsOwnSpec` |
| an issued block stays valid while what it covers stands | `GenuineStaysValid` |
| every key outside the claim is vouched for or named unattested | `EveryFactIsAccountedFor` |
| changing bound metadata costs validity | `BoundIsFrozen` |

### `command_line` (390 506 states)

`verify` called as a library on every combination of answers, for each of the
two kernels and for receipts that stop earlier, with and without a pin and
strictness; the command on up to two files, some unreadable, by name and from a
list; `--chain`; `--self-check` on packages in which one part at a time is not
what it declares. Two files are enough for one outcome to come before or after
another.

| what holds | property |
|---|---|
| `verified` is the conjunction of integrity, re-derivation, signature and pin, by what the receipt contains, on every path | `VerifiedIsAllRungs` |
| a pin is answered on every path of a receipt that is an object | `PinIsAnswered` |
| exit code 0 means all that was named verified, 1 that something did not, 2 that the arguments make no sense | `ExitCodeIsTheVerdict` |

### `receipt_graph` (921 956 states)

What an author makes: up to three receipts with up to two links, in every order
of minting, linking and composing, handed over in part or whole. And, whoever
made them, every list of up to two documents, and of three from a smaller set:
honest leaves, copies with another envelope (one of which does not verify), a
colliding claim, another kernel, a program that traps, one whose probe ran out of
budget, parents whose links are wrong in each way the code distinguishes, alone
and in pairs, a grandparent, a self-reference, rings entered from inside and
outside, items that are no receipts. Three documents are enough for a shared
child, a ring with a tail and a chain of two links.

| what holds | property |
|---|---|
| links of a receipt whose inputs were composed from them bind, but for what `link` and `compose_inputs` do not look at | `ComposedLinksBind` |
| the verdict is that of the set supplied, whatever the order and the repetitions | `VerdictIsOfTheSet` |
| a cycle is reported exactly if there is one | `CycleReported` |
| nodes are finished once, children first | `ChildrenFirst` |
| links are "incomplete" exactly if nothing worse is wrong with any | `IncompleteIsNotForged` |
| `verify_graph`, once called, returns | `Terminates` |

### `tau_kernel` (5 628 states)

An 11-bit word, grids of 2 and 3, up to three steps, coefficients from zero to
past the envelope with both signs, sources that drive the field against both
clamps; each size out of range in turn. A 3 x 3 grid has an inner cell, edges
and corners; three steps let every cell influence every other.

| what holds | property |
|---|---|
| the field is within its clamps, the buffers hold words | `TypeOK` |
| no operation on admitted parameters wraps | `NothingWraps` |
| buffers and shifts compute the documented step exactly, rounding toward zero | `FieldIsExact` |

### `wire_format` (42 067 states)

Limits of two and three, and documents of up to five levels that fall short of
each, reach it and pass it, one part at a time: members, items, bytes of a string
(in characters of one and four bytes, with paired and lone surrogates),
digits, depth, bytes of the text, duplicate and object-model keys, non-finite
numbers. The library's own limits (`ParserDepth`, `ParserDigits`) lie above the
format's. `LoadsExactlyTheFormat`: `load_receipt` returns exactly what `InFormat`
describes, whichever of its passes meets the limit first.

### `rl_compiler` (169 348 states)

8-bit words. Straight lines of up to three array accesses over one base, with
writes of the base, the index and the array between them; branches with such
accesses in one block, the other or both; every small expression
on edge values; loops that count up, down and past the end; branches; calls,
nested, in loops and in conditions; constants to fold; refused programs; declared
scales; texts with and without each needed parenthesis, nested to the bound and
past it (`MaxExprDepth`, `MaxBlockDepth`; 48 in the code). Every program runs on
edge inputs on both the interpreter and the machine.

| what holds | property |
|---|---|
| the machine gives the interpreter's output, and traps where it refuses | `CompiledAgreesWithSource` |
| what is generated is valid, for every input of the right length | `EmittedIsValid` |
| an inferred budget never stops a run | `InferredBudgetSuffices` |
| a checked program whose bindings are declared once never combines two scales, in any order of execution | `PinnedRunsAgree` |
| a text is read as the program it was written from, or refused if it is of none | `ReadsAsWritten` |

`CompiledAgreesWithSource` leaves out three classes of programs, which are the
subjects of the runs below: those that may read a local before it is assigned
(`LocalsAreAssigned`), those in which a statement overwrites the base that its
own index is checked against (`OverwritesItsBase`), and those in which the second
block of an `if` starts with an access over a base and array that the first one
ends with (`LeaksACheck`). It also leaves out programs that declare a budget and
exceed it, and interpretations that exceed the interpreter's (`Ticks`): neither
is a number.

The translation of the compiler was compared with the Python code: the code
generated for 300 random programs, instruction by instruction, and the parser's
answer on 2 466 texts, tree by tree, were the same in both.

### `stale_local`, `rebased_index`, `leaked_check`: the compiler against its contract

`codegen.py:3` says that the emitted program runs to the same number on every
input on which the interpreter produces one, and traps where the interpreter does
(`SameAnswer`). It does not

* if a function called in a loop leaves a local unassigned on some path: the
  inliner keeps the local in one cell per call site and emits nothing that clears
  it, so it has the value of the previous turn where the interpreter reads 0
  (`stale_local`, `inline.py:144`);
* if a statement overwrites the base of its own index, as in
  `b = v[b]; x = v[b + 1]`: the bounds check is widened to an access made with
  the new value, and a run traps that the interpreter answers
  (`rebased_index`, `codegen.py:376`);
* if both blocks of an `if` access an array over the same base: what the first one
  proved is not forgotten before the second is generated, which then runs without
  a check. In `if c { x = v[b]; } else { x = v[b]; }` with `c = 0` and `b` past the
  end, the machine answers with what lies behind `v` and the interpreter refuses
  (`leaked_check`, `codegen.py:461`). `codegen.py:268` says that any control
  statement clears the coverage; it is cleared before the first block and after the
  second.

### `guarded_input`: an answer that means less than it says

`verify.py:239` keeps "guarded" for an input every perturbation of which trapped,
so that nothing was learned (`GuardedMeansAllTrapped`). The code answers it when
some perturbation trapped and none moved the output (`verify.py:337`). In the run's
counterexample one perturbation runs and moves nothing and the other is merely
longer than the step cap, whose end is the same trap to the probe
(`verify.py:287`).

### Other disagreements met while modelling

The modules follow the code. No run is spent on these:

* "A verifier must not reject an honest receipt merely because it was expensive
  to probe" does not hold of a program whose output moves only in runs longer
  than the step cap: those are traps to the probe (`verify.py:287`).
* A pin gets no answer on something that is not an object, although the handler
  says it "still gets an answer" (`verify.py:671`). A receipt from a file is
  always an object.
* `reproduced` stays None when the program was re-executed and trapped, although
  None "means NOTHING WAS ATTEMPTED" (`verify.py:553`).
* `--chain` prints INCOMPLETE for a chain in which one node is forged and another
  missing (`cli.py:213`), and takes no pin; `--self-check` ignores receipts named
  beside it. A list file that is not UTF-8 ends the command by an exception.
* `mint.link` raises `KeyError` on a verified receipt of the fixed kernel.
* Names the inliner makes are not reserved: a program may use them
  (`inline.py:18` and `inline.py:108`).
* Scales are followed in the order of the text, so an undeclared parameter or a
  variable assigned in a loop may have another scale than was checked
  (`scales.py:36`); hence "declared once" in `PinnedRunsAgree`.
* The bounds on nesting are on the text, and inlining multiplies it
  (`frontend.py:317`); the message at `frontend.py:417` names one level less than
  is allowed.

## 4. What is proved

TLAPS checks each theorem for every value of the constants that satisfies the
named assumptions of the module.

**`ReplayMachineProofs`** (words of any width, any program).
`TypeCorrectness`, `StaticChecksAreEnough`, `WorkIsWithinBudget`. None of the
three is inductive: memory stays within words only because constants, operands
and jump targets were validated, and the counter is within the budget only
because it is compared before each step. The strengthening adds `Admitted` (what
is executing passed `Validate`) and `Counted` (what the counter is at each
stage). The lemmas `Alu1Word`, `Alu2Word` and `MulFxWord` say that every
operation yields a word; `FetchedIsValid` and `OperandsExist` carry validation
of the code to the instruction at hand.

`ArithmeticIsExact` is about every step of every call, and has a conjunct for each
operation that writes a result. Reduction to a word changes
a number by a multiple of the range of words (`WrapCongruent`), a quotient by
truncation is the one nearest to zero and exact up to less than the divisor
(`TruncDivRounds`, `DivisionExact`), the product of two words and a divisor fits
the wide intermediate (`QuotientInWide`, `MulFxExact`), and a right shift is the
floor (`ShiftExact`). `WrittenValue` says which cell a step writes, and that no
other changes. Assumed: `WordAssumption` (one conjunct
says that powers of two are positive and grow, as the provers know nothing of
exponentiation), `LimitAssumption`, `CallAssumption`, `BitsAssumption` (bitwise
operators yield integers).

**`LivenessProbeProofs`** (any program, any limits). `TypeCorrectness`,
`InputVerdictIsSound`, `ProgramVerdictIsSound`, `CellVerdictIsSound`,
`WorkIsBounded`. (Of these the verdict on the program as a whole has no run of
its own: the run checks it as the report of `PromiseKept`.) The strengthening is
what pass 1 leaves for pass 2: the cursors are in range, the flags of the input
at hand summarise the values tried so far (`LadderSoFar`), and the cells recorded
as moved are those moved by the runs made (`CellsRecorded`). `WorkIsAccounted`
says what was charged: each step performs no run, or one that was not performed
before (`EachRunIsNew`), so the charge is the sum of the prices of the runs
performed. What it takes of sums, that one term more raises them by as much
(`SumOfOneMore`) and that they are monotone (`SumIsMonotone`), is induction over
their length, argued by a first length that fails (`FirstFailure`); that the
recursion defining them has a solution at all is `SumStep`.
`CheapProgramsAreDecided` follows: while only runs are charged, a budget larger
than the whole sweep is never spent, so none of the three actions that give up
can happen.

`PromiseIsKept` is the refinement: `PromiseStart` maps the initial states and
`PromiseStep` every step, to one of `ProbePromise` or to none. A step that runs
the program performs one it offers and has not performed before, while budget is
left (`PerformedIsOffered`, `RunsOfSteps`); a step that ends a ladder gives the
answer that what is recorded of the ladder warrants (`Recorded`, `AnswerGiven`);
the steps that return report the strongest answer and the cells moved
(`StrongestIsReported`, `CellsAreReported`, `Returned`). Assumed:
`CostAssumption`, `SubjectAssumption` (a run takes at least a step; the outline
of a subject). `PromiseIsKept` is of the code's answers, with "guarded" for a mixed
ladder. `DocumentedPromiseIsKept` has the docstring's own, under the hypothesis that
no ladder is mixed (`NoMixedLadder`), where the two warrant the same answers
(`SameReading`).

The same module has the theorems about `ProbeValues` (any word, any tables, any
input): `ValuesTypeCorrectness`, `NoValueIsWasted`, `EveryThresholdIsCrossed`;
the last needs that both ends of the word are listed by the time the loops are
over (`EndsReached`). Their hypothesis is `TablesOK`: the tables hold integers,
no divisor is zero and no shift negative.

**`CappedReplayProofs`** (words of any width, any program and inputs, any cap).
`TheCapIsNoInput`, `TheCapOnlyTruncates`. What one instruction makes of a
configuration (status, reason, memory, pc) is a function, `After`; the invariant
(`OnePath`) says that there is one path of configurations from the loaded memory
on, that each call stands on it, as far along as it charges steps, and that only
the last point of the path is not running. When one call moves past the end of
the path it extends it; when the other follows, it finds itself on it. `CallAlone`
says that the call beside its twin is a call, so that the theorems of
`ReplayMachineProofs` hold of it. Assumed: what is assumed of the machine.

**`SignatureProofs`** (any keys, claims, metadata, any number of acts and edits).
`AttributionIsGenuine`, `NoEnvelopeIsMistaken`, `NothingIsPassedOver`. The
invariant is that every act recorded is genuine: its block's signature is that
key over that message, and the bound hash is that of the metadata recorded.
Then a signature that verifies is one of an act (`VerifiedSignatureIsAnAct`), and
a hash determines the metadata (`HashOfDetermines`). `GenuineBlocksStayValid` and
`BoundMetadataIsFrozen` need besides that the recorded blocks are of the kind
signing issues (`BlocksAreIssued`). Assumed: `KeyAssumption` (a spelling names one
key), `TokenAssumption` (the token for a missing field is neither a hash, a key, a
spelling, a signature nor a list of names), and the two idealisations built into
the constructors.

**`TauKernelProofs`** (any word, any grid, field, coefficients and limits).
`EnvelopeIsSound`: `validate_params` never admits a block on which an operation
of `evolve` wraps. `NothingWraps` is not inductive; the strengthening
`AccInRange` gives, for each operation, the range of the accumulator after it,
which is the code's own value chain (`LapMax`, `DiffusionMax`, `DecayMax`,
`InnerMax`), and one lemma per operation shows how one link follows from the one
before. As no operation wraps, each stores its exact result; `TheStepIsExact`
follows what `acc` holds through the formula of the docstring (`AccIsExact`), with
`ShiftRoundsTowardZero` for the biased shift of a negative number.
`ProductBound` and `ShiftBound` are the arithmetic; the latter shows that
the biased shift never exceeds the rounded bound. `CellUpdatesAreBounded` and
`TypeCorrectness` come from the same invariant. Assumed: `LimitAssumption`
(powers of two are positive) and `ParamsAssumption`, whose last conjunct is the
bound on the source term that the code takes from floating point
(`kernel.py:262`).

**`CommandLineProofs`** (any set of receipts, programs and calls; any list of
files, any list file, any package). First the ladder: `VerdictIsAllRungs`.
The property speaks only of the end, so the strengthening says what has been
established at every rung: the common ones (`Climbed`), those of the receipt's
own program (`Replayed`) and of the fixed kernel (`Evolved`), each local boolean
being the answer the receipt contains; and that no verdict stands before the
last of them (`Judged`). `RaiseKeepsIInv` is the heart of it: an exception leaves
the verdict at FALSE, and only a receipt that deserves no other raises.
`PinIsAlwaysAnswered` follows from what the handler does with the pin and from
when it is set otherwise.

Then the command that climbs it: `ExitCodeMeansTheVerdict` and
`EveryFileIsJudgedAlone`. While a receipt is looked at, the invariant of the
ladder holds for it under the options of the command (`Climbing`). Between
receipts, what was seen and what is left make up the work of the stage, and the
count of failures is zero exactly if nothing seen fails by its contents
(`Tallied`), which is carried from the shipped bundles to the signed corpus. A
forgery is refused only if its signature is not *reported* valid either, so the
proof also says that a ladder ends with the signature of the receipt unless
something raised before it was read (`Reported`). That a list file names a list
(`NamedInIsAList`) is an induction over its lines, argued by a least line that
breaks it. Assumed: `InputAssumption`, `TokenAssumption` (the token for a missing
field is no digest, no hash and no other token), `CommandAssumption` (the shape of
arguments and packages; the receipt the forgery is made from is well formed).

**`ReceiptGraphProofs`** (any lists of documents, any claims and links).
`CyclesAreReported`, `ChildrenAreFirst`, `MissingIsNotForged`,
`TheVerdictIsOfTheSet`. All four speak of the end; the invariant (`GraphIsKept`)
says what each stage has established and the later ones keep:

* `IndexInv`: keys and nodes are those of the documents read, a node has all the
  copies of its claim, and a collision is noted if two claims read collide.
* `LadderInv`: a node is verified if every copy of its claim is.
* `LinksInv`: the verdict on a node's links is the grade of the *set* of their
  faults, each taken alone, and of the overlaps between pairs of them; `taken` is
  what the links that bind name. Here the order of links drops out (`GradeStep`,
  `LinkChecked`).
* `WalkInv`: the stack is a path in the graph of the claims, its nodes are the
  grey ones, each frame was pushed by the last link followed in the frame below,
  and all other links followed lead to finished nodes, if no cycle was met. Then
  no set of finished nodes names itself all over (`DownFirst`); and a link to a
  grey node closes such a set, the part of the stack above that node.

At the end the parts say of the set of documents what `GoodSet` asks
(`CollisionIsOfTheSet`, `ClaimsAreKeyed`, `LaddersAreOfTheSet`,
`LinksAreOfTheSet`). Assumed: `SupplyAssumption`, the shape of decoded documents;
hashes may collide, a claim need not be acyclic, and nothing is said of how
outputs, probes and links are related. These theorems are about `verify_graph` on
any supply (`Spec`).

The same module carries them over to an author's chain (`ChainSpec`):
`ChainsAreKept`, `ChainsAreJudged` and `ComposedChainsBind`, for any programs,
lists of inputs, offsets and lengths, and any number of receipts and links. The
author's invariant (`WalletInv`) has no order of calls in it:

* a receipt attests what was run, under the digest of the first receipt of the
  same claim (`Minted`, `InItsPlace`), so that equal digests are of equal claims
  and no collision can be noted (`NoCollisionInWallet`);
* each link names a smaller digest and carries what that receipt outputs
  (`IntoWallet`), so that a set of claims that names itself all over would have
  no least digest (`NoCycleInWallet`);
* inputs that were composed hold each link's values where it says, and no two
  links overlap (`HoldsLinks`). `PlacedHolds` shows this of what `compose_inputs`
  returns, where the last of the links over an input wins.

`Handed` says that the documents are the author's and `MissingNoted` that a
missing child is noted by the check that finds it missing. At the end only the
probe's answers are left to find fault with (`HandedLink`, `ComposedFaults`).
Assumed besides: `MintAssumption`: inputs and outputs are lists of integers, and a
program has one probe answer for each of its outputs (`verify.py:276`).

**`WireFormatProofs`** (any JSON texts, of any depth and length, any limits).
`FormatIsExact`: a text loads if and only if it is in the format. The document is
a tree, built up by the parser and taken apart by the walk; the proof has no
induction over trees, as everything is said by token. `Depth` is how many
containers a token stands in, and the invariant relates what is held to it:

* `Nested`: the open containers are those the next token stands in, each at its
  depth (`Around`), and each has listed, in order, the names and items that stand
  directly in it and have been passed (`Collected`). A container that closes has
  then listed all of its own (`AllCollected`), and is itself the last item so far
  of the one around it (`OuterMembers`).
* `Made`: a value that is complete says what its tokens say and passed its
  callback (`Faithful`).
* `Pending` and `Left`: what waits for the walk waits at its true depth, and every
  value the walk has not accepted stands in one that waits. A value that is
  visited gives way to its items, and what stands in it stands in one of them
  (`UnderAnItem`).
* a text that was refused is not in the format (`AtStage`); every refusal names
  the token at which the text fails.

The invariant is theorem `Invariance`. The two passes see strings after the
library has joined the halves of pairs, the format speaks of them before:
`TextAllowedIfConforms` says that both judge a string alike, halves left alone
(`LoneIsUnpaired`) and bytes counted (`BytesOfPairs`). That a finite set of numbers
has a list in order (`ListExists`) is an induction, argued by a least set without
one. Assumed: `LimitAssumption` (limits are numbers), `ParserAssumption` (CPython's
own limits are no lower than the format's, without which honest documents would be
refused), `TextAssumption` (texts are JSON).

Only model-checked:

* the compiler, whose modules use recursive operators over trees, which leave the
  prover without its SMT backend;
* both `Terminates`: liveness under fairness is out of the prover's reach.

## 5. What is not modelled

* SHA-256, Ed25519 and hexadecimal: constructors, as said above.
* Floating point in `kernel.py`: seen after it was scaled to integers.
* The lexer of RL: a text is a sequence of tokens. The disassembler and what any
  command prints.
* The limit of the Python stack, which deeply inlined programs meet.
* The JavaScript and Rust ports. The modules state what all three have to compute;
  that they do is the subject of the repository's differential tests. Models of
  them would for the most part repeat `WireFormat` and `ReplayMachine`.
* Tests, examples, tools and the written specification are what the code was
  compared with; they keep no state of the verifier.

## 6. Plan

Every safety property of the runs is proved but those of the compiler. What is
left there is to write its passes without recursive operators, as functions on
trees known by their nodes (as `WireFormat` has its values), and to prove of the
machine code what the runs show of the programs listed above.

## 7. Running

    tlc -workers 2 -config MCCommandLine.cfg MCCommandLine
    tlapm TauKernelProofs.tla

`PROJECT.json` lists the runs with their configurations and properties, the
mutants, the source lines of each definition, the findings, the hazards and the
theorems.
