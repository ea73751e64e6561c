----------------------------- MODULE RLCompiler -----------------------------
(***************************************************************************)
(* RL from source to number, both ways (src/obsign_verify/replayc/         *)
(* __init__.py): parse_program refuses a program or resolves and checks    *)
(* it; the interpreter evaluates the checked tree; the compiler inlines,   *)
(* folds and generates, and the replay machine runs what was generated.    *)
(* The machine's own actions do the running, so the composition is of the  *)
(* compiler's passes with ReplayMachine.                                   *)
(***************************************************************************)
EXTENDS RLParser, RLInline, RLInterp, RLCheck, ScaledRun, RLCodegen

\* Records of a program, src, a text of it (or NoText: it is submitted parsed,
\* and the lexer and the parser are passed by) and its inputs.
CONSTANT Sources

VARIABLES
  source,    \* what was submitted
  stage,     \* "text", "unread" (ParseError), "parsed", "refused", "checked", "interpreted", "inlined",
             \* "folded", "generated" or "too big" (CodegenError)
  tree,      \* the program as the last pass left it
  oracle,    \* what the interpreter answered
  inferred   \* the step budget codegen inferred, or Unbounded

compilerVars == <<source, stage, tree, oracle, inferred>>
allVars == <<compilerVars, vars>>

NoText == <<>>
NoProgram == <<>>    \* what a text that is no program is a text of

NoAnswer == [sig |-> "none", vals |-> <<>>]

CompilerInit ==
  /\ source \in Sources
  /\ stage = IF source.text = NoText THEN "parsed" ELSE "text"
  /\ tree = IF source.text = NoText THEN source.src ELSE NoProgram
  /\ oracle = NoAnswer
  /\ inferred = Unbounded
  /\ call = [prog |-> <<>>, inputs |-> source.inputs, cap |-> NoCap]
  /\ status = "none" /\ reason = "none"
  /\ mem = <<>> /\ pc = 0 /\ steps = 0

Accepts(p) == /\ Resolvable(p)
              /\ WellTyped(Resolve(p))
              /\ ScalesAgree(Resolve(p))
              /\ WithinMachineLimits(Resolve(p))

Pass(from, to) == stage = from /\ stage' = to /\ UNCHANGED <<source, vars>>

ReadText ==
  /\ stage = "text"
  /\ \E read \in {ParseText(source.text)} :
       /\ stage' = IF read.ok THEN "parsed" ELSE "unread"
       /\ tree' = read.tree
  /\ UNCHANGED <<source, oracle, inferred, vars>>

Parse == /\ stage = "parsed"
         /\ stage' = IF Accepts(tree) THEN "checked" ELSE "refused"
         /\ tree' = IF stage' = "checked" THEN Resolve(tree) ELSE tree
         /\ UNCHANGED <<source, oracle, inferred, vars>>

\* interpret_source; it has no part in what is compiled.
InterpretSource == /\ Pass("checked", "interpreted")
                   /\ oracle' = Interpret(tree, source.inputs)
                   /\ UNCHANGED <<tree, inferred>>

InlineCalls == /\ Pass("interpreted", "inlined")
               /\ tree' = InlineProgram(tree)
               /\ UNCHANGED <<oracle, inferred>>

Fold == /\ Pass("inlined", "folded")
        /\ tree' = FoldProgram(tree)
        /\ UNCHANGED <<oracle, inferred>>

GenerateRefuses == /\ Pass("folded", "too big")
                   /\ CellsNeeded(GenProgram(tree)) > MaxMem
                   /\ UNCHANGED <<tree, oracle, inferred>>

\* What is generated is what the machine is called with.
Generate ==
  /\ stage = "folded"
  /\ \E g \in {GenProgram(tree)} :
      /\ CellsNeeded(g) <= MaxMem
      /\ stage' = "generated"
      /\ inferred' = InferredSteps(g)
      /\ call' = [call EXCEPT !.prog = Assemble(tree, g)]
      /\ status' = "called"
      /\ UNCHANGED <<source, tree, oracle, reason, mem, pc, steps>>

RunMachine == Next /\ UNCHANGED compilerVars

CompilerNext == \/ ReadText \/ Parse \/ InterpretSource \/ InlineCalls \/ Fold
                \/ GenerateRefuses \/ Generate \/ RunMachine

CompilerSpec == CompilerInit /\ [][CompilerNext]_allVars

-----------------------------------------------------------------------------
(* Properties. *)

\* A text is read as the program it was written from, and a text of none is
\* refused: operators bind and associate as the grammar says, and what nests
\* as deep as the parser's bounds allow is read, what nests deeper is not.
ReadsAsWritten ==
  /\ stage = "unread" => source.src = NoProgram
  /\ stage = "parsed" /\ source.text # NoText => tree = source.src

\* Every local of a function is assigned before it is read, on every path: the
\* names assigned after a block, and whether it reads no other.  (A local some
\* path leaves alone is the business of a run of its own; programs that use the
\* names the inliner makes are left out.)
RECURSIVE Definite(_, _)
Definite(stmts, known) ==
  FoldLeft(LAMBDA acc, s :
             LET start == acc.names \cup IF s.k = "for" THEN {s.id} ELSE {}
                 inner == MapSeq(s.blocks, LAMBDA b : Definite(b, start))
             IN  [ok |-> /\ acc.ok
                         /\ \A i \in DOMAIN s.ex : Reads(s.ex[i]) \subseteq acc.names
                         /\ \A i \in DOMAIN inner : inner[i].ok,
                  names |-> CASE s.k = "let" -> start \cup {s.id}
                              [] s.k = "if" -> inner[1].names \cap inner[2].names
                              [] OTHER -> start],
           [names |-> known, ok |-> TRUE], stmts)

LocalsAreAssigned(p) ==
  \A i \in DOMAIN p.fns : Definite(p.fns[i].body, ToSet(p.fns[i].params)).ok

\* A statement whose own right side is checked against the base it overwrites.
OverwritesItsBase(p) ==
  \E s \in ToSet(Flatten(p.body)) :
    \E key \in ToSet(Keys(s.ex)) : Writes(s, key[2])

\* The arrays and bases a statement reads or writes through.
Uses(s) == ToSet(Keys(s.ex))
             \cup IF s.k = "store" THEN {<<s.id, t.base>> : t \in ToSet(Shape(s.ex[1]))} ELSE {}

\* From statement m to statement l nothing branches and the base stays.
StraightOver(stmts, m, l, base) ==
  \A j \in m .. l : stmts[j].k \in Simple /\ ~Writes(stmts[j], base)

\* Of these, a check is in force at the end of a block, or at its beginning.
UsesAtEnd(stmts) ==
  UNION {{u \in Uses(stmts[m]) : StraightOver(stmts, m, Len(stmts), u[2])} : m \in DOMAIN stmts}

UsesAtStart(stmts) ==
  UNION {{u \in Uses(stmts[m]) : stmts[m].k \in Simple /\ StraightOver(stmts, 1, m - 1, u[2])} :
           m \in DOMAIN stmts}

\* A branch whose second block goes on with a check the first one made.
LeaksACheck(p) ==
  \E s \in ToSet(Flatten(p.body)) :
    s.k = "if" /\ UsesAtEnd(s.blocks[1]) \cap UsesAtStart(s.blocks[2]) # {}

Answered == stage = "generated" /\ Done

\* One number or a refusal on both paths.  A budget the author declared may
\* stop the machine alone, and the interpreter's own is not part of any contract
\* (interp.py:86-89); MaxSteps is large enough for the programs that end.
SameAnswer ==
  Answered /\ ~(reason = "budget" /\ tree.steps # NoSteps) /\ oracle.sig # "exhausted" =>
    IF status = "halted" THEN oracle.sig = "" /\ oracle.vals = Output
    ELSE oracle.sig = "trap"

\* For every input on which the interpreter produces a number the emitted
\* program runs to the same number, and where the interpreter refuses the
\* program traps (codegen.py:3-7), whatever the optimiser did to it: except for
\* the three kinds of program above, on which it does not hold.
CompiledAgreesWithSource ==
  Answered /\ LocalsAreAssigned(source.src) /\ ~OverwritesItsBase(tree) /\ ~LeaksACheck(tree) =>
    SameAnswer

\* What is emitted satisfies the validator a stranger's receipt meets, and no
\* input of the right length is refused (codegen.py:248).
EmittedIsValid == Answered /\ reason = "refused" => oracle.sig = "trap" /\ ~ValidInputs(prog, call.inputs)

\* An inferred budget is a worst case: a program that runs under it is never
\* stopped by it (codegen.py:219-224).
InferredBudgetSuffices ==
  reason = "budget" => tree.steps # NoSteps \/ inferred = Unbounded \/ inferred > MaxSteps

\* Where every binding is declared once, no run of a program that passed the
\* check combines two different scales (scales.py:19-30): what is checked in
\* the order of the text holds in every order of execution.
PinnedRunsAgree ==
  stage = "checked" /\ Pinned(tree) => \A t \in Ends(tree) : t.ok
=============================================================================
