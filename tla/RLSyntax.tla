------------------------------ MODULE RLSyntax ------------------------------
(***************************************************************************)
(* The abstract syntax of RL, the little language that compiles to replay  *)
(* programs (src/obsign_verify/replayc/nodes.py).  An expression is its    *)
(* kind, the name or the literal it carries and its sub-expressions in     *)
(* order of evaluation; a statement is its kind, the name it binds or      *)
(* stores to, its expressions and its blocks.  Source positions, which     *)
(* only reach error messages, are left out.                                *)
(*                                                                         *)
(* The passes over the syntax are recursive operators, so these modules    *)
(* are for TLC only.                                                       *)
(***************************************************************************)
EXTENDS Integers, FiniteSets, Sequences, SequencesExt

Expr(kind, id, v, sub) == [k |-> kind, id |-> id, v |-> v, sub |-> sub]

IntLit(v)     == Expr("lit", "", v, <<>>)
Name(x)       == Expr("name", x, 0, <<>>)
Index(arr, i) == Expr("index", arr, 0, <<i>>)
Un(op, x)     == Expr("unary", op, 0, <<x>>)       \* op is "neg" or "not"
Bin(op, x, y) == Expr("binary", op, 0, <<x, y>>)   \* op is a machine opcode
CallTo(fn, args) == Expr("call", fn, 0, args)

Poly == 0 - 1        \* no fixed-point scale is declared

Stmt(kind, id, ex, blocks) ==
  [k |-> kind, id |-> id, ex |-> ex, blocks |-> blocks, scale |-> Poly]

Let(x, e)          == Stmt("let", x, <<e>>, <<>>)
LetFx(x, n, e)     == [Let(x, e) EXCEPT !.scale = n]        \* let x: fxN = e
Assign(x, e)       == Stmt("assign", x, <<e>>, <<>>)
StoreElem(a, i, e) == Stmt("store", a, <<i, e>>, <<>>)
If(c, then, els)   == Stmt("if", "", <<c>>, <<then, els>>)
While(c, body)     == Stmt("while", "", <<c>>, <<body>>)
For(x, lo, hi, body) == Stmt("for", x, <<lo, hi>>, <<body>>)
Break              == Stmt("break", "", <<>>, <<>>)
Continue           == Stmt("continue", "", <<>>, <<>>)
Return(e)          == Stmt("return", "", <<e>>, <<>>)

Fn(f, params, body) == [name |-> f, params |-> params, body |-> body,
                        scales |-> [i \in DOMAIN params |-> Poly]]
ArrayDecl(a, len)   == [name |-> a, len |-> len, scale |-> Poly]

NoSteps == 0 - 1     \* no #steps pragma

\* inputArray is <<>> or one array that is the whole input window; a const is
\* a pair <<name, expression>>.
Program(inputs, inputArray, arrays, consts, fns, body, outputs, budget) ==
  [inputs |-> inputs, inputArray |-> inputArray, arrays |-> arrays, consts |-> consts,
   fns |-> fns, body |-> body, outputs |-> outputs, steps |-> budget,
   scales |-> [i \in DOMAIN inputs |-> Poly]]

-----------------------------------------------------------------------------
(* Traversals several passes share. *)

Simple == {"let", "assign", "store"}

RECURSIVE Flatten(_), Calls1(_), Reads(_)

\* F of x: the passes thread a state through many steps.  With Once, x is a
\* value before F begins, which keeps TLC's evaluation of a long pass shallow.
With(x, F(_)) == F(x)
Once(x, F(_)) == CHOOSE r \in {F(y) : y \in {x}} : TRUE

MapSeq(s, F(_)) == [i \in DOMAIN s |-> F(s[i])]

\* The sequence s without its repetitions, in order of first appearance.
Distinct(s) == FoldLeft(LAMBDA acc, x : IF Contains(acc, x) THEN acc ELSE Append(acc, x), <<>>, s)

NamesOf(decls) == {decls[i].name : i \in DOMAIN decls}

AllArrays(p) == p.inputArray \o p.arrays

FnNamed(p, f) == p.fns[CHOOSE i \in DOMAIN p.fns : p.fns[i].name = f]

\* Every statement of a block, with those nested in it, in source order.
Flatten(stmts) ==
  FlattenSeq(MapSeq(stmts, LAMBDA s : <<s>> \o FlattenSeq(MapSeq(s.blocks, Flatten))))

\* The names a block introduces with `let` or `for`, in first-seen order.
Binders(stmts) ==
  LET binding == SelectSeq(Flatten(stmts), LAMBDA s : s.k \in {"let", "for"})
  IN  Distinct(MapSeq(binding, LAMBDA s : s.id))

Calls1(e) == (IF e.k = "call" THEN {e.id} ELSE {}) \cup UNION {Calls1(e.sub[i]) : i \in DOMAIN e.sub}

\* The names a block calls.
CalleesOf(stmts) ==
  UNION {UNION {Calls1(s.ex[i]) : i \in DOMAIN s.ex} : s \in ToSet(Flatten(stmts))}

\* The scalars an expression reads.
Reads(e) == (IF e.k = "name" THEN {e.id} ELSE {}) \cup UNION {Reads(e.sub[i]) : i \in DOMAIN e.sub}
=============================================================================
