------------------------------- MODULE RLCheck -------------------------------
(***************************************************************************)
(* What parse_program does to a parsed RL program before either path takes *)
(* it: constants are resolved (resolve.py), names and shapes are checked   *)
(* (typer.py), and the program's size is checked against the machine       *)
(* (__init__.py).  Fixed-point scales are checked in RLScales.             *)
(***************************************************************************)
EXTENDS RLFold

RECURSIVE SubstExpr(_, _), SubstStmt(_, _), ExprOK(_, _), BlockScope(_, _),
          StmtScope(_, _), CallsOf(_, _)

SubstExpr(e, env) ==
  IF e.k = "name" /\ e.id \in DOMAIN env THEN IntLit(env[e.id])
  ELSE [e EXCEPT !.sub = MapSeq(@, LAMBDA x : SubstExpr(x, env))]

SubstStmt(s, env) ==
  [s EXCEPT !.ex = MapSeq(@, LAMBDA e : SubstExpr(e, env)),
            !.blocks = MapSeq(@, LAMBDA b : MapSeq(b, LAMBDA t : SubstStmt(t, env)))]

ConstExpr(e, env) == FoldExpr(SubstExpr(e, env), <<>>)

\* Constants are evaluated in order, each from those before it.
ConstEnv(consts) ==
  FoldLeft(LAMBDA acc, c :
             LET e == ConstExpr(c[2], acc.env)
             IN  IF ~acc.ok \/ c[1] \in DOMAIN acc.env \/ e.k # "lit" THEN [acc EXCEPT !.ok = FALSE]
                 ELSE [acc EXCEPT !.env = (c[1] :> e.v) @@ @],
           [ok |-> TRUE, env |-> <<>>], consts)

\* A binding that would shadow a constant is refused wherever it stands.
BoundNames(p) ==
  ToSet(p.inputs) \cup NamesOf(AllArrays(p)) \cup NamesOf(p.fns)
    \cup UNION {ToSet(p.fns[i].params) : i \in DOMAIN p.fns}
    \cup {s.id : s \in {t \in ToSet(Flatten(p.body \o FlattenSeq(MapSeq(p.fns, LAMBDA f : f.body)))) :
                          t.k \in {"let", "assign", "for"}}}

Resolvable(p) ==
  LET c == ConstEnv(p.consts)
  IN  /\ c.ok
      /\ DOMAIN c.env \cap BoundNames(p) = {}
      /\ \A a \in ToSet(AllArrays(p)) : ConstExpr(a.len, c.env).k = "lit"

\* Only for a resolvable program: constants substituted, lengths concrete.
Resolve(p) ==
  LET env == ConstEnv(p.consts).env
      Block(b) == MapSeq(b, LAMBDA s : SubstStmt(s, env))
      Decl(a) == [a EXCEPT !.len = ConstExpr(@, env).v]
  IN  [p EXCEPT !.consts = <<>>,
                !.inputArray = MapSeq(@, Decl),
                !.arrays = MapSeq(@, Decl),
                !.fns = MapSeq(@, LAMBDA f : [f EXCEPT !.body = Block(@)]),
                !.body = Block(@),
                !.outputs = MapSeq(@, LAMBDA e : SubstExpr(e, env))]

-----------------------------------------------------------------------------
(* typer.check *)

BuiltinArity == [min |-> 2, max |-> 2, abs |-> 1, sel |-> 3, mulfx |-> 3, len |-> 1]

\* A scope: the names in sight, the arity of every function, whether this is a
\* function's body, how deep in loops it is, and whether all was well so far.
Scope(names, arrays, fns, inFn) ==
  [vars |-> names, arrays |-> arrays, fns |-> fns, inFn |-> inFn, loops |-> 0, ok |-> TRUE]

ExprOK(e, sc) ==
  LET SubOK == \A i \in DOMAIN e.sub : ExprOK(e.sub[i], sc)
  IN  CASE e.k = "lit"   -> e.v \in Word
        [] e.k = "name"  -> e.id \in sc.vars
        [] e.k = "index" -> ~sc.inFn /\ e.id \in sc.arrays /\ SubOK
        [] e.k \in {"unary", "binary"} -> SubOK
        [] e.k = "call" /\ e.id \in DOMAIN sc.fns -> Len(e.sub) = sc.fns[e.id] /\ SubOK
        [] e.k = "call" /\ e.id \notin DOMAIN sc.fns ->
             /\ e.id \in DOMAIN BuiltinArity
             /\ Len(e.sub) = BuiltinArity[e.id]
             /\ IF e.id = "len" THEN e.sub[1].k = "name" /\ e.sub[1].id \in sc.arrays ELSE SubOK
             /\ e.id = "mulfx" => e.sub[3].k = "lit" /\ e.sub[3].v \in 0 .. WordBits - 1

\* The scope after a statement: a name is in sight from its `let` to the end of
\* the body, whatever branch or loop the `let` stands in.
BlockScope(stmts, sc) == FoldLeft(LAMBDA acc, s : StmtScope(s, acc), sc, stmts)

StmtScope(s, sc) ==
  LET ExOK  == \A i \in DOMAIN s.ex : ExprOK(s.ex[i], sc)
      Binding == s.k \in {"let", "for"}
      StmtOK ==
        CASE Binding         -> ExOK /\ s.id \notin sc.arrays /\ s.id \notin DOMAIN sc.fns
          [] s.k = "assign"  -> ExOK /\ s.id \in sc.vars
          [] s.k = "store"   -> ExOK /\ ~sc.inFn /\ s.id \in sc.arrays
          [] s.k \in {"if", "while"} -> ExOK
          [] s.k = "return"  -> ExOK /\ sc.inFn
          [] s.k \in {"break", "continue"} -> sc.loops > 0
      looping == IF s.k \in {"while", "for"} THEN 1 ELSE 0
      within == [sc EXCEPT !.ok = @ /\ StmtOK,
                           !.vars = IF Binding THEN @ \cup {s.id} ELSE @,
                           !.loops = @ + looping]
  IN  [FoldLeft(LAMBDA acc, b : BlockScope(b, acc), within, s.blocks) EXCEPT !.loops = sc.loops]

\* The functions f calls, directly or through others.
CallsOf(p, reached) ==
  LET more == reached \cup (NamesOf(p.fns) \cap
                              UNION {CalleesOf(FnNamed(p, f).body) : f \in reached \cap NamesOf(p.fns)})
  IN  IF more = reached THEN reached ELSE CallsOf(p, more)

Recursive(p, f) == f \in CallsOf(p, NamesOf(p.fns) \cap CalleesOf(FnNamed(p, f).body))

FnOK(f, p, arity) ==
  /\ Cardinality(ToSet(f.params)) = Len(f.params)
  /\ f.body # <<>> /\ Last(f.body).k = "return"
  /\ Len(SelectSeq(Flatten(f.body), LAMBDA s : s.k = "return")) = 1
  /\ BlockScope(f.body, Scope(ToSet(f.params), {}, arity, TRUE)).ok
  /\ ~Recursive(p, f.name)

WellTyped(p) ==
  LET fns == NamesOf(p.fns)
      arity == [f \in fns |-> Len(FnNamed(p, f).params)]
      arrays == NamesOf(AllArrays(p))
      main == BlockScope(p.body, Scope(ToSet(p.inputs), arrays, arity, FALSE))
  IN  /\ fns \cap DOMAIN BuiltinArity = {}
      /\ Cardinality(fns) = Len(p.fns)
      /\ \A i \in DOMAIN p.fns : FnOK(p.fns[i], p, arity)
      /\ Cardinality(ToSet(p.inputs)) = Len(p.inputs) /\ ToSet(p.inputs) \cap fns = {}
      /\ Cardinality(arrays) = Len(AllArrays(p))
      /\ NamesOf(p.arrays) \cap (ToSet(p.inputs) \cup fns) = {}
      /\ \A a \in ToSet(AllArrays(p)) : a.len > 0
      /\ main.ok
      /\ \A i \in DOMAIN p.outputs : ExprOK(p.outputs[i], main)
      /\ p.steps = NoSteps \/ p.steps > 0

-----------------------------------------------------------------------------
(* _check_machine_limits *)

SumLengths(arrays) == FoldLeft(LAMBDA n, a : n + a.len, 0, arrays)

LetNames(stmts) == {s.id : s \in {t \in ToSet(Flatten(stmts)) : t.k = "let"}}

WithinMachineLimits(p) ==
  /\ p.arrays # <<>> =>
       Len(p.inputs) + Len(p.outputs) + Cardinality(LetNames(p.body)) + SumLengths(p.arrays) <= MaxMem
  /\ p.steps = NoSteps \/ p.steps \in 1 .. MaxSteps
=============================================================================
