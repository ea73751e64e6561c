------------------------------ MODULE RLInline ------------------------------
(***************************************************************************)
(* The inliner (src/obsign_verify/replayc/inline.py).  The machine has no  *)
(* call stack, so every call becomes the callee's body, spliced in front   *)
(* of the statement with its names made fresh.  n counts the fresh names   *)
(* made so far; flat maps a function to itself with its own calls gone.    *)
(***************************************************************************)
EXTENDS RLSyntax

RECURSIVE Visit(_, _, _), RenameExpr(_, _), RenameStmt(_, _), RwExpr(_, _, _),
          RwExprs(_, _, _), RwStmt(_, _, _), RwBlock(_, _, _), RwBlocks(_, _, _)

Fresh(n, x) == "__inl" \o ToString(n + 1) \o "_" \o x

\* Callees first.  The code visits the callees of one function by name, here
\* in the order of declaration: only the numbers in fresh names differ.
Visit(order, fn, p) ==
  IF Contains(order, fn) THEN order
  ELSE Append(FoldLeft(LAMBDA acc, g : Visit(acc, g, p), order,
                       SelectSeq(p.fns, LAMBDA g : g.name \in CalleesOf(fn.body))), fn)

CalleesFirst(p) == FoldLeft(LAMBDA acc, fn : Visit(acc, fn, p), <<>>, p.fns)

RenameExpr(e, m) ==
  [e EXCEPT !.id = IF e.k = "name" /\ @ \in DOMAIN m THEN m[@] ELSE @,
            !.sub = MapSeq(@, LAMBDA x : RenameExpr(x, m))]

RenameStmt(s, m) ==
  [s EXCEPT !.id = IF s.k \in {"let", "assign", "for"} /\ @ \in DOMAIN m THEN m[@] ELSE @,
            !.ex = MapSeq(@, LAMBDA e : RenameExpr(e, m)),
            !.blocks = MapSeq(@, LAMBDA b : MapSeq(b, LAMBDA t : RenameStmt(t, m)))]

\* A name already renamed (a parameter bound again by a `let`) keeps its fresh
\* name, and still uses up a number.
Renaming(names, n) ==
  FoldLeft(LAMBDA acc, x :
             [m |-> IF x \in DOMAIN acc.m THEN acc.m ELSE (x :> Fresh(acc.n, x)) @@ acc.m,
              n |-> acc.n + 1],
           [m |-> <<>>, n |-> n], names)

\* The arguments once each into fresh lets, the body, the result into another.
Splice(fn, args, pre, n) ==
  With(Renaming(fn.params \o Binders(fn.body), n), LAMBDA r :
  With(Fresh(r.n, "ret"), LAMBDA ret :
    [pre |-> pre \o [i \in DOMAIN args |-> Let(r.m[fn.params[i]], args[i])]
                 \o MapSeq(Front(fn.body), LAMBDA s : RenameStmt(s, r.m))
                 \o <<Let(ret, RenameExpr(Last(fn.body).ex[1], r.m))>>,
     e |-> Name(ret), n |-> r.n + 1]))

\* An expression without its calls, and the statements hoisted out of it.
RwExprs(es, n, flat) ==
  FoldLeft(LAMBDA acc, e : With(RwExpr(e, acc.n, flat), LAMBDA r :
             [pre |-> acc.pre \o r.pre, es |-> Append(acc.es, r.e), n |-> r.n]),
           [pre |-> <<>>, es |-> <<>>, n |-> n], es)

RwExpr(e, n, flat) ==
  With(RwExprs(e.sub, n, flat), LAMBDA r :
    IF e.k = "call" /\ e.id \in DOMAIN flat THEN Splice(flat[e.id], r.es, r.pre, r.n)
    ELSE [pre |-> r.pre, e |-> [e EXCEPT !.sub = r.es], n |-> r.n])

RwBlock(stmts, n, flat) ==
  FoldLeft(LAMBDA acc, s : With(RwStmt(s, acc.n, flat), LAMBDA r :
             [out |-> acc.out \o r.out, n |-> r.n]),
           [out |-> <<>>, n |-> n], stmts)

RwBlocks(blocks, n, flat) ==
  FoldLeft(LAMBDA acc, b : With(RwBlock(b, acc.n, flat), LAMBDA w :
             [blocks |-> Append(acc.blocks, w.out), n |-> w.n]),
           [blocks |-> <<>>, n |-> n], blocks)

\* Hoisted work runs once before its statement, except that of a while
\* condition, which runs again every time round.
RwStmt(s, n, flat) ==
  With(RwExprs(s.ex, n, flat), LAMBDA r :
  With(RwBlocks(s.blocks, r.n, flat), LAMBDA bs :
    [n |-> bs.n,
     out |-> IF s.k = "while" /\ r.pre # <<>>
             THEN <<While(IntLit(1), r.pre \o <<If(r.es[1], <<>>, <<Break>>)>> \o bs.blocks[1])>>
             ELSE Append(r.pre, [s EXCEPT !.ex = r.es, !.blocks = bs.blocks])]))

FlatFunctions(p) ==
  FoldLeft(LAMBDA acc, fn : With(RwBlock(fn.body, acc.n, acc.flat), LAMBDA r :
             [n |-> r.n, flat |-> (fn.name :> [fn EXCEPT !.body = r.out]) @@ acc.flat]),
           [n |-> 0, flat |-> <<>>], CalleesFirst(p))

\* What the outputs hoist runs after the body, where they are evaluated.
InlineProgram(p) ==
  IF p.fns = <<>> THEN p
  ELSE With(FlatFunctions(p), LAMBDA fs :
       With(RwBlock(p.body, fs.n, fs.flat), LAMBDA body :
       With(RwExprs(p.outputs, body.n, fs.flat), LAMBDA outs :
         [p EXCEPT !.body = body.out \o outs.pre, !.outputs = outs.es, !.fns = <<>>])))
=============================================================================
