------------------------------- MODULE RLFold -------------------------------
(***************************************************************************)
(* Constant folding (src/obsign_verify/replayc/fold.py), done on the path  *)
(* to the machine only.  What could trap is left for the machine to trap.  *)
(***************************************************************************)
EXTENDS RLMeaning

RECURSIVE FoldExpr(_, _), FoldStmt(_, _)

TrapFree(e) == e.k \in {"lit", "name"}

\* lens gives the length of each array, for len().
FoldExpr(e, lens) ==
  LET sub == MapSeq(e.sub, LAMBDA x : FoldExpr(x, lens))
      lits == MapSeq(sub, LAMBDA x : x.v)
      AllLit == \A i \in DOMAIN sub : sub[i].k = "lit"
      taken == IF sub[1].v # 0 THEN sub[2] ELSE sub[3]
      dropped == IF sub[1].v # 0 THEN sub[3] ELSE sub[2]
  IN  CASE e.k = "call" /\ e.id = "len" ->
             IF e.sub[1].id \in DOMAIN lens THEN IntLit(lens[e.sub[1].id]) ELSE e
        [] e.k = "unary" /\ AllLit -> IntLit(UnaryValue(e.id, lits[1]))
        [] e.k = "binary" /\ AllLit /\ ~Alu2Traps(e.id, lits[2]) ->
             IntLit(Alu2Value(e.id, lits[1], lits[2]))
        [] e.k = "call" /\ e.id \in {"min", "max", "abs", "mulfx"} /\ AllLit ->
             IntLit(BuiltinValue(e.id, lits))
        [] e.k = "call" /\ e.id = "sel" /\ sub[1].k = "lit" /\ TrapFree(dropped) -> taken
        [] OTHER -> [e EXCEPT !.sub = sub]

\* A branch is folded, never removed: a `let` in a dead branch has its cell.
FoldStmt(s, lens) ==
  [s EXCEPT !.ex = MapSeq(@, LAMBDA e : FoldExpr(e, lens)),
            !.blocks = MapSeq(@, LAMBDA b : MapSeq(b, LAMBDA t : FoldStmt(t, lens)))]

LengthOf(p) ==
  [a \in NamesOf(AllArrays(p)) |->
     AllArrays(p)[CHOOSE i \in DOMAIN AllArrays(p) : AllArrays(p)[i].name = a].len]

FoldProgram(p) ==
  [p EXCEPT !.body = MapSeq(@, LAMBDA s : FoldStmt(s, LengthOf(p))),
            !.outputs = MapSeq(@, LAMBDA e : FoldExpr(e, LengthOf(p)))]
=============================================================================
