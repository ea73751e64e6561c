------------------------------ MODULE RLScales ------------------------------
(***************************************************************************)
(* Fixed-point scale checking (src/obsign_verify/replayc/scales.py).  A    *)
(* scale is a number of fractional bits or Poly, "unknown"; Mismatch is a  *)
(* ScaleError, which ends the check and so absorbs everything after it.    *)
(***************************************************************************)
EXTENDS RLSyntax

Mismatch == 0 - 2
MaxScale == 63

RECURSIVE ScaleOf(_, _, _), Signature(_, _), CheckStmt(_, _, _), CheckBlock(_, _, _)

Unify(a, b) == IF Mismatch \in {a, b} THEN Mismatch
               ELSE IF a = Poly THEN b
               ELSE IF b = Poly \/ a = b THEN a ELSE Mismatch

PlainInt(s) == s \in {Poly, 0}

ProductScale(l, r) == IF PlainInt(l) THEN r ELSE IF PlainInt(r) THEN l ELSE Mismatch

QuotientScale(l, r) == IF PlainInt(r) THEN l
                       ELSE IF l = Poly THEN Poly
                       ELSE IF l = r THEN 0 ELSE Mismatch

BitScale(l, r) == IF ~PlainInt(l) \/ ~PlainInt(r) THEN Mismatch
                  ELSE IF 0 \in {l, r} THEN 0 ELSE Poly

FixedProduct(l, r, frac) == IF Poly \in {l, r} THEN Poly
                            ELSE IF l + r - frac \in 0 .. MaxScale THEN l + r - frac ELSE Mismatch

\* The scale of an operation from those of its operands.
RuleOf(e, ss) ==
  LET op == e.id
  IN  CASE Mismatch \in ToSet(ss) -> Mismatch
        [] op \in {"ADD", "SUB", "MOD", "min", "max"} -> Unify(ss[1], ss[2])
        [] op \in {"EQ", "NE", "LT", "LE", "GT", "GE"} ->
             IF Unify(ss[1], ss[2]) = Mismatch THEN Mismatch ELSE 0
        [] op = "MUL" -> ProductScale(ss[1], ss[2])
        [] op = "DIV" -> QuotientScale(ss[1], ss[2])
        [] op \in {"SHL", "SHR", "AND", "OR", "XOR"} -> BitScale(ss[1], ss[2])
        [] op \in {"neg", "abs"} -> ss[1]
        [] op = "not" -> IF PlainInt(ss[1]) THEN ss[1] ELSE Mismatch
        [] op = "sel" -> IF PlainInt(ss[1]) THEN Unify(ss[2], ss[3]) ELSE Mismatch
        [] op = "mulfx" -> FixedProduct(ss[1], ss[2], e.sub[3].v)
        [] op = "len" -> 0

\* What the checker knows: a scale for every scalar and array in sight, and
\* whether there was a ScaleError.
Known(variables, arrays) == [vars |-> variables, arrays |-> arrays, ok |-> TRUE]

Keep(c, what, x, s) ==
  IF s = Mismatch THEN [c EXCEPT !.ok = FALSE]
  ELSE IF what = "array" THEN [c EXCEPT !.arrays = (x :> s) @@ @]
  ELSE [c EXCEPT !.vars = (x :> s) @@ @]

Require(c, holds) == [c EXCEPT !.ok = @ /\ holds]

\* A function's result, with its parameters at the scales they declare.
Signature(fn, p) ==
  LET start == Known([x \in ToSet(fn.params) |-> fn.scales[CHOOSE i \in DOMAIN fn.params : fn.params[i] = x]], <<>>)
      end == CheckBlock(Front(fn.body), start, p)
  IN  IF end.ok THEN ScaleOf(Last(fn.body).ex[1], end, p) ELSE Mismatch

ScaleOf(e, c, p) ==
  LET ss == MapSeq(e.sub, LAMBDA x : ScaleOf(x, c, p))
      fn == FnNamed(p, e.id)
  IN  CASE e.k = "lit"  -> Poly
        [] e.k = "name" -> IF e.id \in DOMAIN c.vars THEN c.vars[e.id] ELSE Poly
        [] e.k = "index" -> IF ~PlainInt(ss[1]) THEN Mismatch ELSE c.arrays[e.id]
        [] e.k = "call" /\ e.id \in NamesOf(p.fns) ->
             IF \E i \in DOMAIN ss : Unify(fn.scales[i], ss[i]) = Mismatch THEN Mismatch
             ELSE Signature(fn, p)
        [] OTHER -> RuleOf(e, ss)

\* Mutant: an annotated `let` takes the scale of its value without comparing.
CheckStmtTrustsLet(s, c, p) ==
  LET one == ScaleOf(s.ex[1], c, p)
  IN  CASE s.k = "let" -> Keep(c, "scalar", s.id, IF s.scale = Poly THEN one ELSE s.scale)
        [] s.k = "assign" -> Keep(c, "scalar", s.id, Unify(c.vars[s.id], one))
        [] OTHER -> FoldLeft(LAMBDA acc, b : CheckBlock(b, acc, p), c, s.blocks)

\* A scalar no one annotated takes the scale of its first concrete use, in the
\* order of the text, whatever branch or loop the use stands in.
CheckStmt(s, c, p) ==
  LET one == ScaleOf(s.ex[1], c, p)
      two == ScaleOf(s.ex[2], c, p)
      Blocks(d) == FoldLeft(LAMBDA acc, b : CheckBlock(b, acc, p), d, s.blocks)
  IN  CASE ~c.ok -> c
        [] s.k = "let"    -> Keep(c, "scalar", s.id, Unify(s.scale, one))
        [] s.k = "assign" -> Keep(c, "scalar", s.id, Unify(c.vars[s.id], one))
        [] s.k = "store"  -> Keep(Require(c, PlainInt(one)), "array", s.id, Unify(c.arrays[s.id], two))
        [] s.k \in {"if", "while"} -> Blocks(Require(c, PlainInt(one)))
        [] s.k = "for" -> Blocks(Keep(Require(c, PlainInt(one) /\ PlainInt(two)), "scalar", s.id, 0))
        [] s.k = "return" -> Require(c, one # Mismatch)
        [] s.k \in {"break", "continue"} -> c

CheckBlock(stmts, c, p) == FoldLeft(LAMBDA acc, s : CheckStmt(s, acc, p), c, stmts)

Annotated(p) ==
  \/ \E n \in ToSet(p.scales) : n # Poly
  \/ \E a \in ToSet(AllArrays(p)) : a.scale # Poly
  \/ \E fn \in ToSet(p.fns) : \E n \in ToSet(fn.scales) : n # Poly
  \/ \E s \in ToSet(Flatten(p.body \o FlattenSeq(MapSeq(p.fns, LAMBDA f : f.body)))) :
       s.k = "let" /\ s.scale # Poly

InputScales(p) ==
  Known([x \in ToSet(p.inputs) |-> p.scales[CHOOSE i \in DOMAIN p.inputs : p.inputs[i] = x]],
        [a \in NamesOf(AllArrays(p)) |->
           AllArrays(p)[CHOOSE i \in DOMAIN AllArrays(p) : AllArrays(p)[i].name = a].scale])

\* A program no one annotated passes.
ScalesAgree(p) ==
  Annotated(p) =>
    LET end == CheckBlock(p.body, InputScales(p), p)
    IN  /\ \A fn \in ToSet(p.fns) : Signature(fn, p) # Mismatch
        /\ end.ok
        /\ \A i \in DOMAIN p.outputs : ScaleOf(p.outputs[i], end, p) # Mismatch
=============================================================================
