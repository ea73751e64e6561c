----------------------------- MODULE RLGrammar -----------------------------
(***************************************************************************)
(* The grammar of RL as the documentation of its parser gives it           *)
(* (src/obsign_verify/replayc/frontend.py:8-31): what a text may mean,     *)
(* said without a parser, and how a tree is written.                       *)
(***************************************************************************)
EXTENDS RLParser

RECURSIVE Derived(_, _, _), DerivedLists(_, _), SpellExpr(_, _), SpellStmt(_)

Before(ts, j) == SubSeq(ts, 1, j - 1)
Behind(ts, j) == SubSeq(ts, j + 1, Len(ts))
Inside(ts, j) == SubSeq(ts, j + 1, Len(ts) - 1)
Where(ts, texts) == {j \in DOMAIN ts : ts[j].text \in texts}
Closes(ts, j, open, close) == Len(ts) > j /\ ts[j].text = open /\ Last(ts).text = close

\* The trees the tokens ts have as an expression of tier k, in a place that
\* leaves room for d more levels of nesting.
Derived(ts, k, d) ==
  IF ts = <<>> THEN {}
  ELSE IF k <= Len(Tiers) THEN
    Derived(ts, k + 1, d) \cup
    UNION {{Bin(Tiers[k][ts[j].text], l, r) : l \in Derived(Before(ts, j), k, d), r \in Derived(Behind(ts, j), k + 1, d)}
             : j \in Where(ts, DOMAIN Tiers[k])}
  ELSE
    (IF Len(ts) # 1 THEN {}
     ELSE IF ts[1].kind = "int" THEN {IntLit(ts[1].v)}
     ELSE IF ts[1].kind = "ident" THEN {Name(ts[1].text)} ELSE {})
    \cup
    (IF d = 0 THEN {}
     ELSE IF ts[1].text \in DOMAIN UnaryOps THEN {Un(UnaryOps[ts[1].text], e) : e \in Derived(Tail(ts), k, d - 1)}
     ELSE IF Closes(ts, 1, "(", ")") THEN Derived(Inside(ts, 1), 1, d - 1)
     ELSE IF ts[1].kind = "ident" /\ Closes(ts, 2, "[", "]") THEN {Index(ts[1].text, e) : e \in Derived(Inside(ts, 2), 1, d - 1)}
     ELSE IF ts[1].kind \in {"ident", "builtin"} /\ Closes(ts, 2, "(", ")")
     THEN {CallTo(ts[1].text, es) : es \in DerivedLists(Inside(ts, 2), d - 1)}
     ELSE {})
    \cup
    (IF ts[1].kind = "ident" /\ Len(ts) = 3 /\ Closes(ts, 2, "(", ")") THEN {CallTo(ts[1].text, <<>>)} ELSE {})

DerivedLists(ts, d) ==
  {<<e>> : e \in Derived(ts, 1, d)} \cup
  UNION {{<<e>> \o es : e \in Derived(Before(ts, j), 1, d), es \in DerivedLists(Behind(ts, j), d)} : j \in Where(ts, {","})}

\* The lists of expressions a text may be, within the bound on nesting.
Meanings(ts) == {es \in DerivedLists(ts, MaxExprDepth - 1) : \A e \in ToSet(es) : Height(e) <= MaxExprDepth}

-----------------------------------------------------------------------------
(* Spelling, with no more parentheses than needed. *)

Join(parts, sep) ==
  FlattenSeq([j \in DOMAIN parts |-> IF j = 1 THEN parts[j] ELSE <<Tok(sep)>> \o parts[j]])

Toks(texts) == MapSeq(texts, Tok)
Scaled_(x, scale) == <<Tok(x)>> \o IF scale = Poly THEN <<>> ELSE <<Tok(":"), Fx(scale)>>

TierOf(opcode) == CHOOSE k \in DOMAIN Tiers : opcode \in Range(Tiers[k])
Spelling(table, opcode) == CHOOSE t \in DOMAIN table : table[t] = opcode

SpellExpr(e, k) ==
  CASE e.k = "lit"    -> <<Number(e.v)>>
    [] e.k = "name"   -> <<Tok(e.id)>>
    [] e.k = "index"  -> Toks(<<e.id, "[">>) \o SpellExpr(e.sub[1], 1) \o Toks(<<"]">>)
    [] e.k = "call"   -> Toks(<<e.id, "(">>) \o Join(MapSeq(e.sub, LAMBDA x : SpellExpr(x, 1)), ",") \o Toks(<<")">>)
    [] e.k = "unary"  -> <<Tok(Spelling(UnaryOps, e.id))>> \o SpellExpr(e.sub[1], Len(Tiers) + 1)
    [] e.k = "binary" ->
         LET t == TierOf(e.id)
             bare == SpellExpr(e.sub[1], t) \o <<Tok(Spelling(Tiers[t], e.id))>> \o SpellExpr(e.sub[2], t + 1)
         IN  IF t < k THEN Toks(<<"(">>) \o bare \o Toks(<<")">>) ELSE bare

SpellBlock(b) == Toks(<<"{">>) \o FlattenSeq(MapSeq(b, SpellStmt)) \o Toks(<<"}">>)

SpellStmt(s) ==
  LET ex == MapSeq(s.ex, LAMBDA e : SpellExpr(e, 1))
      end == Toks(<<";">>)
  IN  CASE s.k = "let"    -> Toks(<<"let">>) \o Scaled_(s.id, s.scale) \o Toks(<<"=">>) \o ex[1] \o end
        [] s.k = "assign" -> Toks(<<s.id, "=">>) \o ex[1] \o end
        [] s.k = "store"  -> Toks(<<s.id, "[">>) \o ex[1] \o Toks(<<"]", "=">>) \o ex[2] \o end
        [] s.k = "if"     -> Toks(<<"if">>) \o ex[1] \o SpellBlock(s.blocks[1])
                               \o IF s.blocks[2] = <<>> THEN <<>> ELSE Toks(<<"else">>) \o SpellBlock(s.blocks[2])
        [] s.k = "while"  -> Toks(<<"while">>) \o ex[1] \o SpellBlock(s.blocks[1])
        [] s.k = "for"    -> Toks(<<"for", s.id, "in">>) \o ex[1] \o Toks(<<"..">>) \o ex[2] \o SpellBlock(s.blocks[1])
        [] s.k = "return" -> Toks(<<"return">>) \o ex[1] \o end
        [] OTHER          -> Toks(<<s.k>>) \o end

SpellArray(word, a) ==
  Toks(<<word, a.name, "[">>) \o SpellExpr(a.len, 1) \o <<Tok("]")>> \o Tail(Scaled_(a.name, a.scale)) \o <<Tok(";")>>

SpellNames(names, scales) == Join([j \in DOMAIN names |-> Scaled_(names[j], scales[j])], ",")

SpellFn(f) == Toks(<<"fn", f.name, "(">>) \o SpellNames(f.params, f.scales) \o Toks(<<")">>) \o SpellBlock(f.body)

SpellProgram(p) ==
  (IF p.steps = NoSteps THEN <<>> ELSE <<Tok("#steps"), Number(p.steps)>>)
  \o (IF p.inputs = <<>> THEN <<>> ELSE Toks(<<"input">>) \o SpellNames(p.inputs, p.scales) \o Toks(<<";">>))
  \o FlattenSeq(MapSeq(p.inputArray, LAMBDA a : SpellArray("input", a)))
  \o FlattenSeq(MapSeq(p.arrays, LAMBDA a : SpellArray("arr", a)))
  \o FlattenSeq(MapSeq(p.consts, LAMBDA c : Toks(<<"const", c[1], "=">>) \o SpellExpr(c[2], 1) \o Toks(<<";">>)))
  \o FlattenSeq(MapSeq(p.fns, SpellFn))
  \o FlattenSeq(MapSeq(p.body, SpellStmt))
  \o Toks(<<"output">>) \o Join(MapSeq(p.outputs, LAMBDA e : SpellExpr(e, 1)), ",") \o Toks(<<";">>)
=============================================================================
