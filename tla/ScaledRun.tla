----------------------------- MODULE ScaledRun -----------------------------
(***************************************************************************)
(* What scale checking promises of a run (src/obsign_verify/replayc/       *)
(* scales.py): an RL program is executed with the scale of every value in  *)
(* place of the value.  Branches go either way, a loop turns up to Turns   *)
(* times, an element of an array may be the one any store wrote.  A number *)
(* the author wrote has no scale until it meets one (Poly); a declared     *)
(* scale is taken at its word.                                             *)
(***************************************************************************)
EXTENDS RLScales

CONSTANT Turns

RECURSIVE Tags(_, _, _), After(_, _, _), Runs(_, _, _), Loop(_, _, _, _)

\* The scales a call may return, the arguments having those of ss.
Results(fn, ss, p) ==
  LET got == [i \in DOMAIN ss |-> Unify(fn.scales[i], ss[i])]
      start == Known([x \in ToSet(fn.params) |-> got[CHOOSE i \in DOMAIN got : fn.params[i] = x]], <<>>)
  IN  IF Mismatch \in ToSet(got) THEN {Mismatch}
      ELSE UNION {IF t.ok THEN Tags(Last(fn.body).ex[1], t, p) ELSE {Mismatch} :
                    t \in Runs(Front(fn.body), {start}, p)}

\* The scales the value of e may have.
Tags(e, t, p) ==
  LET each == MapSeq(e.sub, LAMBDA x : Tags(x, t, p))
      choices == {ss \in [DOMAIN each -> UNION ToSet(each)] : \A i \in DOMAIN each : ss[i] \in each[i]}
  IN  CASE e.k = "lit"   -> {Poly}
        [] e.k = "name"  -> {IF e.id \in DOMAIN t.vars THEN t.vars[e.id] ELSE Poly}
        [] e.k = "index" -> IF \A s \in each[1] : PlainInt(s) THEN t.arrays[e.id] ELSE {Mismatch}
        [] e.k = "call" /\ e.id \in NamesOf(p.fns) -> UNION {Results(FnNamed(p, e.id), ss, p) : ss \in choices}
        [] OTHER -> {RuleOf(e, ss) : ss \in choices}

\* An assignment overwrites; it has nothing to compare with.
Overwritten(t, x, s) == Keep(t, "scalar", x, IF s = Poly /\ x \in DOMAIN t.vars THEN t.vars[x] ELSE s)

Loop(s, ts, turns, p) ==
  LET tested == {Require(t, \A c \in Tags(s.ex[1], t, p) : s.k = "for" \/ PlainInt(c)) : t \in ts}
  IN  tested \cup IF turns = 0 THEN {} ELSE Loop(s, Runs(s.blocks[1], tested, p), turns - 1, p)

\* Where one statement may lead.
After(s, t, p) ==
  LET one == Tags(s.ex[1], t, p)
      two == Tags(s.ex[2], t, p)
      Whole(ss) == \A c \in ss : PlainInt(c)
  IN  CASE ~t.ok -> {t}
        [] s.k = "let"    -> {Keep(t, "scalar", s.id, Unify(s.scale, c)) : c \in one}
        [] s.k = "assign" -> {Overwritten(t, s.id, c) : c \in one}
        [] s.k = "store"  -> {[Require(t, Whole(one) /\ c # Mismatch) EXCEPT !.arrays[s.id] = @ \cup {c}] : c \in two}
        [] s.k = "if"     -> UNION {Runs(b, {Require(t, Whole(one))}, p) : b \in ToSet(s.blocks)}
        [] s.k = "while"  -> Loop(s, {t}, Turns, p)
        [] s.k = "for"    -> Loop(s, {Keep(Require(t, Whole(one \cup two)), "scalar", s.id, 0)}, Turns, p)
        [] s.k = "return" -> {Require(t, Mismatch \notin one)}

Runs(stmts, ts, p) == FoldLeft(LAMBDA acc, s : UNION {After(s, t, p) : t \in acc}, ts, stmts)

\* Where a run of the program may end.
Ends(p) ==
  Runs(p.body \o MapSeq(p.outputs, Return),
       {[InputScales(p) EXCEPT !.arrays = [a \in DOMAIN @ |-> {@[a]}]]}, p)

\* Everything is declared, and nothing twice: "annotate the binding to pin it"
\* (scales.py:36).
Pinned(p) ==
  LET blocks == <<p.body>> \o MapSeq(p.fns, LAMBDA f : f.body)
      lets(b) == SelectSeq(Flatten(b), LAMBDA s : s.k = "let")
      bound(b) == SelectSeq(Flatten(b), LAMBDA s : s.k \in {"let", "for"})
  IN  /\ Poly \notin ToSet(p.scales)
      /\ \A a \in ToSet(AllArrays(p)) : a.scale # Poly
      /\ \A f \in ToSet(p.fns) : Poly \notin ToSet(f.scales)
      /\ \A b \in ToSet(blocks) : /\ \A s \in ToSet(lets(b)) : s.scale # Poly
                                  /\ Len(Binders(b)) = Len(bound(b))
=============================================================================
