------------------------------ MODULE RLInterp ------------------------------
(***************************************************************************)
(* The reference interpreter of RL (src/obsign_verify/replayc/interp.py):  *)
(* the checked tree is evaluated as it stands, functions are called in a   *)
(* frame of their own.  None of the compiler's passes is used here.        *)
(*                                                                         *)
(* A frame holds the variables and arrays in sight, the last value, the    *)
(* ticks left, and how control is leaving: "" for onwards, "trap",         *)
(* "exhausted" (the tick budget), or the signals "break", "continue" and   *)
(* "return".                                                               *)
(***************************************************************************)
EXTENDS RLMeaning

CONSTANT Ticks      \* step_budget, the interpreter's own

RECURSIVE Eval(_, _, _), EvalAll(_, _, _), CallFn(_, _, _, _), ExecBlock(_, _, _),
          Exec(_, _, _), ExecOn(_, _, _), ExecWhile(_, _, _), ExecFor(_, _, _, _)

Frame(variables, arrays, ticks) ==
  [vars |-> variables, arrays |-> arrays, sig |-> "", val |-> 0, ticks |-> ticks]

Tick(f) == IF f.sig # "" THEN f
           ELSE IF f.ticks = 0 THEN [f EXCEPT !.sig = "exhausted"]
           ELSE [f EXCEPT !.ticks = @ - 1]

SetVar(f, x, v) == [f EXCEPT !.vars = (x :> v) @@ @]

\* Go on unless control is leaving.
Then(f, K(_)) == IF f.sig # "" THEN f ELSE K(f)

EvalAll(es, f, p) ==
  FoldLeft(LAMBDA acc, e :
             IF acc.f.sig # "" THEN acc
             ELSE With(Eval(e, acc.f, p), LAMBDA g : [f |-> g, vals |-> Append(acc.vals, g.val)]),
           [f |-> f, vals |-> <<>>], es)

\* An operator on values; a call of a function is not one.
Value(e, vals, f) ==
  CASE e.k = "lit"  -> [f EXCEPT !.val = e.v]
    [] e.k = "name" -> [f EXCEPT !.val = IF e.id \in DOMAIN f.vars THEN f.vars[e.id] ELSE 0]
    [] e.k = "index" -> IF vals[1] + 1 \in DOMAIN f.arrays[e.id]
                        THEN [f EXCEPT !.val = f.arrays[e.id][vals[1] + 1]]
                        ELSE [f EXCEPT !.sig = "trap"]
    [] e.k = "unary" -> [f EXCEPT !.val = UnaryValue(e.id, vals[1])]
    [] e.k = "binary" -> IF Alu2Traps(e.id, vals[2]) THEN [f EXCEPT !.sig = "trap"]
                         ELSE [f EXCEPT !.val = Alu2Value(e.id, vals[1], vals[2])]
    [] e.k = "call" -> [f EXCEPT !.val = IF e.id = "len" THEN Len(f.arrays[e.sub[1].id])
                                         ELSE BuiltinValue(e.id, vals)]

\* A scalar not assigned on this path reads 0; len's operand is not evaluated.
Eval(e, f, p) ==
  With(EvalAll(IF e.k = "call" /\ e.id = "len" THEN <<>> ELSE e.sub, f, p),
       LAMBDA r : Then(r.f, LAMBDA g :
                    IF e.k = "call" /\ e.id \in NamesOf(p.fns)
                    THEN CallFn(FnNamed(p, e.id), r.vals, g, p)
                    ELSE Value(e, r.vals, g)))

CallFn(fn, args, f, p) ==
  LET params == [x \in ToSet(fn.params) |-> args[CHOOSE i \in DOMAIN args : fn.params[i] = x]]
  IN  With(ExecBlock(fn.body, Frame(params, <<>>, f.ticks), p),
           LAMBDA g : [f EXCEPT !.val = g.val, !.ticks = g.ticks,
                                !.sig = IF g.sig = "return" THEN "" ELSE g.sig])

ExecBlock(stmts, f, p) ==
  FoldLeft(LAMBDA g, s : Then(g, LAMBDA h : Exec(s, h, p)), f, stmts)

Exec(s, f0, p) ==
  Then(Tick(f0), LAMBDA f :
    CASE s.k = "while" -> ExecWhile(s, f, p)
      [] s.k \in {"break", "continue"} -> [f EXCEPT !.sig = s.k]
      [] OTHER -> Then(Eval(s.ex[1], f, p), LAMBDA x : ExecOn(s, x, p)))

\* The rest of a statement, once its first expression has been evaluated.
ExecOn(s, x, p) ==
  CASE s.k \in {"let", "assign"} -> SetVar(x, s.id, x.val)
    [] s.k = "return" -> [x EXCEPT !.sig = "return"]
    [] s.k = "if" -> ExecBlock(s.blocks[IF x.val # 0 THEN 1 ELSE 2], x, p)
    [] s.k = "store" /\ x.val + 1 \notin DOMAIN x.arrays[s.id] -> [x EXCEPT !.sig = "trap"]
    [] OTHER -> Then(Eval(s.ex[2], x, p), LAMBDA y :
                  IF s.k = "for" THEN ExecFor(s, y.val, SetVar(y, s.id, x.val), p)
                  ELSE [y EXCEPT !.arrays = [@ EXCEPT ![s.id] = [@ EXCEPT ![x.val + 1] = y.val]]])

\* One turn of a loop, and Again from its end unless control left the loop.
Turn(s, f, p, Again(_)) ==
  With(ExecBlock(s.blocks[1], Tick(f), p),
       LAMBDA b : CASE b.sig = "break" -> [b EXCEPT !.sig = ""]
                    [] b.sig \in {"", "continue"} -> Again([b EXCEPT !.sig = ""])
                    [] OTHER -> b)

ExecWhile(s, f, p) ==
  Then(Eval(s.ex[1], f, p),
       LAMBDA c : IF c.val = 0 THEN c ELSE Turn(s, c, p, LAMBDA b : ExecWhile(s, b, p)))

\* The upper bound was evaluated once; the variable is read again every time.
ExecFor(s, hi, f, p) ==
  IF f.vars[s.id] >= hi THEN f
  ELSE Turn(s, f, p, LAMBDA b : ExecFor(s, hi, SetVar(b, s.id, Wrap(b.vars[s.id] + 1)), p))

\* interpret: the outputs, or how the run was refused.
Interpret(p, inputs) ==
  LET window == p.inputArray # <<>>
      expected == IF window THEN p.inputArray[1].len ELSE Len(p.inputs)
      variables == IF window THEN <<>>
                   ELSE [x \in ToSet(p.inputs) |-> inputs[CHOOSE i \in DOMAIN inputs : p.inputs[i] = x]]
      given == IF window THEN p.inputArray[1].name :> inputs ELSE <<>>
      arrays == given @@ [a \in NamesOf(p.arrays) |->
                            [i \in 1 .. p.arrays[CHOOSE j \in DOMAIN p.arrays : p.arrays[j].name = a].len |-> 0]]
      end == EvalAll(p.outputs, ExecBlock(p.body, Frame(variables, arrays, Ticks), p), p)
      acceptable == /\ Len(inputs) = expected
                    /\ \A i \in DOMAIN inputs : inputs[i] \in Int /\ inputs[i] \in Word
  IN  IF ~acceptable THEN [sig |-> "trap", vals |-> <<>>]
      ELSE [sig |-> end.f.sig, vals |-> end.vals]
=============================================================================
