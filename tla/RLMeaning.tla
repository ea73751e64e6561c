----------------------------- MODULE RLMeaning -----------------------------
(***************************************************************************)
(* The meaning of RL's operators.  The folder, the interpreter and the     *)
(* machine spell out the same arithmetic each for itself; a binary         *)
(* operator is named after its opcode, so it is the machine's Alu2Value.   *)
(***************************************************************************)
EXTENDS ReplayMachine, RLSyntax

UnaryValue(op, x) == Alu1Value(IF op = "neg" THEN "NEG" ELSE "NOT", x)

\* The builtins that are one machine operation.
BuiltinValue(fn, a) ==
  CASE fn = "min" -> Alu2Value("MIN", a[1], a[2])
    [] fn = "max" -> Alu2Value("MAX", a[1], a[2])
    [] fn = "abs" -> Alu1Value("ABS", a[1])
    [] fn = "sel" -> IF a[1] # 0 THEN a[2] ELSE a[3]
    [] fn = "mulfx" -> MulFx(a[1], a[2], a[3])
=============================================================================
