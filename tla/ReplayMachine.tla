--------------------------- MODULE ReplayMachine ---------------------------
(***************************************************************************)
(* The replay virtual machine of src/obsign_verify/replay.py: one call of  *)
(* run_counted(prog, inputs, step_cap).  The program is data that came in  *)
(* with a receipt, so nothing is assumed of it: validate() refuses it or   *)
(* it is executed, one action per kind of instruction.                     *)
(*                                                                         *)
(* The machine word is WordBits wide (64 in the code) and Half is          *)
(* 2^(WordBits-1), so a small instance overflows as easily as the real     *)
(* one.  Addresses, constants and jump targets are counted from 0 as in    *)
(* the code; an instruction is [op |-> name, args |-> sequence].           *)
(***************************************************************************)
EXTENDS Integers, Sequences

CONSTANTS
  WordBits,       \* bits of a machine word
  Half,           \* 2^(WordBits-1)
  MaxMem,         \* replay.MAX_MEM
  MaxSteps,       \* replay.MAX_STEPS
  MaxCode,        \* replay.MAX_CODE
  BitAnd(_, _),   \* Python's &, | and ^ on integers
  BitOr(_, _),
  BitXor(_, _),
  NotInt,         \* a JSON value that is not an integer (true, 1.5, "x")
  NoCap,          \* step_cap=None
  Calls           \* the calls made: records with prog, inputs and cap

\* The last conjunct only says what powers of two are.
ASSUME WordAssumption ==
  /\ WordBits \in Nat \ {0, 1}
  /\ Half \in Nat \ {0, 1}
  /\ Half = 2^(WordBits - 1)
  /\ \A b \in 0 .. WordBits - 1 : 2^b \in 1 .. Half

ASSUME LimitAssumption ==
  /\ MaxMem \in Nat \ {0} /\ MaxSteps \in Nat \ {0} /\ MaxCode \in Nat \ {0}
  /\ NotInt \notin Int
  /\ NoCap \notin Nat

Modulus == 2 * Half
Word == -Half .. Half - 1

\* A call as it reaches run_counted: decoded JSON of the right outline, with
\* nothing known of the numbers in it.
JsonValue == Int \cup {NotInt}
JsonWindow == [offset : JsonValue, length : JsonValue]
JsonProgram ==
  [mem : JsonValue, steps : JsonValue, consts : Seq(JsonValue),
   input : JsonWindow, output : JsonWindow,
   code : Seq([op : STRING, args : Seq(JsonValue)])]

ASSUME CallAssumption ==
  Calls \subseteq [prog : JsonProgram, inputs : Seq(JsonValue), cap : Nat \cup {NoCap}]

ASSUME BitsAssumption ==
  \A a, b \in Word : /\ BitAnd(a, b) \in Int
                     /\ BitOr(a, b) \in Int
                     /\ BitXor(a, b) \in Int

-----------------------------------------------------------------------------
(* Arithmetic. *)

\* Mutant: the sign bit is forgotten.
WrapUnsigned(v) == v % Modulus

Wrap(v) == LET u == v % Modulus
           IN  IF u >= Half THEN u - Modulus ELSE u

Abs(a) == IF a < 0 THEN -a ELSE a

\* Only called with b # 0: the callers trap first.
TruncDiv(a, b) == LET q == Abs(a) \div Abs(b)
                  IN  IF (a < 0) # (b < 0) THEN -q ELSE q

-----------------------------------------------------------------------------
(* The table of opcodes. *)

Alu2 == {"ADD", "SUB", "MUL", "DIV", "MOD", "MIN", "MAX", "AND", "OR", "XOR",
         "SHL", "SHR", "EQ", "NE", "LT", "LE", "GT", "GE"}
Alu1 == {"MOV", "NEG", "ABS", "NOT"}
Jcc == {"JMPZ", "JMPNZ"}

Ops == Alu2 \cup Alu1 \cup Jcc
         \cup {"LOADC", "LOAD", "STORE", "JMP", "SEL", "MULFX", "HALT"}

Arity(op) == CASE op \in Alu2 -> 3
               [] op \in Alu1 \cup Jcc \cup {"LOADC", "LOAD", "STORE"} -> 2
               [] op \in {"SEL", "MULFX"} -> 4
               [] op = "JMP" -> 1
               [] op = "HALT" -> 0

IsTrue(c) == IF c THEN 1 ELSE 0

Alu1Value(op, a) == CASE op = "MOV" -> a
                      [] op = "NEG" -> Wrap(-a)
                      [] op = "ABS" -> Wrap(Abs(a))
                      [] op = "NOT" -> Wrap(-a - 1)

Alu2Traps(op, b) == \/ op \in {"DIV", "MOD"} /\ b = 0
                    \/ op \in {"SHL", "SHR"} /\ b \notin 0 .. WordBits - 1

Alu2Value(op, a, b) ==
  CASE op = "ADD" -> Wrap(a + b)
    [] op = "SUB" -> Wrap(a - b)
    [] op = "MUL" -> Wrap(a * b)
    [] op = "DIV" -> Wrap(TruncDiv(a, b))
    [] op = "MOD" -> Wrap(a - TruncDiv(a, b) * b)
    [] op = "MIN" -> IF a < b THEN a ELSE b
    [] op = "MAX" -> IF a > b THEN a ELSE b
    [] op = "AND" -> Wrap(BitAnd(a, b))
    [] op = "OR"  -> Wrap(BitOr(a, b))
    [] op = "XOR" -> Wrap(BitXor(a, b))
    [] op = "SHL" -> Wrap(a * 2^b)
    [] op = "SHR" -> Wrap(a \div 2^b)
    [] op = "EQ"  -> IsTrue(a = b)
    [] op = "NE"  -> IsTrue(a # b)
    [] op = "LT"  -> IsTrue(a < b)
    [] op = "LE"  -> IsTrue(a <= b)
    [] op = "GT"  -> IsTrue(a > b)
    [] op = "GE"  -> IsTrue(a >= b)

\* Mutant: an arithmetic shift instead of truncation toward zero.
MulFxShift(a, b, frac) == Wrap((a * b) \div 2^frac)

MulFx(a, b, frac) == Wrap(TruncDiv(a * b, 2^frac))

-----------------------------------------------------------------------------
(* validate: static refusal, before an instruction is executed. *)

ValidWindow(w, size) ==
  /\ w.offset \in Int /\ w.length \in Int
  /\ w.offset >= 0 /\ w.length >= 0 /\ w.offset + w.length <= size

\* Mutant: only the destination register of an ordinary instruction is checked.
ValidDestination(ins, p) ==
  CASE ins.op = "LOADC" -> ins.args[1] \in 0 .. p.mem - 1 /\ ins.args[2] \in 0 .. Len(p.consts) - 1
    [] ins.op = "JMP" -> ins.args[1] \in 0 .. Len(p.code) - 1
    [] ins.op = "HALT" -> TRUE
    [] OTHER -> ins.args[1] \in 0 .. p.mem - 1

ValidOperands(ins, p) ==
  LET a == ins.args
      Register(k) == a[k] \in 0 .. p.mem - 1
  IN  CASE ins.op = "LOADC" -> Register(1) /\ a[2] \in 0 .. Len(p.consts) - 1
        [] ins.op = "JMP"   -> a[1] \in 0 .. Len(p.code) - 1
        [] ins.op \in Jcc   -> Register(1) /\ a[2] \in 0 .. Len(p.code) - 1
        [] ins.op = "MULFX" -> (\A k \in 1 .. 3 : Register(k)) /\ a[4] \in 0 .. WordBits - 1
        [] ins.op = "HALT"  -> TRUE
        [] OTHER            -> \A k \in DOMAIN a : Register(k)

ValidInstruction(ins, p) ==
  /\ ins.op \in Ops
  /\ Len(ins.args) = Arity(ins.op)
  /\ \A k \in DOMAIN ins.args : ins.args[k] \in Int
  /\ ValidOperands(ins, p)

Validate(p) ==
  /\ p.mem \in Int /\ p.mem \in 1 .. MaxMem
  /\ p.steps \in Int /\ p.steps \in 1 .. MaxSteps
  /\ Len(p.consts) <= MaxMem
  /\ \A k \in DOMAIN p.consts : p.consts[k] \in Int /\ p.consts[k] \in Word
  /\ ValidWindow(p.input, p.mem)
  /\ ValidWindow(p.output, p.mem)
  /\ p.output.length # 0
  /\ Len(p.code) \in 1 .. MaxCode
  /\ \A k \in DOMAIN p.code : ValidInstruction(p.code[k], p)

\* The inputs are checked where they are loaded, after the program.
ValidInputs(p, inputs) ==
  /\ Len(inputs) = p.input.length
  /\ \A k \in DOMAIN inputs : inputs[k] \in Int /\ inputs[k] \in Word

-----------------------------------------------------------------------------
VARIABLES
  call,      \* the arguments of run_counted
  status,    \* "called", "running", "halted" (returned) or "trapped" (raised Trap)
  reason,    \* why it trapped
  mem, pc,
  steps      \* the local of that name; what a Trap carries once execution began

vars == <<call, status, reason, mem, pc, steps>>

prog == call.prog

\* Mutant: a cap replaces the program's own budget instead of lowering it.
BudgetCapWins == IF call.cap = NoCap THEN prog.steps ELSE call.cap

Budget == IF call.cap = NoCap THEN prog.steps
          ELSE IF call.cap < prog.steps THEN call.cap ELSE prog.steps

Called == status = "called" /\ reason = "none" /\ mem = <<>> /\ pc = 0 /\ steps = 0

Init == call \in Calls /\ Called

Trap(why) == /\ status' = "trapped"
             /\ reason' = why

Refused == ~(Validate(prog) /\ ValidInputs(prog, call.inputs))

Refuse ==
  /\ status = "called"
  /\ Refused
  /\ Trap("refused")
  /\ UNCHANGED <<call, mem, pc, steps>>

Cells(window) == window.offset .. window.offset + window.length - 1

LoadedMem(p, inputs) ==
  [c \in 0 .. p.mem - 1 |->
     IF c \in Cells(p.input)
     THEN inputs[c - p.input.offset + 1] ELSE 0]

\* Mutant: cells that hold no input are not zeroed.
StartDirty ==
  /\ status = "called"
  /\ ~Refused
  /\ status' = "running"
  /\ \E junk \in Word :
       mem' = [c \in 0 .. prog.mem - 1 |->
                 IF c \in Cells(prog.input) THEN LoadedMem(prog, call.inputs)[c] ELSE junk]
  /\ UNCHANGED <<call, reason, pc, steps>>

Start ==
  /\ status = "called"
  /\ ~Refused
  /\ status' = "running"
  /\ mem' = LoadedMem(prog, call.inputs)
  /\ UNCHANGED <<call, reason, pc, steps>>

BudgetExhausted ==
  /\ status = "running"
  /\ steps >= Budget
  /\ Trap("budget")
  /\ UNCHANGED <<call, mem, pc, steps>>

InProgram == pc \in 0 .. Len(prog.code) - 1

\* A step is counted before anything can go wrong with it.
PcLeft ==
  /\ status = "running"
  /\ steps < Budget
  /\ steps' = steps + 1
  /\ ~InProgram
  /\ Trap("pc")
  /\ UNCHANGED <<call, mem, pc>>

Ins == prog.code[pc + 1]

Fetch(ops) ==
  /\ status = "running"
  /\ steps < Budget
  /\ InProgram
  /\ Ins.op \in ops
  /\ steps' = steps + 1
  /\ UNCHANGED call

\* The value of the register the k-th operand names.
R(k) == mem[Ins.args[k]]

Write(cell, value) ==
  /\ mem' = [mem EXCEPT ![cell] = value]
  /\ pc' = pc + 1
  /\ UNCHANGED <<status, reason>>

Goto(target) ==
  /\ pc' = target
  /\ UNCHANGED <<status, reason, mem>>

TrapIn(why) == Trap(why) /\ pc' = pc + 1 /\ UNCHANGED mem

Halt == /\ Fetch({"HALT"})
        /\ status' = "halted"
        /\ pc' = pc + 1
        /\ UNCHANGED <<reason, mem>>

LoadC == Fetch({"LOADC"}) /\ Write(Ins.args[1], prog.consts[Ins.args[2] + 1])

Unary == Fetch(Alu1) /\ Write(Ins.args[1], Alu1Value(Ins.op, R(2)))

Load == /\ Fetch({"LOAD"})
        /\ IF R(2) \in DOMAIN mem THEN Write(Ins.args[1], mem[R(2)])
                                  ELSE TrapIn("load")

Store == /\ Fetch({"STORE"})
         /\ IF R(1) \in DOMAIN mem THEN Write(R(1), R(2))
                                   ELSE TrapIn("store")

\* Mutant: a taken jump is not counted as a step.
JmpUncounted ==
  /\ status = "running" /\ steps < Budget /\ InProgram /\ Ins.op = "JMP"
  /\ Goto(Ins.args[1])
  /\ UNCHANGED <<call, steps>>

Jmp == Fetch({"JMP"}) /\ Goto(Ins.args[1])

CondJmp == /\ Fetch(Jcc)
           /\ IF (R(1) = 0) = (Ins.op = "JMPZ") THEN Goto(Ins.args[2])
                                                ELSE Goto(pc + 1)

Sel == Fetch({"SEL"}) /\ Write(Ins.args[1], IF R(2) # 0 THEN R(3) ELSE R(4))

FixedMul == Fetch({"MULFX"}) /\ Write(Ins.args[1], MulFx(R(2), R(3), Ins.args[4]))

Binary == /\ Fetch(Alu2)
          /\ IF Alu2Traps(Ins.op, R(3)) THEN TrapIn("arithmetic")
             ELSE Write(Ins.args[1], Alu2Value(Ins.op, R(2), R(3)))

Execute == Halt \/ LoadC \/ Unary \/ Load \/ Store \/ Jmp \/ CondJmp \/ Sel
             \/ FixedMul \/ Binary

Next == Refuse \/ Start \/ BudgetExhausted \/ PcLeft \/ Execute

Fairness == WF_vars(Next)

Spec == Init /\ [][Next]_vars /\ Fairness

Output == [k \in 1 .. prog.output.length |-> mem[prog.output.offset + k - 1]]

Done == status \in {"halted", "trapped"}

-----------------------------------------------------------------------------
(* Properties. *)

\* Memory holds machine words only, over exactly the declared cells, whatever
\* the program computes (replay.py:87 is applied on every path that needs it).
TypeOK ==
  /\ status \in {"called", "running", "halted", "trapped"}
  /\ reason \in {"none", "refused", "budget", "pc", "load", "store", "arithmetic"}
  /\ (status = "trapped") = (reason # "none")
  /\ steps \in Nat
  /\ pc \in Nat
  /\ status \in {"running", "halted"} => mem \in [0 .. prog.mem - 1 -> Word]

\* The cells, constants and jump targets the branch of run_counted's if-chain
\* for an opcode touches, written down from that chain and not from validate.
CellsTouched(ins) ==
  LET a == ins.args
  IN  CASE ins.op \in Alu2 \cup {"MULFX"} -> {a[1], a[2], a[3]}
        [] ins.op = "SEL" -> {a[1], a[2], a[3], a[4]}
        [] ins.op \in Alu1 \cup {"LOAD", "STORE"} -> {a[1], a[2]}
        [] ins.op \in Jcc \cup {"LOADC"} -> {a[1]}
        [] OTHER -> {}

\* Raises Trap and nothing else (replay.py:282): an instruction the loop is
\* about to execute indexes only cells, constants and instructions that exist
\* (a negative index would silently read the wrong cell), and shifts a fixed-
\* point product by less than a word.
StaticChecksSuffice ==
  status = "running" /\ InProgram =>
    /\ CellsTouched(Ins) \subseteq DOMAIN mem
    /\ Ins.op = "LOADC" => Ins.args[2] + 1 \in DOMAIN prog.consts
    /\ Ins.op = "JMP" => Ins.args[1] + 1 \in DOMAIN prog.code
    /\ Ins.op \in Jcc => Ins.args[2] + 1 \in DOMAIN prog.code
    /\ Ins.op = "MULFX" => Ins.args[4] \in 0 .. WordBits - 1

\* What a caller charges for a call never exceeds either limit on it, a trap
\* raised before execution costs no steps, and a call that used its whole
\* budget did not use more (replay.py:307, 326, 414).
WorkWithinBudget ==
  /\ status # "called" /\ reason # "refused" => steps <= prog.steps
  /\ status # "called" /\ reason # "refused" /\ call.cap # NoCap => steps <= call.cap
  /\ reason = "refused" => steps = 0
  /\ reason = "budget" => steps \in {prog.steps, call.cap}

Congruent(v, exact) == v \in Word /\ (v - exact) % Modulus = 0

\* q is a / b rounded toward zero.
Quotient(q, a, b) ==
  /\ Abs(a - q * b) < Abs(b)
  /\ a - q * b # 0 => (a - q * b < 0) = (a < 0)

Wide == -(2 * Half * Half) .. 2 * Half * Half

\* A comparison's result: 1 or 0.
Holds(v, claim) == v \in {0, 1} /\ (v = 1 <=> claim)

\* What an operation leaves in the register v it writes, when it does not trap:
\* a statement of its own for each opcode, in terms of the exact integers.
ExactFixedMul == \E q \in Wide : /\ Quotient(q, R(2) * R(3), 2^Ins.args[4])
                                /\ Congruent(mem'[Ins.args[1]], q)

ExactUnary ==
  LET op == Ins.op
      v  == mem'[Ins.args[1]]
      a  == R(2)
  IN  /\ op = "MOV" => v = a
      /\ op = "NEG" => Congruent(v, -a)
      /\ op = "ABS" => \/ a >= 0 /\ v = a
                       \/ a < 0 /\ Congruent(v, -a)
      /\ op = "NOT" => v + a = -1

ExactBinary ==
  LET op == Ins.op
      v  == mem'[Ins.args[1]]
      a  == R(2)
      b  == R(3)
  IN  /\ op = "ADD" => Congruent(v, a + b)
      /\ op = "SUB" => Congruent(v, a - b)
      /\ op = "MUL" => Congruent(v, a * b)
      /\ op = "DIV" => \E q \in Wide : Quotient(q, a, b) /\ Congruent(v, q)
      /\ op = "MOD" => \E q \in Wide : Quotient(q, a, b) /\ v = a - q * b
      /\ op = "MIN" => v \in {a, b} /\ v <= a /\ v <= b
      /\ op = "MAX" => v \in {a, b} /\ v >= a /\ v >= b
      /\ op = "AND" => Congruent(v, BitAnd(a, b))
      /\ op = "OR"  => Congruent(v, BitOr(a, b))
      /\ op = "XOR" => Congruent(v, BitXor(a, b))
      /\ op = "SHL" => Congruent(v, a * 2^b)
      /\ op = "SHR" => v * 2^b <= a /\ a < (v + 1) * 2^b
      /\ op = "EQ"  => Holds(v, a = b)
      /\ op = "NE"  => Holds(v, a # b)
      /\ op = "LT"  => Holds(v, a < b)
      /\ op = "LE"  => Holds(v, a <= b)
      /\ op = "GT"  => Holds(v, a > b)
      /\ op = "GE"  => Holds(v, a >= b)

ExactStep == /\ FixedMul => ExactFixedMul
             /\ Unary => ExactUnary
             /\ Binary /\ status' = "running" => ExactBinary

\* The result of each opcode of one or two operands and of the fixed-point
\* product is the exact integer result reduced to a word.  Products are
\* truncated before they are wrapped, division rounds toward zero and the
\* remainder is what that quotient leaves, a right shift floors, MIN / -1 and
\* the negation and magnitude of MIN wrap (replay.py:95, 365-405).
ArithmeticIsExactThenWrapped == [][ExactStep]_vars

\* Jumps are unrestricted, yet every call returns or traps: no program can
\* hang its verifier (replay.py:40-46).
Terminates == <>Done
=============================================================================
