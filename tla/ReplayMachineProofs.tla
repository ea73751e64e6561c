------------------------- MODULE ReplayMachineProofs -------------------------
(***************************************************************************)
(* What the replay virtual machine guarantees for every program it may be  *)
(* handed, every input and every step cap, at every word width.            *)
(***************************************************************************)
EXTENDS ReplayMachine, TLAPS

\* Once execution began, the program is one validate let through.
Admitted ==
  status # "called" /\ reason # "refused" => Validate(prog) /\ ValidInputs(prog, call.inputs)

\* What the counter of steps says at each stage of a call.
Counted ==
  /\ status = "called" => steps = 0 /\ pc = 0
  /\ reason = "refused" => steps = 0
  /\ status # "called" /\ reason # "refused" => steps <= Budget
  /\ reason = "budget" => steps = Budget

IInv == call \in Calls /\ TypeOK /\ Admitted /\ Counted

-----------------------------------------------------------------------------
(* Arithmetic. *)

\* Reduction yields a machine word, and leaves one alone.
LEMMA WrapFacts ==
  ASSUME NEW v \in Int
  PROVE  /\ Wrap(v) \in Word
         /\ v \in Word => Wrap(v) = v
BY WordAssumption DEF Wrap, Word, Modulus

\* The quotient of integers rounds to an integer.
LEMMA TruncDivInt ==
  ASSUME NEW a \in Int, NEW b \in Int, b # 0
  PROVE  TruncDiv(a, b) \in Int
BY DEF TruncDiv, Abs

\* The truth values, and zero, are words.
LEMMA TruthIsWord == ASSUME NEW c PROVE IsTrue(c) \in Word
BY WordAssumption DEF IsTrue, Word

\* An operation of one operand yields a word.
LEMMA Alu1Word ==
  ASSUME NEW op \in Alu1, NEW a \in Word
  PROVE  Alu1Value(op, a) \in Word
<1>1. a \in Int /\ -a \in Int /\ Abs(a) \in Int /\ -a - 1 \in Int
  BY WordAssumption DEF Word, Abs
<1>2. Wrap(-a) \in Word /\ Wrap(Abs(a)) \in Word /\ Wrap(-a - 1) \in Word
  BY <1>1, WrapFacts
<1> QED BY <1>2 DEF Alu1Value, Alu1

\* An operation of two operands that does not trap yields a word.
LEMMA Alu2Word ==
  ASSUME NEW op \in Alu2, NEW a \in Word, NEW b \in Word, ~Alu2Traps(op, b)
  PROVE  Alu2Value(op, a, b) \in Word
<1>1. a \in Int /\ b \in Int
  BY WordAssumption DEF Word
<1>2. CASE op \in {"ADD", "SUB", "MUL"}
  <2>1. a + b \in Int /\ a - b \in Int /\ a * b \in Int
    BY <1>1
  <2>2. Wrap(a + b) \in Word /\ Wrap(a - b) \in Word /\ Wrap(a * b) \in Word
    BY <2>1, WrapFacts
  <2> QED BY <1>2, <2>2 DEF Alu2Value
<1>3. CASE op \in {"DIV", "MOD"}
  <2>1. b # 0
    BY <1>3 DEF Alu2Traps
  <2>2. TruncDiv(a, b) \in Int
    BY <1>1, <2>1, TruncDivInt
  <2>3. a - TruncDiv(a, b) * b \in Int
    BY <1>1, <2>2
  <2>4. Wrap(TruncDiv(a, b)) \in Word /\ Wrap(a - TruncDiv(a, b) * b) \in Word
    BY <2>2, <2>3, WrapFacts
  <2> QED BY <1>3, <2>4 DEF Alu2Value
<1>4. CASE op \in {"MIN", "MAX"}
  BY <1>4 DEF Alu2Value
<1>5. CASE op \in {"AND", "OR", "XOR"}
  <2>1. Wrap(BitAnd(a, b)) \in Word /\ Wrap(BitOr(a, b)) \in Word /\ Wrap(BitXor(a, b)) \in Word
    BY BitsAssumption, WrapFacts
  <2> QED BY <1>5, <2>1 DEF Alu2Value
<1>6. CASE op \in {"SHL", "SHR"}
  <2>1. b \in 0 .. WordBits - 1
    BY <1>6 DEF Alu2Traps
  <2>2. 2^b \in Int /\ 2^b > 0
    BY <2>1, WordAssumption
  <2>3. a * 2^b \in Int /\ a \div 2^b \in Int
    BY <1>1, <2>2
  <2>4. Wrap(a * 2^b) \in Word /\ Wrap(a \div 2^b) \in Word
    BY <2>3, WrapFacts
  <2> QED BY <1>6, <2>4 DEF Alu2Value
<1>7. CASE op \in {"EQ", "NE", "LT", "LE", "GT", "GE"}
  BY <1>7, TruthIsWord DEF Alu2Value
<1> QED BY <1>2, <1>3, <1>4, <1>5, <1>6, <1>7 DEF Alu2

\* So does the fixed-point product.
LEMMA MulFxWord ==
  ASSUME NEW a \in Word, NEW b \in Word, NEW frac \in 0 .. WordBits - 1
  PROVE  MulFx(a, b, frac) \in Word
<1>1. a \in Int /\ b \in Int
  BY WordAssumption DEF Word
<1>2. a * b \in Int
  BY <1>1
<1>3. 2^frac \in Int /\ 2^frac # 0
  BY WordAssumption
<1>4. TruncDiv(a * b, 2^frac) \in Int
  BY <1>2, <1>3, TruncDivInt
<1> QED BY <1>4, WrapFacts DEF MulFx
-----------------------------------------------------------------------------
(* What validate and the loading of the inputs establish. *)

\* The numbers of an admitted program.
LEMMA ProgramNumbers ==
  ASSUME call \in Calls, Validate(prog), ValidInputs(prog, call.inputs)
  PROVE  /\ prog.mem \in Nat /\ prog.mem >= 1
         /\ prog.steps \in Nat /\ Budget \in Nat
         /\ Budget <= prog.steps
         /\ call.cap # NoCap => Budget <= call.cap /\ call.cap \in Nat
         /\ call.cap # NoCap => Budget \in {prog.steps, call.cap}
         /\ call.cap = NoCap => Budget = prog.steps
         /\ \A k \in 1 .. Len(prog.consts) : prog.consts[k] \in Word
         /\ Len(prog.consts) \in Nat /\ Len(prog.code) \in Nat
<1>1. call.prog \in JsonProgram /\ call.cap \in Nat \cup {NoCap}
  BY CallAssumption
<1>2. prog.mem \in Nat /\ prog.mem >= 1 /\ prog.steps \in Nat
  BY LimitAssumption DEF Validate
<1>3. prog.consts \in Seq(JsonValue) /\ Len(prog.code) \in Nat
  BY <1>1 DEF JsonProgram, prog
<1>4. Len(prog.consts) \in Nat /\ \A k \in 1 .. Len(prog.consts) : prog.consts[k] \in Word
  BY <1>3 DEF Validate
<1> QED BY <1>1, <1>2, <1>3, <1>4, LimitAssumption DEF Budget

\* Memory starts as words over the declared cells, inputs in their window.
LEMMA LoadedWords ==
  ASSUME call \in Calls, Validate(prog), ValidInputs(prog, call.inputs)
  PROVE  LoadedMem(prog, call.inputs) \in [0 .. prog.mem - 1 -> Word]
<1>1. call.inputs \in Seq(JsonValue)
  BY CallAssumption
<1>2. /\ prog.input.offset \in Int /\ prog.input.length \in Int
      /\ prog.input.offset >= 0 /\ prog.input.length >= 0
      /\ Len(call.inputs) = prog.input.length
      /\ \A k \in 1 .. Len(call.inputs) : call.inputs[k] \in Word
  BY <1>1 DEF Validate, ValidWindow, ValidInputs
<1>3. 0 \in Word
  BY WordAssumption DEF Word
<1>4. ASSUME NEW c \in 0 .. prog.mem - 1, c \in Cells(prog.input)
      PROVE  call.inputs[c - prog.input.offset + 1] \in Word
  <2>1. /\ c \in Int
        /\ prog.input.offset <= c /\ c <= prog.input.offset + prog.input.length - 1
    BY <1>2, <1>4 DEF Cells
  <2>2. c - prog.input.offset + 1 \in 1 .. Len(call.inputs)
    BY <1>2, <2>1
  <2> QED BY <1>2, <2>2
<1> QED BY <1>3, <1>4 DEF LoadedMem

\* The instruction at hand is one validate accepted.
LEMMA FetchedIsValid ==
  ASSUME IInv, status = "running", InProgram
  PROVE  /\ ValidInstruction(Ins, prog)
         /\ DOMAIN Ins.args = 1 .. Arity(Ins.op)
         /\ mem \in [0 .. prog.mem - 1 -> Word]
<1>1. Validate(prog) /\ ValidInputs(prog, call.inputs) /\ call.prog \in JsonProgram
  BY CallAssumption DEF IInv, TypeOK, Admitted
<1>2. prog.code \in Seq([op : STRING, args : Seq(JsonValue)])
  BY <1>1 DEF JsonProgram, prog
<1>3. pc + 1 \in DOMAIN prog.code
  BY <1>2 DEF InProgram
<1>4. Ins.args \in Seq(JsonValue)
  <2> DEFINE Instructions == [op : STRING, args : Seq(JsonValue)]
  <2>1. prog.code \in Seq(Instructions)
    BY <1>2
  <2>2. Ins \in Instructions
    <3> HIDE DEF Instructions
    <3> QED BY <1>3, <2>1 DEF Ins
  <2> QED BY <2>2
<1>5. ValidInstruction(Ins, prog)
  BY <1>1, <1>3 DEF Validate, Ins
<1> QED BY <1>4, <1>5 DEF ValidInstruction, IInv, TypeOK

\* The cells, constants and targets its operands name exist.
LEMMA OperandsExist ==
  ASSUME IInv, status = "running", InProgram
  PROVE  /\ Ins.op \in Ops
         /\ Ins.op \in Alu2 \cup {"MULFX"} => {Ins.args[1], Ins.args[2], Ins.args[3]} \subseteq DOMAIN mem
         /\ Ins.op = "MULFX" => Ins.args[4] \in 0 .. WordBits - 1
         /\ Ins.op = "SEL" => {Ins.args[1], Ins.args[2], Ins.args[3], Ins.args[4]} \subseteq DOMAIN mem
         /\ Ins.op \in Alu1 \cup {"LOAD", "STORE"} => {Ins.args[1], Ins.args[2]} \subseteq DOMAIN mem
         /\ Ins.op \in Jcc \cup {"LOADC"} => Ins.args[1] \in DOMAIN mem
         /\ Ins.op = "LOADC" => Ins.args[2] \in 0 .. Len(prog.consts) - 1
         /\ Ins.op = "JMP" => Ins.args[1] \in 0 .. Len(prog.code) - 1
         /\ Ins.op \in Jcc => Ins.args[2] \in 0 .. Len(prog.code) - 1
<1>1. /\ Ins.op \in Ops /\ ValidOperands(Ins, prog) /\ DOMAIN mem = 0 .. prog.mem - 1
      /\ DOMAIN Ins.args = 1 .. Arity(Ins.op)
  BY FetchedIsValid DEF ValidInstruction
<1>2. CASE Ins.op \in Alu2
  <2>1. Arity(Ins.op) = 3
    BY <1>2 DEF Arity, Alu1, Alu2, Jcc
  <2>2. Ins.op \notin Jcc \cup {"LOADC", "JMP", "MULFX", "HALT"}
    BY <1>2 DEF Alu2, Jcc
  <2>3. \A k \in DOMAIN Ins.args : Ins.args[k] \in DOMAIN mem
    BY <1>1, <2>2 DEF ValidOperands
  <2> QED BY <1>1, <1>2, <2>1, <2>3 DEF Alu2, Alu1, Jcc
<1>3. CASE Ins.op \in Alu1 \cup {"LOAD", "STORE"}
  <2>1. Arity(Ins.op) = 2
    BY <1>3 DEF Arity, Alu1, Alu2
  <2>2. Ins.op \notin Jcc \cup {"LOADC", "JMP", "MULFX", "HALT"}
    BY <1>3 DEF Alu1, Jcc
  <2>3. \A k \in DOMAIN Ins.args : Ins.args[k] \in DOMAIN mem
    BY <1>1, <2>2 DEF ValidOperands
  <2> QED BY <1>1, <1>3, <2>1, <2>3 DEF Alu2, Alu1, Jcc
<1>4. CASE Ins.op = "SEL"
  <2>1. Arity(Ins.op) = 4
    BY <1>4 DEF Arity, Alu1, Alu2, Jcc
  <2>2. Ins.op \notin Jcc \cup {"LOADC", "JMP", "MULFX", "HALT"}
    BY <1>4 DEF Jcc
  <2>3. \A k \in DOMAIN Ins.args : Ins.args[k] \in DOMAIN mem
    BY <1>1, <2>2 DEF ValidOperands
  <2> QED BY <1>1, <1>4, <2>1, <2>3 DEF Alu2, Alu1, Jcc
<1>5. CASE Ins.op = "MULFX"
  BY <1>1, <1>5 DEF ValidOperands, Alu2, Alu1, Jcc
<1>6. CASE Ins.op \in Jcc
  BY <1>1, <1>6 DEF ValidOperands, Alu2, Alu1, Jcc
<1>7. CASE Ins.op \in {"LOADC", "JMP", "HALT"}
  BY <1>1, <1>7 DEF ValidOperands, Alu2, Alu1, Jcc
<1> QED BY <1>1, <1>2, <1>3, <1>4, <1>5, <1>6, <1>7 DEF Ops
-----------------------------------------------------------------------------
(* Each action preserves the invariant. *)

\* A call starts with nothing executed.
LEMMA InitIInv == Init => IInv
BY DEF Init, Called, IInv, TypeOK, Admitted, Counted

\* A refused call executed nothing.
LEMMA RefuseStep == ASSUME IInv, Refuse PROVE IInv'
<1>1. /\ call' = call /\ status = "called" /\ status' = "trapped" /\ reason' = "refused"
      /\ mem' = mem /\ pc' = pc /\ steps' = steps
  BY DEF Refuse, Trap
<1> QED BY <1>1 DEF IInv, TypeOK, Admitted, Counted

\* Execution starts on a valid program, with its inputs in memory.
LEMMA StartStep == ASSUME IInv, Start PROVE IInv'
<1>1. /\ call' = call /\ status = "called" /\ status' = "running" /\ reason' = reason
      /\ mem' = LoadedMem(prog, call.inputs) /\ pc' = pc /\ steps' = steps
      /\ Validate(prog) /\ ValidInputs(prog, call.inputs)
  BY DEF Start, Refused
<1>2. prog' = prog /\ Budget' = Budget
  BY <1>1 DEF prog, Budget
<1>3. mem' \in [0 .. prog.mem - 1 -> Word] /\ Budget \in Nat
  BY <1>1, LoadedWords, ProgramNumbers DEF IInv
<1>4. TypeOK'
  BY <1>1, <1>2, <1>3 DEF IInv, TypeOK
<1>5. Admitted'
  BY <1>1, <1>2 DEF Admitted
<1>6. Counted'
  BY <1>1, <1>2, <1>3 DEF IInv, TypeOK, Counted
<1> QED BY <1>1, <1>4, <1>5, <1>6 DEF IInv

\* The trap at the head of the loop costs no step.
LEMMA BudgetExhaustedStep == ASSUME IInv, BudgetExhausted PROVE IInv'
<1>1. /\ call' = call /\ status = "running" /\ status' = "trapped" /\ reason' = "budget"
      /\ mem' = mem /\ pc' = pc /\ steps' = steps /\ steps >= Budget
  BY DEF BudgetExhausted, Trap
<1>2. prog' = prog /\ Budget' = Budget
  BY <1>1 DEF prog, Budget
<1>3. Budget \in Nat
  BY <1>1, ProgramNumbers DEF IInv, TypeOK, Admitted
<1>4. steps = Budget
  BY <1>1, <1>3 DEF IInv, TypeOK, Counted
<1>5. TypeOK' /\ Admitted'
  BY <1>1, <1>2 DEF IInv, TypeOK, Admitted
<1>6. Counted'
  BY <1>1, <1>2, <1>3, <1>4 DEF Counted
<1> QED BY <1>1, <1>5, <1>6 DEF IInv

\* A retired instruction: what every branch of the if-chain has in common.
LEMMA Retired ==
  ASSUME IInv, status = "running", steps < Budget, steps' = steps + 1, call' = call,
         \/ status' \in {"running", "halted"} /\ reason' = "none"
              /\ mem' \in [0 .. prog.mem - 1 -> Word]
         \/ status' = "trapped" /\ reason' \in {"pc", "load", "store", "arithmetic"},
         pc' \in Nat
  PROVE  IInv'
<1>1. prog' = prog /\ Budget' = Budget
  BY DEF prog, Budget
<1>2. Budget \in Nat
  BY ProgramNumbers DEF IInv, TypeOK, Admitted
<1>3. TypeOK'
  BY <1>1 DEF IInv, TypeOK
<1>4. Admitted'
  BY <1>1 DEF IInv, TypeOK, Admitted
<1>5. Counted'
  BY <1>1, <1>2 DEF IInv, TypeOK, Counted
<1> QED BY <1>3, <1>4, <1>5 DEF IInv

\* A step outside the program is counted, and trapped.
LEMMA PcLeftStep == ASSUME IInv, PcLeft PROVE IInv'
<1>1. pc \in Nat
  BY DEF IInv, TypeOK
<1> QED BY <1>1, Retired DEF PcLeft, Trap

\* A word written to a cell that exists.
LEMMA Written ==
  ASSUME IInv, NEW ops, Fetch(ops), NEW cell \in DOMAIN mem, NEW value \in Word,
         Write(cell, value)
  PROVE  IInv'
<1>1. mem \in [0 .. prog.mem - 1 -> Word] /\ reason = "none" /\ pc + 1 \in Nat
  BY DEF Fetch, IInv, TypeOK
<1>2. mem' \in [0 .. prog.mem - 1 -> Word] /\ status' = status /\ reason' = reason /\ pc' = pc + 1
  BY <1>1 DEF Write
<1> QED BY <1>1, <1>2, Retired DEF Fetch

\* A jump to an instruction, or past the last one.
LEMMA Jumped ==
  ASSUME IInv, NEW ops, Fetch(ops), NEW target \in Nat, Goto(target)
  PROVE  IInv'
<1>1. mem \in [0 .. prog.mem - 1 -> Word] /\ reason = "none"
  BY DEF Fetch, IInv, TypeOK
<1> QED BY <1>1, Retired DEF Fetch, Goto

\* A trap in an instruction, which was counted.
LEMMA TrappedIn ==
  ASSUME IInv, NEW ops, Fetch(ops), NEW why \in {"load", "store", "arithmetic"}, TrapIn(why)
  PROVE  IInv'
<1>1. pc + 1 \in Nat
  BY DEF IInv, TypeOK
<1> QED BY <1>1, Retired DEF Fetch, TrapIn, Trap

\* Every instruction leaves words in the cells it was declared with.
LEMMA ExecuteStep == ASSUME IInv, Execute PROVE IInv'
<1>1. status = "running" /\ InProgram /\ pc + 1 \in Nat
  BY DEF Execute, Halt, LoadC, Unary, Load, Store, Jmp, CondJmp, Sel, FixedMul, Binary,
         Fetch, IInv, TypeOK
<1>2. /\ mem \in [0 .. prog.mem - 1 -> Word]
      /\ \A c \in DOMAIN mem : mem[c] \in Word
  BY <1>1 DEF IInv, TypeOK
<1>3. /\ Len(prog.consts) \in Nat /\ Len(prog.code) \in Nat
      /\ \A c \in 1 .. Len(prog.consts) : prog.consts[c] \in Word
  BY <1>1, ProgramNumbers DEF IInv, TypeOK, Admitted
<1>4. CASE Halt
  BY <1>1, <1>2, <1>4, Retired DEF Halt, Fetch, IInv, TypeOK
<1>5. CASE LoadC
  <2>1. Ins.op = "LOADC"
    BY <1>5 DEF LoadC, Fetch
  <2>2. Ins.args[1] \in DOMAIN mem /\ Ins.args[2] + 1 \in 1 .. Len(prog.consts)
    BY <1>1, <1>3, <2>1, OperandsExist
  <2> QED BY <1>3, <1>5, <2>2, Written DEF LoadC
<1>6. CASE Unary
  <2>1. Ins.op \in Alu1
    BY <1>6 DEF Unary, Fetch
  <2>2. Ins.args[1] \in DOMAIN mem /\ Ins.args[2] \in DOMAIN mem
    BY <1>1, <2>1, OperandsExist
  <2>3. Alu1Value(Ins.op, R(2)) \in Word
    BY <1>2, <2>1, <2>2, Alu1Word DEF R
  <2> QED BY <1>6, <2>2, <2>3, Written DEF Unary
<1>7. CASE Load
  <2>1. Ins.op = "LOAD"
    BY <1>7 DEF Load, Fetch
  <2>2. Ins.args[1] \in DOMAIN mem
    BY <1>1, <2>1, OperandsExist
  <2>3. CASE R(2) \in DOMAIN mem
    BY <1>2, <1>7, <2>2, <2>3, Written DEF Load
  <2>4. CASE R(2) \notin DOMAIN mem
    BY <1>7, <2>4, TrappedIn DEF Load
  <2> QED BY <2>3, <2>4
<1>8. CASE Store
  <2>1. Ins.op = "STORE"
    BY <1>8 DEF Store, Fetch
  <2>2. Ins.args[2] \in DOMAIN mem
    BY <1>1, <2>1, OperandsExist
  <2>3. R(2) \in Word
    BY <1>2, <2>2 DEF R
  <2>4. CASE R(1) \in DOMAIN mem
    BY <1>8, <2>3, <2>4, Written DEF Store
  <2>5. CASE R(1) \notin DOMAIN mem
    BY <1>8, <2>5, TrappedIn DEF Store
  <2> QED BY <2>4, <2>5
<1>9. CASE Jmp
  <2>1. Ins.op = "JMP"
    BY <1>9 DEF Jmp, Fetch
  <2>2. Ins.args[1] \in Nat
    BY <1>1, <1>3, <2>1, OperandsExist
  <2> QED BY <1>9, <2>2, Jumped DEF Jmp
<1>10. CASE CondJmp
  <2>1. Ins.op \in Jcc
    BY <1>10 DEF CondJmp, Fetch
  <2>2. Ins.args[2] \in Nat
    BY <1>1, <1>3, <2>1, OperandsExist
  <2> QED BY <1>1, <1>10, <2>2, Jumped DEF CondJmp
<1>11. CASE Sel
  <2>1. Ins.op = "SEL"
    BY <1>11 DEF Sel, Fetch
  <2>2. {Ins.args[1], Ins.args[2], Ins.args[3], Ins.args[4]} \subseteq DOMAIN mem
    BY <1>1, <2>1, OperandsExist
  <2>3. (IF R(2) # 0 THEN R(3) ELSE R(4)) \in Word
    BY <1>2, <2>2 DEF R
  <2> QED BY <1>11, <2>2, <2>3, Written DEF Sel
<1>12. CASE FixedMul
  <2>1. Ins.op = "MULFX"
    BY <1>12 DEF FixedMul, Fetch
  <2>2. {Ins.args[1], Ins.args[2], Ins.args[3]} \subseteq DOMAIN mem
        /\ Ins.args[4] \in 0 .. WordBits - 1
    BY <1>1, <2>1, OperandsExist
  <2>3. MulFx(R(2), R(3), Ins.args[4]) \in Word
    BY <1>2, <2>2, MulFxWord DEF R
  <2> QED BY <1>12, <2>2, <2>3, Written DEF FixedMul
<1>13. CASE Binary
  <2>1. Ins.op \in Alu2
    BY <1>13 DEF Binary, Fetch
  <2>2. {Ins.args[1], Ins.args[2], Ins.args[3]} \subseteq DOMAIN mem
    BY <1>1, <2>1, OperandsExist
  <2>3. CASE Alu2Traps(Ins.op, R(3))
    BY <1>13, <2>3, TrappedIn DEF Binary
  <2>4. CASE ~Alu2Traps(Ins.op, R(3))
    <3>1. Alu2Value(Ins.op, R(2), R(3)) \in Word
      BY <1>2, <2>1, <2>2, <2>4, Alu2Word DEF R
    <3> QED BY <1>13, <2>2, <2>4, <3>1, Written DEF Binary
  <2> QED BY <2>3, <2>4
<1> QED BY <1>4, <1>5, <1>6, <1>7, <1>8, <1>9, <1>10, <1>11, <1>12, <1>13 DEF Execute

\* A step that changes nothing.
LEMMA StutterStep == ASSUME IInv, UNCHANGED vars PROVE IInv'
<1>1. /\ call' = call /\ status' = status /\ reason' = reason
      /\ mem' = mem /\ pc' = pc /\ steps' = steps
  BY DEF vars
<1>2. prog' = prog /\ Budget' = Budget
  BY <1>1 DEF prog, Budget
<1> QED BY <1>1, <1>2 DEF IInv, TypeOK, Admitted, Counted

-----------------------------------------------------------------------------
(* The theorems. *)

\* The invariant the others follow from: what the loop of run_counted knows.
THEOREM Invariance == Spec => []IInv
<1>1. IInv /\ [Next]_vars => IInv'
  BY RefuseStep, StartStep, BudgetExhaustedStep, PcLeftStep, ExecuteStep, StutterStep DEF Next
<1> QED BY <1>1, InitIInv, PTL DEF Spec

\* Memory holds machine words only, over exactly the declared cells, whatever
\* the program computes: no path of run_counted forgets to wrap.
THEOREM TypeCorrectness == Spec => []TypeOK
<1>1. IInv => TypeOK
  BY DEF IInv
<1> QED BY <1>1, Invariance, PTL

\* Every program validate lets through indexes only what exists (replay.py:282:
\* run raises Trap and nothing else), however far it runs.
THEOREM StaticChecksAreEnough == Spec => []StaticChecksSuffice
<1>1. ASSUME IInv, status = "running", InProgram
      PROVE  /\ CellsTouched(Ins) \subseteq DOMAIN mem
             /\ Ins.op = "LOADC" => Ins.args[2] + 1 \in DOMAIN prog.consts
             /\ Ins.op = "JMP" => Ins.args[1] + 1 \in DOMAIN prog.code
             /\ Ins.op \in Jcc => Ins.args[2] + 1 \in DOMAIN prog.code
             /\ Ins.op = "MULFX" => Ins.args[4] \in 0 .. WordBits - 1
  <2>1. call.prog \in JsonProgram
    BY <1>1, CallAssumption DEF IInv
  <2>2. /\ DOMAIN prog.consts = 1 .. Len(prog.consts) /\ Len(prog.consts) \in Nat
        /\ DOMAIN prog.code = 1 .. Len(prog.code) /\ Len(prog.code) \in Nat
    BY <2>1 DEF prog, JsonProgram
  <2>3. CellsTouched(Ins) \subseteq DOMAIN mem
    <3>1. CASE Ins.op \in Alu2 \cup {"MULFX"}
      BY <1>1, <3>1, OperandsExist DEF CellsTouched, Alu2, Alu1, Jcc
    <3>2. CASE Ins.op = "SEL"
      BY <1>1, <3>2, OperandsExist DEF CellsTouched, Alu2, Alu1, Jcc
    <3>3. CASE Ins.op \in Alu1 \cup {"LOAD", "STORE"}
      BY <1>1, <3>3, OperandsExist DEF CellsTouched, Alu2, Alu1, Jcc
    <3>4. CASE Ins.op \in Jcc \cup {"LOADC"}
      BY <1>1, <3>4, OperandsExist DEF CellsTouched, Alu2, Alu1, Jcc
    <3>5. CASE Ins.op \in {"JMP", "HALT"}
      BY <3>5 DEF CellsTouched, Alu2, Alu1, Jcc
    <3> QED BY <1>1, <3>1, <3>2, <3>3, <3>4, <3>5, OperandsExist DEF Ops
  <2> QED BY <1>1, <2>2, <2>3, OperandsExist
<1>2. IInv => StaticChecksSuffice
  BY <1>1 DEF StaticChecksSuffice
<1> QED BY <1>2, Invariance, PTL

\* A call retires no more steps than its program declared and its cap allows,
\* and exactly that many when it ran out of budget.
THEOREM WorkIsWithinBudget == Spec => []WorkWithinBudget
<1>1. ASSUME IInv PROVE WorkWithinBudget
  <2>1. CASE status # "called" /\ reason # "refused"
    <3>1. /\ prog.steps \in Nat /\ Budget \in Nat /\ Budget <= prog.steps
          /\ call.cap # NoCap => call.cap \in Nat /\ Budget <= call.cap
                                /\ Budget \in {prog.steps, call.cap}
          /\ call.cap = NoCap => Budget = prog.steps
      BY <1>1, <2>1, ProgramNumbers DEF IInv, Admitted
    <3>2. steps <= Budget /\ steps \in Nat /\ (reason = "budget" => steps = Budget)
      BY <1>1, <2>1 DEF IInv, TypeOK, Counted
    <3> QED BY <2>1, <3>1, <3>2 DEF WorkWithinBudget
  <2>2. CASE status = "called"
    BY <1>1, <2>2 DEF IInv, TypeOK, Counted, WorkWithinBudget
  <2>3. CASE reason = "refused"
    BY <1>1, <2>3 DEF IInv, Counted, WorkWithinBudget
  <2> QED BY <2>1, <2>2, <2>3
<1> QED BY <1>1, Invariance, PTL

-----------------------------------------------------------------------------
(* Exact arithmetic. *)

\* Reduction keeps the value modulo 2^WordBits.
LEMMA WrapCongruent == ASSUME NEW v \in Int PROVE Congruent(Wrap(v), v)
<1>1. Modulus \in Nat \ {0}
  BY WordAssumption DEF Modulus
<1>2. PICK u \in 0 .. Modulus - 1, z \in Int : v = Modulus * z + u /\ u = v % Modulus
  <2>1. ASSUME NEW m \in Nat \ {0}
        PROVE  v % m \in 0 .. m - 1 /\ v \div m \in Int /\ v = m * (v \div m) + (v % m)
    OBVIOUS
  <2> QED BY <1>1, <2>1
<1>3. Wrap(v) - v \in {-(Modulus * z), -(Modulus * z) - Modulus}
  BY <1>1, <1>2 DEF Wrap
<1>4. -(Modulus * z) = Modulus * (-z) /\ -(Modulus * z) - Modulus = Modulus * (-z - 1)
  BY <1>1, <1>2
<1>5. \A y \in Int : (Modulus * y) % Modulus = 0
  <2>1. ASSUME NEW m \in Nat \ {0}, NEW y \in Int PROVE (m * y) % m = 0
    OBVIOUS
  <2> QED BY <1>1, <2>1
<1>6. (Wrap(v) - v) % Modulus = 0
  BY <1>2, <1>3, <1>4, <1>5
<1> QED BY <1>6, WrapFacts DEF Congruent

\* Division rounds toward zero.
LEMMA TruncDivRounds ==
  ASSUME NEW a \in Int, NEW b \in Int, b # 0
  PROVE  /\ Quotient(TruncDiv(a, b), a, b)
         /\ Abs(TruncDiv(a, b)) <= Abs(a)
<1> DEFINE n == Abs(a)
           d == Abs(b)
           q == n \div d
<1>1. n \in Nat /\ d \in Nat \ {0}
  BY DEF Abs
<1>2. q \in Nat /\ q * d <= n /\ n < q * d + d /\ q <= n
  <2>1. ASSUME NEW x \in Nat, NEW y \in Nat \ {0}
        PROVE  x \div y \in Nat /\ (x \div y) * y <= x /\ x < (x \div y) * y + y
    OBVIOUS
  <2>2. ASSUME NEW x \in Nat, NEW y \in Nat \ {0} PROVE x <= x * y
    OBVIOUS
  <2>3. q \in Nat /\ q * d <= n /\ n < q * d + d
    BY <1>1, <2>1
  <2>4. q <= q * d
    <3> HIDE DEF q, d
    <3> QED BY <1>1, <2>2, <2>3
  <2> HIDE DEF q, d, n
  <2> QED BY <1>1, <2>3, <2>4
<1>3. PICK p \in Nat : p = q * d /\ p <= n /\ n < p + d
  BY <1>1, <1>2
<1>4. TruncDiv(a, b) = IF (a < 0) # (b < 0) THEN -q ELSE q
  BY DEF TruncDiv
<1>5. TruncDiv(a, b) * b = IF a < 0 THEN -p ELSE p
  <2>1. b = d \/ b = -d
    BY DEF Abs
  <2>2. (b = d) = (b > 0)
    BY DEF Abs
  <2>3. q * d = p /\ (-q) * d = -p /\ q * (-d) = -p /\ (-q) * (-d) = p
    <3>1. ASSUME NEW x \in Nat, NEW y \in Nat
          PROVE  (-x) * y = -(x * y) /\ x * (-y) = -(x * y) /\ (-x) * (-y) = x * y
      OBVIOUS
    <3> HIDE DEF q, d
    <3> QED BY <1>1, <1>2, <1>3, <3>1
  <2> HIDE DEF q, d
  <2>4. CASE b = d /\ ~(b < 0)
    BY <1>4, <2>3, <2>4
  <2>5. CASE b = -d /\ b < 0
    BY <1>4, <2>3, <2>5
  <2>6. b < 0 \/ b > 0
    OBVIOUS
  <2> QED BY <2>1, <2>2, <2>4, <2>5, <2>6
<1>6. Quotient(TruncDiv(a, b), a, b)
  <2>1. PICK t \in Int : t = TruncDiv(a, b) * b /\ t = IF a < 0 THEN -p ELSE p
    BY <1>3, <1>5
  <2>2. p <= Abs(a) /\ Abs(a) < p + Abs(b)
    BY <1>3
  <2>3. Abs(a - t) < Abs(b) /\ (a - t # 0 => (a - t < 0) = (a < 0))
    <3> HIDE DEF n, d, q
    <3>1. CASE a < 0
      BY <2>1, <2>2, <3>1 DEF Abs
    <3>2. CASE ~(a < 0)
      BY <2>1, <2>2, <3>2 DEF Abs
    <3> QED BY <3>1, <3>2
  <2> QED BY <2>1, <2>3 DEF Quotient
<1>7. Abs(TruncDiv(a, b)) <= n
  <2> HIDE DEF q, n
  <2> QED BY <1>1, <1>2, <1>4 DEF Abs
<1> QED BY <1>6, <1>7

\* The exact quotient of two words, or of a product of two, is within Wide.
LEMMA QuotientInWide ==
  ASSUME NEW a \in Int, Abs(a) <= Half * Half, NEW b \in Int, b # 0
  PROVE  \E q \in Wide : q = TruncDiv(a, b) /\ Quotient(q, a, b)
<1>1. TruncDiv(a, b) \in Int /\ Abs(TruncDiv(a, b)) <= Abs(a) /\ Quotient(TruncDiv(a, b), a, b)
  BY TruncDivInt, TruncDivRounds
<1>2. PICK h \in Nat : h = Half * Half
  BY WordAssumption
<1>3. 2 * Half * Half = 2 * h
  BY <1>2, WordAssumption
<1>4. TruncDiv(a, b) \in Wide
  BY <1>1, <1>2, <1>3 DEF Abs, Wide
<1> QED BY <1>1, <1>4

\* Words, and products of words, are that small.
LEMMA WordsAreSmall ==
  ASSUME NEW a \in Word, NEW b \in Word
  PROVE  a \in Int /\ b \in Int /\ Abs(a) <= Half * Half /\ Abs(a * b) <= Half * Half
<1>1. a \in Int /\ b \in Int /\ Abs(a) <= Half /\ Abs(b) <= Half /\ Half \in Nat \ {0}
  BY WordAssumption DEF Word, Abs
<1>2. Abs(a * b) = Abs(a) * Abs(b) /\ Abs(a) \in Nat /\ Abs(b) \in Nat
  BY <1>1 DEF Abs
<1>3. ASSUME NEW x \in Nat, NEW y \in Nat, NEW h \in Nat \ {0}, x <= h, y <= h
      PROVE  x <= h * h /\ x * y <= h * h
  <2>1. h <= h * h
    OBVIOUS
  <2>2. x * y <= h * y /\ h * y <= h * h
    BY <1>3
  <2>3. x * y \in Nat /\ h * y \in Nat /\ h * h \in Nat
    OBVIOUS
  <2> QED BY <1>3, <2>1, <2>2, <2>3
<1>4. Abs(a) <= Half * Half
  BY <1>1, <1>2, <1>3
<1>5. Abs(a) * Abs(b) <= Half * Half
  BY <1>1, <1>2, <1>3
<1> QED BY <1>1, <1>2, <1>4, <1>5

\* A fixed-point product is truncated before it is wrapped.
LEMMA MulFxExact ==
  ASSUME NEW a \in Word, NEW b \in Word, NEW frac \in 0 .. WordBits - 1
  PROVE  \E q \in Wide : Quotient(q, a * b, 2^frac) /\ Congruent(MulFx(a, b, frac), q)
<1>1. a * b \in Int /\ Abs(a * b) <= Half * Half
  BY WordsAreSmall
<1>2. 2^frac \in Int /\ 2^frac # 0
  BY WordAssumption
<1>3. PICK q \in Wide : q = TruncDiv(a * b, 2^frac) /\ Quotient(q, a * b, 2^frac)
  BY <1>1, <1>2, QuotientInWide
<1>4. Congruent(Wrap(q), q)
  BY WrapCongruent, WordAssumption DEF Wide
<1>5. MulFx(a, b, frac) = Wrap(q)
  BY <1>3 DEF MulFx
<1> QED BY <1>3, <1>4, <1>5

\* Sums, differences and products lose only what does not fit a word.
LEMMA SumExact ==
  ASSUME NEW a \in Word, NEW b \in Word
  PROVE  /\ Congruent(Alu2Value("ADD", a, b), a + b)
         /\ Congruent(Alu2Value("SUB", a, b), a - b)
         /\ Congruent(Alu2Value("MUL", a, b), a * b)
<1>1. a + b \in Int /\ a - b \in Int /\ a * b \in Int
  BY WordsAreSmall
<1>2. Congruent(Wrap(a + b), a + b) /\ Congruent(Wrap(a - b), a - b) /\ Congruent(Wrap(a * b), a * b)
  BY <1>1, WrapCongruent
<1> QED BY <1>2 DEF Alu2Value

\* A quotient is wrapped (MIN / -1); a remainder is a word already.
LEMMA DivisionExact ==
  ASSUME NEW a \in Word, NEW b \in Word, b # 0
  PROVE  /\ \E q \in Wide : Quotient(q, a, b) /\ Congruent(Alu2Value("DIV", a, b), q)
         /\ \E q \in Wide : Quotient(q, a, b) /\ Alu2Value("MOD", a, b) = a - q * b
<1>1. a \in Int /\ b \in Int /\ Abs(a) <= Half * Half
  BY WordsAreSmall
<1>2. PICK q \in Wide : q = TruncDiv(a, b) /\ Quotient(q, a, b)
  BY <1>1, QuotientInWide
<1>3. q \in Int
  BY WordAssumption DEF Wide
<1>4. Congruent(Alu2Value("DIV", a, b), q)
  <2>1. Alu2Value("DIV", a, b) = Wrap(q)
    BY <1>2 DEF Alu2Value
  <2> QED BY <1>3, <2>1, WrapCongruent
<1>5. Alu2Value("MOD", a, b) = a - q * b
  <2>1. PICK r \in Int : r = a - q * b
    BY <1>1, <1>3
  <2>2. Abs(r) < Abs(b)
    BY <1>2, <2>1 DEF Quotient
  <2>3. r \in Word
    BY <2>1, <2>2, WordAssumption DEF Abs, Word
  <2>4. Wrap(r) = r
    BY <2>3, WrapFacts
  <2>5. Alu2Value("MOD", a, b) = Wrap(r)
    BY <1>2, <2>1 DEF Alu2Value
  <2> QED BY <2>1, <2>4, <2>5
<1> QED BY <1>2, <1>4, <1>5

\* A left shift is a product; a right shift floors.
LEMMA ShiftExact ==
  ASSUME NEW a \in Word, NEW b \in 0 .. WordBits - 1
  PROVE  /\ Congruent(Alu2Value("SHL", a, b), a * 2^b)
         /\ Alu2Value("SHR", a, b) * 2^b <= a
         /\ a < (Alu2Value("SHR", a, b) + 1) * 2^b
<1>1. PICK d \in 1 .. Half : d = 2^b
  BY WordAssumption
<1>2. a \in Int /\ d \in Nat \ {0} /\ a * d \in Int
  BY <1>1, WordAssumption DEF Word
<1>3. Congruent(Alu2Value("SHL", a, b), a * 2^b)
  <2>1. Alu2Value("SHL", a, b) = Wrap(a * d)
    BY <1>1 DEF Alu2Value
  <2> QED BY <1>1, <1>2, <2>1, WrapCongruent
<1>4. PICK q \in Int : q = a \div d /\ q * d <= a /\ a < (q + 1) * d
  BY <1>2
<1>5. q \in Word
  <2>1. ASSUME NEW h \in Nat, NEW x \in Int, NEW y \in Nat \ {0}, NEW z \in Int,
               -h <= x, x <= h - 1, z * y <= x, x < (z + 1) * y
        PROVE  -h <= z /\ z <= h - 1
    <3>1. ASSUME z <= -h - 1 PROVE FALSE
      <4>1. (z + 1) * y <= z + 1
        BY <3>1
      <4> QED BY <2>1, <3>1, <4>1
    <3>2. ASSUME z >= h PROVE FALSE
      <4>1. z * y >= z
        BY <3>2
      <4> QED BY <2>1, <3>2, <4>1
    <3> QED BY <3>1, <3>2
  <2>2. -Half <= a /\ a <= Half - 1 /\ Half \in Nat
    BY WordAssumption DEF Word
  <2> QED BY <1>2, <1>4, <2>1, <2>2 DEF Word
<1>6. Alu2Value("SHR", a, b) = q
  <2>1. Alu2Value("SHR", a, b) = Wrap(q)
    BY <1>1, <1>4 DEF Alu2Value
  <2> QED BY <1>4, <1>5, <2>1, WrapFacts
<1> QED BY <1>1, <1>3, <1>4, <1>6

\* Negation and magnitude wrap at MIN alone; a complement is a word already.
LEMMA UnaryExact ==
  ASSUME NEW a \in Word
  PROVE  /\ Alu1Value("MOV", a) = a
         /\ Congruent(Alu1Value("NEG", a), -a)
         /\ \/ a >= 0 /\ Alu1Value("ABS", a) = a
            \/ a < 0 /\ Congruent(Alu1Value("ABS", a), -a)
         /\ Alu1Value("NOT", a) + a = -1
<1>1. a \in Int /\ -a \in Int /\ -a - 1 \in Word
  BY WordAssumption DEF Word
<1>2. Congruent(Alu1Value("NEG", a), -a)
  BY <1>1, WrapCongruent DEF Alu1Value
<1>3. ASSUME a >= 0 PROVE Alu1Value("ABS", a) = a
  <2>1. Alu1Value("ABS", a) = Wrap(a)
    BY <1>1, <1>3 DEF Alu1Value, Abs
  <2> QED BY <1>1, <2>1, WrapFacts
<1>4. ASSUME a < 0 PROVE Congruent(Alu1Value("ABS", a), -a)
  <2>1. Alu1Value("ABS", a) = Wrap(-a)
    BY <1>1, <1>4 DEF Alu1Value, Abs
  <2> QED BY <1>1, <2>1, WrapCongruent
<1>5. Alu1Value("NOT", a) = -a - 1
  BY <1>1, WrapFacts DEF Alu1Value
<1>6. \/ a >= 0 /\ Alu1Value("ABS", a) = a
      \/ a < 0 /\ Congruent(Alu1Value("ABS", a), -a)
  BY <1>1, <1>3, <1>4
<1>7. Alu1Value("MOV", a) = a
  BY DEF Alu1Value
<1> QED BY <1>1, <1>2, <1>5, <1>6, <1>7

\* The smaller and the larger are operands; bit operations are Python's.
LEMMA SelectionExact ==
  ASSUME NEW a \in Word, NEW b \in Word
  PROVE  /\ Alu2Value("MIN", a, b) \in {a, b}
         /\ Alu2Value("MIN", a, b) <= a /\ Alu2Value("MIN", a, b) <= b
         /\ Alu2Value("MAX", a, b) \in {a, b}
         /\ Alu2Value("MAX", a, b) >= a /\ Alu2Value("MAX", a, b) >= b
         /\ Congruent(Alu2Value("AND", a, b), BitAnd(a, b))
         /\ Congruent(Alu2Value("OR", a, b), BitOr(a, b))
         /\ Congruent(Alu2Value("XOR", a, b), BitXor(a, b))
<1>1. a \in Int /\ b \in Int
  BY WordsAreSmall
<1>2. Congruent(Wrap(BitAnd(a, b)), BitAnd(a, b)) /\ Congruent(Wrap(BitOr(a, b)), BitOr(a, b))
      /\ Congruent(Wrap(BitXor(a, b)), BitXor(a, b))
  BY BitsAssumption, WrapCongruent
<1>3. /\ Alu2Value("AND", a, b) = Wrap(BitAnd(a, b)) /\ Alu2Value("OR", a, b) = Wrap(BitOr(a, b))
      /\ Alu2Value("XOR", a, b) = Wrap(BitXor(a, b))
  BY DEF Alu2Value
<1>4. /\ Alu2Value("MIN", a, b) = IF a < b THEN a ELSE b
      /\ Alu2Value("MAX", a, b) = IF a > b THEN a ELSE b
  BY DEF Alu2Value
<1> QED BY <1>1, <1>2, <1>3, <1>4

\* A comparison yields 1 or 0.
LEMMA ComparisonExact ==
  ASSUME NEW a, NEW b
  PROVE  /\ Holds(Alu2Value("EQ", a, b), a = b) /\ Holds(Alu2Value("NE", a, b), a # b)
         /\ Holds(Alu2Value("LT", a, b), a < b) /\ Holds(Alu2Value("LE", a, b), a <= b)
         /\ Holds(Alu2Value("GT", a, b), a > b) /\ Holds(Alu2Value("GE", a, b), a >= b)
BY DEF Alu2Value, IsTrue, Holds

\* The cell an instruction writes holds the value it computed.
LEMMA WrittenValue ==
  ASSUME IInv, status = "running", NEW cell \in DOMAIN mem, NEW value, Write(cell, value)
  PROVE  mem'[cell] = value
<1>1. mem \in [0 .. prog.mem - 1 -> Word]
  BY DEF IInv, TypeOK
<1> QED BY <1>1 DEF Write

\* The result of each opcode of one or two operands and of the fixed-point
\* product, in every program, is the exact integer result reduced to a machine
\* word (replay.py:95, 365-405), at every word width.
THEOREM ArithmeticIsExact == Spec => ArithmeticIsExactThenWrapped
<1> DEFINE op == Ins.op
           v  == mem'[Ins.args[1]]
           a  == R(2)
           b  == R(3)
<1>1. ASSUME IInv, FixedMul PROVE ExactFixedMul
  <2>1. status = "running" /\ InProgram /\ Ins.op = "MULFX"
    BY <1>1 DEF FixedMul, Fetch
  <2>2. {Ins.args[1], Ins.args[2], Ins.args[3]} \subseteq DOMAIN mem
        /\ Ins.args[4] \in 0 .. WordBits - 1
    BY <1>1, <2>1, OperandsExist
  <2>3. a \in Word /\ b \in Word
    BY <1>1, <2>1, <2>2 DEF IInv, TypeOK, R
  <2>4. v = MulFx(a, b, Ins.args[4])
    BY <1>1, <2>1, <2>2, WrittenValue DEF FixedMul
  <2> QED BY <2>2, <2>3, <2>4, MulFxExact DEF ExactFixedMul
<1>2. ASSUME IInv, Binary, status' = "running" PROVE ExactBinary
  <2>1. status = "running" /\ InProgram /\ Ins.op \in Alu2
    BY <1>2 DEF Binary, Fetch
  <2>2. {Ins.args[1], Ins.args[2], Ins.args[3]} \subseteq DOMAIN mem
    BY <1>2, <2>1, OperandsExist
  <2>3. a \in Word /\ b \in Word
    BY <1>2, <2>1, <2>2 DEF IInv, TypeOK, R
  <2>4. ~Alu2Traps(op, b) /\ Write(Ins.args[1], Alu2Value(op, a, b))
    BY <1>2 DEF Binary, TrapIn, Trap
  <2>5. v = Alu2Value(op, a, b)
    BY <1>2, <2>1, <2>2, <2>4, WrittenValue
  <2>6. /\ op \in {"DIV", "MOD"} => b # 0
        /\ op \in {"SHL", "SHR"} => b \in 0 .. WordBits - 1
    BY <2>4 DEF Alu2Traps
  <2>7. CASE op \in {"ADD", "SUB", "MUL"}
    BY <2>3, <2>5, <2>7, SumExact DEF ExactBinary
  <2>8. CASE op \in {"DIV", "MOD"}
    BY <2>3, <2>5, <2>6, <2>8, DivisionExact DEF ExactBinary
  <2>9. CASE op \in {"SHL", "SHR"}
    BY <2>3, <2>5, <2>6, <2>9, ShiftExact DEF ExactBinary
  <2>10. CASE op \in {"MIN", "MAX", "AND", "OR", "XOR"}
    BY <2>3, <2>5, <2>10, SelectionExact DEF ExactBinary
  <2>11. CASE op \in {"EQ", "NE", "LT", "LE", "GT", "GE"}
    BY <2>5, <2>11, ComparisonExact DEF ExactBinary
  <2> QED BY <2>1, <2>7, <2>8, <2>9, <2>10, <2>11 DEF Alu2
<1>3. ASSUME IInv, Unary PROVE ExactUnary
  <2>1. status = "running" /\ InProgram /\ Ins.op \in Alu1
    BY <1>3 DEF Unary, Fetch
  <2>2. {Ins.args[1], Ins.args[2]} \subseteq DOMAIN mem
    BY <1>3, <2>1, OperandsExist
  <2>3. a \in Word
    BY <1>3, <2>1, <2>2 DEF IInv, TypeOK, R
  <2>4. v = Alu1Value(op, a)
    BY <1>3, <2>1, <2>2, WrittenValue DEF Unary
  <2> QED BY <2>1, <2>3, <2>4, UnaryExact DEF ExactUnary, Alu1
<1>4. IInv /\ [Next]_vars => [ExactStep]_vars
  BY <1>1, <1>2, <1>3 DEF ExactStep
<1> QED BY <1>4, Invariance, PTL DEF Spec, ArithmeticIsExactThenWrapped
=============================================================================
