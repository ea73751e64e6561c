------------------------- MODULE CappedReplayProofs -------------------------
(***************************************************************************)
(* That a step cap changes nothing but where a call of run_counted stops.  *)
(* The argument: what one instruction does is a function of the machine's  *)
(* configuration, so there is one path of configurations from the loaded   *)
(* memory on, both calls are on it at all times, each as far along as it   *)
(* has retired steps, and only the last point of the path is not running.  *)
(***************************************************************************)
EXTENDS CappedReplay, TLAPS

At(st, why, cells, at) == [status |-> st, reason |-> why, mem |-> cells, pc |-> at]

\* What one retired instruction of program p makes of a machine that is at c.
\* Nothing else of the call has a say in it.
After(p, c) ==
  LET ins == p.code[c.pc + 1]
      a == ins.args
      Reg(k) == c.mem[a[k]]
      Jump(target) == At(c.status, c.reason, c.mem, target)
      Put(cell, value) == At(c.status, c.reason, [c.mem EXCEPT ![cell] = value], c.pc + 1)
      Fault(why) == At("trapped", why, c.mem, c.pc + 1)
  IN  IF c.pc \notin 0 .. Len(p.code) - 1 THEN At("trapped", "pc", c.mem, c.pc)
      ELSE CASE ins.op = "HALT" -> At("halted", c.reason, c.mem, c.pc + 1)
             [] ins.op = "LOADC" -> Put(a[1], p.consts[a[2] + 1])
             [] ins.op \in Alu1 -> Put(a[1], Alu1Value(ins.op, Reg(2)))
             [] ins.op = "LOAD" -> IF Reg(2) \in DOMAIN c.mem THEN Put(a[1], c.mem[Reg(2)])
                                   ELSE Fault("load")
             [] ins.op = "STORE" -> IF Reg(1) \in DOMAIN c.mem THEN Put(Reg(1), Reg(2))
                                    ELSE Fault("store")
             [] ins.op = "JMP" -> Jump(a[1])
             [] ins.op \in Jcc ->
                  Jump(IF (Reg(1) = 0) = (ins.op = "JMPZ") THEN a[2] ELSE c.pc + 1)
             [] ins.op = "SEL" -> Put(a[1], IF Reg(2) # 0 THEN Reg(3) ELSE Reg(4))
             [] ins.op = "MULFX" -> Put(a[1], MulFx(Reg(2), Reg(3), a[4]))
             [] ins.op \in Alu2 ->
                  IF Alu2Traps(ins.op, Reg(3)) THEN Fault("arithmetic")
                  ELSE Put(a[1], Alu2Value(ins.op, Reg(2), Reg(3)))

\* Traps of an instruction, as opposed to those raised before one.
Faults == {"pc", "load", "store", "arithmetic"}

\* Every step a call makes: from configuration c with s steps charged to d with
\* t charged, under a budget, for arguments that are refused or not.
Moves(p, loaded, refused, budget, c, s, d, t) ==
  \/ /\ c.status = "called" /\ refused
     /\ d = At("trapped", "refused", c.mem, c.pc) /\ t = s
  \/ /\ c.status = "called" /\ ~refused
     /\ d = At("running", c.reason, loaded, c.pc) /\ t = s
  \/ /\ c.status = "running" /\ s >= budget
     /\ d = At("trapped", "budget", c.mem, c.pc) /\ t = s
  \/ /\ c.status = "running" /\ s < budget
     /\ d = After(p, c) /\ t = s + 1
     /\ \/ d.status \in {"running", "halted"} /\ d.reason = c.reason
        \/ d.status = "trapped" /\ d.reason \in Faults

\* What status, reason and steps say of one another.
Coherent(refused, budget, c, s) ==
  /\ c.status \in {"called", "running", "halted", "trapped"}
  /\ s \in Nat
  /\ c.status = "called" => s = 0 /\ c.pc = 0
  /\ c.status # "trapped" => c.reason = "none"
  /\ c.status = "trapped" => c.reason \in {"refused", "budget"} \cup Faults
  /\ c.reason = "refused" => refused /\ s = 0
  /\ c.status # "called" /\ c.reason # "refused" => ~refused /\ s <= budget
  /\ c.reason = "budget" => s = budget

\* T is the path program p takes from the loaded memory: it runs up to n.
Path(p, loaded, T, n) ==
  /\ T[0] = At("running", "none", loaded, 0)
  /\ \A i \in 0 .. n - 1 : T[i].status = "running" /\ T[i + 1] = After(p, T[i])

\* A call that has retired s steps is s steps along the path.  Running out of
\* budget is not a point of it.
On(T, n, c, s) ==
  /\ s \in 0 .. n
  /\ c.status # "called" /\ c.reason \notin {"refused", "budget"} => T[s] = c
  /\ c.reason = "budget" => T[s].status = "running"

-----------------------------------------------------------------------------
(* The path, for any program and any call.                                 *)

\* The path can be followed one step further from wherever it still runs.
LEMMA PathGoesOn ==
  ASSUME NEW p, NEW loaded, NEW T, NEW n \in Nat, NEW s \in 0 .. n,
         Path(p, loaded, T, n), T[s].status = "running"
  PROVE  \E U : \E m \in Nat : /\ m >= n /\ s + 1 <= m
                                 /\ Path(p, loaded, U, m)
                                 /\ \A i \in 0 .. n : U[i] = T[i]
                                 /\ U[s + 1] = After(p, T[s])
<1>1. CASE s < n
  <2>1. s \in 0 .. n - 1
    BY <1>1
  <2>2. T[s + 1] = After(p, T[s])
    BY <2>1 DEF Path
  <2> QED BY <1>1, <2>2
<1>2. CASE s = n
  <2> DEFINE U == [i \in 0 .. n + 1 |-> IF i <= n THEN T[i] ELSE After(p, T[n])]
  <2>1. (\A i \in 0 .. n : U[i] = T[i]) /\ U[n + 1] = After(p, T[n])
    OBVIOUS
  <2> HIDE DEF U
  <2>2. U[0] = T[0]
    BY <2>1
  <2>3. ASSUME NEW i \in 0 .. n
        PROVE  U[i].status = "running" /\ U[i + 1] = After(p, U[i])
    <3>1. CASE i = n
      BY <1>2, <2>1, <3>1
    <3>2. CASE i < n
      <4>1. i \in 0 .. n - 1 /\ i + 1 \in 0 .. n
        BY <3>2
      <4> QED BY <2>1, <4>1 DEF Path
    <3> QED BY <3>1, <3>2
  <2>4. Path(p, loaded, U, n + 1)
    BY <2>2, <2>3 DEF Path
  <2> QED BY <1>2, <2>1, <2>4
<1> QED BY <1>1, <1>2

\* A call stays on the path when the path is extended.
LEMMA StaysOn ==
  ASSUME NEW T, NEW n \in Nat, NEW U, NEW m \in Nat, m >= n,
         \A i \in 0 .. n : U[i] = T[i],
         NEW c, NEW s, On(T, n, c, s)
  PROVE  On(U, m, c, s)
<1>1. s \in 0 .. n /\ s \in 0 .. m /\ U[s] = T[s]
  BY DEF On
<1> QED BY <1>1 DEF On

\* A step keeps the counters coherent.
LEMMA MovesCoherently ==
  ASSUME NEW p, NEW loaded, NEW refused, NEW budget, NEW c, NEW s, NEW d, NEW t,
         ~refused => budget \in Nat,
         Coherent(refused, budget, c, s), Moves(p, loaded, refused, budget, c, s, d, t)
  PROVE  Coherent(refused, budget, d, t)
<1>1. CASE c.status = "called"
  BY <1>1 DEF Moves, Coherent, At
<1>2. CASE c.status = "running" /\ s >= budget
  <2>1. d = At("trapped", "budget", c.mem, c.pc) /\ t = s
    BY <1>2 DEF Moves, Coherent
  <2>2. ~refused /\ s = budget
    BY <1>2 DEF Coherent
  <2> QED BY <1>2, <2>1, <2>2 DEF Coherent, At
<1>3. CASE c.status = "running" /\ ~(s >= budget)
  <2>1. /\ s < budget /\ t = s + 1
        /\ \/ d.status \in {"running", "halted"} /\ d.reason = c.reason
           \/ d.status = "trapped" /\ d.reason \in Faults
    BY <1>3 DEF Moves
  <2>2. ~refused /\ s \in Nat /\ budget \in Nat /\ c.reason = "none"
    BY <1>3 DEF Coherent
  <2> QED BY <2>1, <2>2 DEF Coherent, Faults
<1> QED BY <1>1, <1>2, <1>3 DEF Moves

\* A step of a call leads along the path, whose other points stay.
LEMMA MovesAlongThePath ==
  ASSUME NEW p, NEW loaded, NEW refused, NEW budget, NEW c, NEW s, NEW d, NEW t,
         NEW T, NEW n \in Nat,
         ~refused => budget \in Nat, Coherent(refused, budget, c, s),
         Moves(p, loaded, refused, budget, c, s, d, t),
         Path(p, loaded, T, n), On(T, n, c, s)
  PROVE  \E U : \E m \in Nat : /\ m >= n
                                 /\ Path(p, loaded, U, m)
                                 /\ \A i \in 0 .. n : U[i] = T[i]
                                 /\ On(U, m, d, t)
<1>1. CASE c.status = "called" \/ (c.status = "running" /\ s >= budget)
  <2>1. On(T, n, d, t)
    <3>1. CASE c.status = "called" /\ refused
      BY <3>1 DEF Moves, On, At
    <3>2. CASE c.status = "called" /\ ~refused
      <4>1. d = At("running", "none", loaded, 0) /\ t = 0
        BY <3>2 DEF Moves, Coherent
      <4> QED BY <4>1 DEF Path, On, At
    <3>3. CASE c.status = "running" /\ s >= budget
      <4>1. d = At("trapped", "budget", c.mem, c.pc) /\ t = s
        BY <3>3 DEF Moves, Coherent
      <4>2. T[s].status = "running"
        BY <3>3 DEF On, Coherent
      <4> QED BY <4>1, <4>2 DEF On, At
    <3> QED BY <1>1, <3>1, <3>2, <3>3
  <2> QED BY <2>1
<1>2. CASE c.status = "running" /\ ~(s >= budget)
  <2>1. /\ d = After(p, c) /\ t = s + 1
        /\ d.status # "called" /\ d.reason \notin {"refused", "budget"}
    BY <1>2 DEF Moves, Coherent, Faults
  <2>2. s \in 0 .. n /\ T[s] = c
    BY <1>2 DEF On, Coherent
  <2>3. PICK U : \E m \in Nat : /\ m >= n /\ s + 1 <= m
                                /\ Path(p, loaded, U, m)
                                /\ \A i \in 0 .. n : U[i] = T[i]
                                /\ U[s + 1] = After(p, T[s])
    BY <1>2, <2>2, PathGoesOn
  <2>4. PICK m \in Nat : /\ m >= n /\ s + 1 <= m
                         /\ Path(p, loaded, U, m)
                         /\ \A i \in 0 .. n : U[i] = T[i]
                         /\ U[s + 1] = After(p, T[s])
    BY <2>3
  <2>5. On(U, m, d, t)
    BY <2>1, <2>2, <2>4 DEF On
  <2> QED BY <2>4, <2>5
<1> QED BY <1>1, <1>2 DEF Moves

-----------------------------------------------------------------------------
(* The two machines are such calls.                                        *)

\* Where the call and its twin are.
CallAt == At(status, reason, mem, pc)
FreeAt == At(freeStatus, freeReason, freeMem, freePc)

Loaded == LoadedMem(call.prog, call.inputs)

\* What the twin is called with: it differs in nothing but the cap.
Twin == [call EXCEPT !.cap = NoCap]

\* Both calls are coherent and on one path, each as far along as it has charged.
IInv ==
  /\ call \in Calls
  /\ Coherent(Refused, Budget, CallAt, steps)
  /\ Coherent(Refused, Free!Budget, FreeAt, freeSteps)
  /\ \E T : \E n \in Nat : /\ Path(call.prog, Loaded, T, n)
                           /\ On(T, n, CallAt, steps)
                           /\ On(T, n, FreeAt, freeSteps)

\* The twin runs the same program on the same inputs.
LEMMA Twins ==
  ASSUME call \in Calls
  PROVE  /\ call.cap \in Nat \cup {NoCap}
         /\ Twin.prog = call.prog /\ Twin.inputs = call.inputs /\ Twin.cap = NoCap
         /\ Free!prog = call.prog
<1>1. call \in [prog : JsonProgram, inputs : Seq(JsonValue), cap : Nat \cup {NoCap}]
  BY CallAssumption
<1> QED BY <1>1 DEF Twin, Free!prog

\* Both instances of the machine compute alike.
LEMMA SameArithmetic ==
  /\ Free!Alu1 = Alu1 /\ Free!Alu2 = Alu2 /\ Free!Jcc = Jcc
  /\ \A op, a : Free!Alu1Value(op, a) = Alu1Value(op, a)
  /\ \A op, a, b : Free!Alu2Value(op, a, b) = Alu2Value(op, a, b)
  /\ \A op, b : Free!Alu2Traps(op, b) <=> Alu2Traps(op, b)
  /\ \A a, b, frac : Free!MulFx(a, b, frac) = MulFx(a, b, frac)
BY DEF Alu1, Free!Alu1, Alu2, Free!Alu2, Jcc, Free!Jcc,
       Alu1Value, Free!Alu1Value, Alu2Value, Free!Alu2Value,
       Alu2Traps, Free!Alu2Traps, MulFx, Free!MulFx,
       Wrap, Free!Wrap, Modulus, Free!Modulus,
       TruncDiv, Free!TruncDiv, Abs, Free!Abs, IsTrue, Free!IsTrue

\* They refuse the same arguments, and start from the same memory.
LEMMA SameArguments ==
  ASSUME call \in Calls
  PROVE  /\ Free!Refused <=> Refused
         /\ Free!LoadedMem(Twin.prog, Twin.inputs) = Loaded
<1>1. /\ \A v, size : Free!ValidWindow(v, size) <=> ValidWindow(v, size)
      /\ Free!Word = Word /\ Free!Ops = Ops
      /\ \A op : Free!Arity(op) = Arity(op)
  BY SameArithmetic DEF Free!ValidWindow, ValidWindow, Free!Word, Word,
     Free!Ops, Ops, Free!Arity, Arity
<1>2. \A ins, p : Free!ValidOperands(ins, p) <=> ValidOperands(ins, p)
  BY SameArithmetic DEF Free!ValidOperands, ValidOperands
<1>3. \A ins, p : Free!ValidInstruction(ins, p) <=> ValidInstruction(ins, p)
  BY <1>1, <1>2 DEF Free!ValidInstruction, ValidInstruction
<1>4. \A p : Free!Validate(p) <=> Validate(p)
  BY <1>1, <1>3 DEF Free!Validate, Validate
<1>5. \A p, inputs : Free!ValidInputs(p, inputs) <=> ValidInputs(p, inputs)
  BY <1>1 DEF Free!ValidInputs, ValidInputs
<1>6. Free!Refused <=> Refused
  BY <1>4, <1>5, Twins DEF Free!Refused, Refused, prog, Twin
<1>7. Free!LoadedMem(Twin.prog, Twin.inputs) = Loaded
  BY Twins DEF Loaded, Free!LoadedMem, LoadedMem, Free!Cells, Cells
<1> QED BY <1>6, <1>7

\* The budgets of a program that is not refused: its own, and the lower of
\* that and the cap.
LEMMA Budgets ==
  ASSUME call \in Calls, ~Refused
  PROVE  /\ Free!Budget = call.prog.steps /\ Free!Budget \in Nat
         /\ Budget \in Nat /\ Budget <= Free!Budget
         /\ Budget < Free!Budget => call.cap # NoCap /\ Budget = call.cap
<1>1. call.prog.steps \in Nat
  BY DEF Refused, Validate, prog
<1>2. Free!Budget = call.prog.steps
  BY Twins DEF Free!Budget, Twin
<1> QED BY <1>1, <1>2, Twins, LimitAssumption DEF Budget, prog

-----------------------------------------------------------------------------
(* Every step of either machine is a move of such a call.                  *)

\* An instruction, whichever it is, does what After says.
LEMMA CallRetires ==
  ASSUME Execute \/ PcLeft, reason = "none"
  PROVE  /\ status = "running" /\ steps < Budget
         /\ CallAt' = After(call.prog, CallAt) /\ steps' = steps + 1
         /\ \/ status' \in {"running", "halted"} /\ reason' = reason
            \/ status' = "trapped" /\ reason' \in Faults
<1> USE DEF CallAt, At, After, Faults, Fetch, Ins, InProgram,
            prog, R, Alu1, Alu2, Jcc
<1>1. CASE PcLeft
  BY <1>1 DEF PcLeft, Trap
<1>2. CASE Halt
  BY <1>2 DEF Halt
<1>3. CASE LoadC
  BY <1>3 DEF LoadC, Write
<1>4. CASE Unary
  BY <1>4, ZenonT(30) DEF Unary, Write
<1>5. CASE Load
  BY <1>5, ZenonT(30) DEF Load, Write, TrapIn, Trap
<1>6. CASE Store
  BY <1>6, ZenonT(30) DEF Store, Write, TrapIn, Trap
<1>7. CASE Jmp
  BY <1>7 DEF Jmp, Goto
<1>8. CASE CondJmp
  BY <1>8, ZenonT(30) DEF CondJmp, Goto
<1>9. CASE Sel
  BY <1>9, ZenonT(30) DEF Sel, Write
<1>10. CASE FixedMul
  BY <1>10, ZenonT(30) DEF FixedMul, Write
<1>11. CASE Binary
  BY <1>11, ZenonT(30) DEF Binary, Write, TrapIn, Trap
<1> QED BY <1>1, <1>2, <1>3, <1>4, <1>5, <1>6, <1>7, <1>8, <1>9, <1>10, <1>11 DEF Execute

\* So does one of the twin, of the same program.
LEMMA TwinRetires ==
  ASSUME call \in Calls, Free!Execute \/ Free!PcLeft, freeReason = "none"
  PROVE  /\ freeStatus = "running" /\ freeSteps < Free!Budget
         /\ FreeAt' = After(call.prog, FreeAt) /\ freeSteps' = freeSteps + 1
         /\ \/ freeStatus' \in {"running", "halted"} /\ freeReason' = freeReason
            \/ freeStatus' = "trapped" /\ freeReason' \in Faults
<1> USE DEF FreeAt, At, After, Faults, Free!Fetch, Free!Ins, Free!InProgram,
            Free!R, Alu1, Alu2, Jcc
<1>0. Free!prog = call.prog
  BY Twins
<1> USE <1>0
<1>1. CASE Free!PcLeft
  BY <1>1, SameArithmetic DEF Free!PcLeft, Free!Trap
<1>2. CASE Free!Halt
  BY <1>2, SameArithmetic DEF Free!Halt
<1>3. CASE Free!LoadC
  BY <1>3, SameArithmetic DEF Free!LoadC, Free!Write
<1>4. CASE Free!Unary
  BY <1>4, SameArithmetic, ZenonT(30) DEF Free!Unary, Free!Write
<1>5. CASE Free!Load
  BY <1>5, SameArithmetic, ZenonT(30) DEF Free!Load, Free!Write, Free!TrapIn, Free!Trap
<1>6. CASE Free!Store
  BY <1>6, SameArithmetic, ZenonT(30) DEF Free!Store, Free!Write, Free!TrapIn, Free!Trap
<1>7. CASE Free!Jmp
  BY <1>7, SameArithmetic DEF Free!Jmp, Free!Goto
<1>8. CASE Free!CondJmp
  BY <1>8, SameArithmetic DEF Free!CondJmp, Free!Goto
<1>9. CASE Free!Sel
  BY <1>9, SameArithmetic, ZenonT(30) DEF Free!Sel, Free!Write
<1>10. CASE Free!FixedMul
  BY <1>10, SameArithmetic, ZenonT(30) DEF Free!FixedMul, Free!Write
<1>11. CASE Free!Binary
  <2>1. freeStatus = "running" /\ freeSteps < Free!Budget /\ freeSteps' = freeSteps + 1
    BY <1>11 DEF Free!Binary
  <2>2. CASE Free!Alu2Traps(Free!Ins.op, Free!R(3))
    BY <1>11, <2>2, SameArithmetic, ZenonT(30) DEF Free!Binary, Free!TrapIn, Free!Trap
  <2>3. CASE ~Free!Alu2Traps(Free!Ins.op, Free!R(3))
    <3> DEFINE op == Free!Ins.op
               value == Alu2Value(op, Free!R(2), Free!R(3))
               written == [freeMem EXCEPT ![Free!Ins.args[1]] = value]
    <3>1. op \in Alu2 /\ Free!InProgram /\ ~Alu2Traps(op, Free!R(3))
      BY <1>11, <2>3, SameArithmetic DEF Free!Binary
    <3>2. After(call.prog, FreeAt) = At(freeStatus, freeReason, written, freePc + 1)
      BY <3>1, ZenonT(30)
    <3>3. Free!Write(Free!Ins.args[1], value)
      BY <1>11, <2>3, SameArithmetic DEF Free!Binary
    <3>4. FreeAt' = At(freeStatus, freeReason, written, freePc + 1)
      BY <3>3 DEF Free!Write
    <3> QED BY <2>1, <3>2, <3>3, <3>4 DEF Free!Write
  <2> QED BY <2>2, <2>3
<1> QED BY <1>1, <1>2, <1>3, <1>4, <1>5, <1>6, <1>7, <1>8, <1>9, <1>10, <1>11 DEF Free!Execute

\* Every step of the call is a move of a call with its budget.
LEMMA CallMoves ==
  ASSUME IInv, Next
  PROVE  Moves(call.prog, Loaded, Refused, Budget,
               CallAt, steps, CallAt', steps')
<1>1. CASE Refuse
  BY <1>1 DEF Refuse, Trap, Moves, CallAt, At
<1>2. CASE Start
  BY <1>2 DEF Start, prog, Loaded, Moves, CallAt, At
<1>3. CASE BudgetExhausted
  BY <1>3 DEF BudgetExhausted, Trap, Moves, CallAt, At
<1>4. CASE PcLeft \/ Execute
  <2>1. status = "running"
    BY <1>4 DEF PcLeft, Execute, Halt, LoadC, Unary, Load,
       Store, Jmp, CondJmp, Sel, FixedMul, Binary, Fetch
  <2>2. reason = "none"
    BY <2>1 DEF IInv, Coherent, CallAt, At
  <2> QED BY <1>4, <2>2, CallRetires DEF Moves, CallAt, At
<1> QED BY <1>1, <1>2, <1>3, <1>4 DEF Next

\* Every step of the twin is a move of the same call with another budget.
LEMMA TwinMoves ==
  ASSUME IInv, Free!Next
  PROVE  Moves(call.prog, Loaded, Refused, Free!Budget,
               FreeAt, freeSteps, FreeAt', freeSteps')
<1>0. call \in Calls
  BY DEF IInv
<1>1. CASE Free!Refuse
  BY <1>0, <1>1, SameArguments DEF Free!Refuse, Free!Trap, Moves, FreeAt, At
<1>2. CASE Free!Start
  BY <1>0, <1>2, SameArguments DEF Free!Start, Free!prog, Twin, Moves, FreeAt, At
<1>3. CASE Free!BudgetExhausted
  BY <1>3 DEF Free!BudgetExhausted, Free!Trap, Moves, FreeAt, At
<1>4. CASE Free!PcLeft \/ Free!Execute
  <2>1. freeStatus = "running"
    BY <1>4 DEF Free!PcLeft, Free!Execute, Free!Halt, Free!LoadC, Free!Unary,
       Free!Load, Free!Store, Free!Jmp, Free!CondJmp, Free!Sel, Free!FixedMul,
       Free!Binary, Free!Fetch
  <2>2. freeReason = "none"
    BY <2>1 DEF IInv, Coherent, FreeAt, At
  <2> QED BY <1>0, <1>4, <2>2, TwinRetires DEF Moves, FreeAt, At
<1> QED BY <1>1, <1>2, <1>3, <1>4 DEF Free!Next

\* The call keeps its arguments.
LEMMA SameCall == Next => call' = call
BY DEF Next, Refuse, Start, BudgetExhausted, PcLeft, Execute, Halt, LoadC, Unary, Load,
   Store, Jmp, CondJmp, Sel, FixedMul, Binary, Fetch

-----------------------------------------------------------------------------
(* The invariant.                                                          *)

\* Both calls start at the head of the path.
LEMMA InitIInv == PairInit => IInv
<1> SUFFICES ASSUME PairInit PROVE IInv
  OBVIOUS
<1>1. /\ CallAt = At("called", "none", <<>>, 0) /\ steps = 0
      /\ FreeAt = At("called", "none", <<>>, 0) /\ freeSteps = 0
  BY DEF PairInit, Init, Called, Free!Called, CallAt, FreeAt
<1>2. call \in Calls
  BY DEF PairInit, Init
<1>3. \A refused, budget : /\ Coherent(refused, budget, CallAt, steps)
                           /\ Coherent(refused, budget, FreeAt, freeSteps)
  BY <1>1 DEF Coherent, At
<1>4. PICK T : T = [i \in {0} |-> At("running", "none", Loaded, 0)]
  OBVIOUS
<1>5. Path(call.prog, Loaded, T, 0) /\ On(T, 0, CallAt, steps) /\ On(T, 0, FreeAt, freeSteps)
  BY <1>1, <1>4 DEF Path, On, At
<1> QED BY <1>2, <1>3, <1>5 DEF IInv

\* The machine that steps stays on the path, and leaves the other where it is.
LEMMA CallStep == ASSUME IInv, Next, UNCHANGED freeVars PROVE IInv'
<1>1. /\ call' = call
      /\ FreeAt' = FreeAt /\ freeSteps' = freeSteps
  BY SameCall DEF freeVars, FreeAt, At
<1>2. /\ (call \in Calls)' /\ Loaded' = Loaded /\ Refused' = Refused
      /\ (Budget)' = Budget /\ (Free!Budget)' = Free!Budget
  BY <1>1 DEF IInv, Loaded, Refused, prog, Budget, Free!Budget, Free!prog
<1>3. ~Refused => Budget \in Nat
  BY Budgets DEF IInv
<1>4. Coherent(Refused, Budget, CallAt', steps')
  BY <1>3, CallMoves, MovesCoherently DEF IInv
<1>5. PICK T : \E n \in Nat : /\ Path(call.prog, Loaded, T, n)
                              /\ On(T, n, CallAt, steps)
                              /\ On(T, n, FreeAt, freeSteps)
  BY DEF IInv
<1>6. PICK n \in Nat : /\ Path(call.prog, Loaded, T, n)
                       /\ On(T, n, CallAt, steps)
                       /\ On(T, n, FreeAt, freeSteps)
  BY <1>5
<1>7. PICK U : \E m \in Nat : /\ m >= n
                              /\ Path(call.prog, Loaded, U, m)
                              /\ \A i \in 0 .. n : U[i] = T[i]
                              /\ On(U, m, CallAt', steps')
  BY <1>3, <1>6, CallMoves, MovesAlongThePath DEF IInv
<1>8. PICK m \in Nat : /\ m >= n
                       /\ Path(call.prog, Loaded, U, m)
                       /\ \A i \in 0 .. n : U[i] = T[i]
                       /\ On(U, m, CallAt', steps')
  BY <1>7
<1>9. On(U, m, FreeAt, freeSteps)
  BY <1>6, <1>8, StaysOn
<1>10. Coherent(Refused, Free!Budget, FreeAt', freeSteps')
  BY <1>1 DEF IInv
<1>11. Path(call'.prog, Loaded', U, m) /\ On(U, m, CallAt', steps') /\ On(U, m, FreeAt', freeSteps')
  BY <1>1, <1>2, <1>8, <1>9
<1> QED BY <1>2, <1>4, <1>10, <1>11 DEF IInv

\* So does the twin.
LEMMA TwinStep == ASSUME IInv, Free!Next, UNCHANGED vars PROVE IInv'
<1>1. /\ call' = call
      /\ CallAt' = CallAt /\ steps' = steps
  BY SameCall DEF vars, CallAt, At
<1>2. /\ (call \in Calls)' /\ Loaded' = Loaded /\ Refused' = Refused
      /\ (Budget)' = Budget /\ (Free!Budget)' = Free!Budget
  BY <1>1 DEF IInv, Loaded, Refused, prog, Budget, Free!Budget, Free!prog
<1>3. ~Refused => Free!Budget \in Nat
  BY Budgets DEF IInv
<1>4. Coherent(Refused, Free!Budget, FreeAt', freeSteps')
  BY <1>3, TwinMoves, MovesCoherently DEF IInv
<1>5. PICK T : \E n \in Nat : /\ Path(call.prog, Loaded, T, n)
                              /\ On(T, n, CallAt, steps)
                              /\ On(T, n, FreeAt, freeSteps)
  BY DEF IInv
<1>6. PICK n \in Nat : /\ Path(call.prog, Loaded, T, n)
                       /\ On(T, n, CallAt, steps)
                       /\ On(T, n, FreeAt, freeSteps)
  BY <1>5
<1>7. PICK U : \E m \in Nat : /\ m >= n
                              /\ Path(call.prog, Loaded, U, m)
                              /\ \A i \in 0 .. n : U[i] = T[i]
                              /\ On(U, m, FreeAt', freeSteps')
  BY <1>3, <1>6, TwinMoves, MovesAlongThePath DEF IInv
<1>8. PICK m \in Nat : /\ m >= n
                       /\ Path(call.prog, Loaded, U, m)
                       /\ \A i \in 0 .. n : U[i] = T[i]
                       /\ On(U, m, FreeAt', freeSteps')
  BY <1>7
<1>9. On(U, m, CallAt, steps)
  BY <1>6, <1>8, StaysOn
<1>10. Coherent(Refused, Budget, CallAt', steps')
  BY <1>1 DEF IInv
<1>11. Path(call'.prog, Loaded', U, m) /\ On(U, m, CallAt', steps') /\ On(U, m, FreeAt', freeSteps')
  BY <1>1, <1>2, <1>8, <1>9
<1> QED BY <1>2, <1>4, <1>10, <1>11 DEF IInv

\* And a step of neither.
LEMMA StutterStep == ASSUME IInv, UNCHANGED <<vars, freeVars>> PROVE IInv'
<1>1. /\ call' = call /\ CallAt' = CallAt /\ steps' = steps
      /\ FreeAt' = FreeAt /\ freeSteps' = freeSteps
  BY DEF vars, freeVars, CallAt, FreeAt, At
<1>2. /\ (call \in Calls)' /\ Loaded' = Loaded /\ Refused' = Refused
      /\ (Budget)' = Budget /\ (Free!Budget)' = Free!Budget
  BY <1>1 DEF IInv, Loaded, Refused, prog, Budget, Free!Budget, Free!prog
<1> QED BY <1>1, <1>2 DEF IInv

\* A call beside its twin is a call: what ReplayMachineProofs shows of Spec holds
\* of it.
THEOREM CallAlone == PairSpec => Spec
<1>1. PairInit => Init
  BY DEF PairInit
<1>2. [PairNext]_<<vars, freeVars>> => [Next]_vars
  BY DEF PairNext
<1> QED BY <1>1, <1>2, PTL DEF PairSpec, Spec

\* Two calls with the same arguments but for the cap are on one path.
THEOREM OnePath == PairSpec => []IInv
<1>1. IInv /\ [PairNext]_<<vars, freeVars>> => IInv'
  BY CallStep, TwinStep, StutterStep DEF PairNext
<1> QED BY <1>1, InitIInv, PTL DEF PairSpec

\* Whenever a call, capped or not, and its uncapped twin have retired equally
\* many instructions, they are at the same instruction with the same memory:
\* for every program, cap and word width (replay.py:282).
THEOREM TheCapIsNoInput == PairSpec => []SameComputation
<1>1. ASSUME IInv, status = "running", freeStatus = "running", steps = freeSteps
      PROVE  pc = freePc /\ mem = freeMem
  <2>1. PICK T : \E n \in Nat : On(T, n, CallAt, steps) /\ On(T, n, FreeAt, freeSteps)
    BY <1>1 DEF IInv
  <2>2. CallAt.reason = "none" /\ FreeAt.reason = "none"
    BY <1>1 DEF IInv, Coherent, CallAt, FreeAt, At
  <2>3. T[steps] = CallAt /\ T[freeSteps] = FreeAt
    BY <1>1, <2>1, <2>2 DEF On, CallAt, FreeAt, At
  <2>4. CallAt = FreeAt
    BY <1>1, <2>3
  <2> QED BY <2>4 DEF CallAt, FreeAt, At
<1>2. IInv => SameComputation
  BY <1>1 DEF SameComputation
<1> QED BY <1>2, OnePath, PTL

\* A point of the path that is not running is its last.
LEMMA EndIsLast ==
  ASSUME NEW p, NEW loaded, NEW T, NEW n \in Nat, Path(p, loaded, T, n),
         NEW s \in 0 .. n, T[s].status # "running"
  PROVE  s = n
<1>1. CASE s \in 0 .. n - 1
  BY <1>1 DEF Path
<1>2. CASE s \notin 0 .. n - 1
  BY <1>2
<1> QED BY <1>1, <1>2

\* An executed call that is over either ran out of budget at a point where it
\* would have gone on, or is at the end of the path.
LEMMA WhereItEnds ==
  ASSUME NEW p, NEW loaded, NEW T, NEW n \in Nat, Path(p, loaded, T, n),
         NEW refused, NEW budget, NEW c, NEW s,
         Coherent(refused, budget, c, s), On(T, n, c, s),
         c.status \in {"halted", "trapped"}, ~refused
  PROVE  /\ s <= budget /\ s \in 0 .. n
         /\ c.reason # "refused"
         /\ c.reason = "budget" => s = budget /\ T[s].status = "running" /\ c.status = "trapped"
         /\ c.reason # "budget" => s = n /\ T[s] = c
<1>1. s \in 0 .. n /\ c.reason # "refused" /\ s <= budget
  BY DEF Coherent, On
<1>2. c.reason # "budget" => T[s] = c
  BY <1>1 DEF On
<1> QED BY <1>1, <1>2, EndIsLast DEF Coherent, On

\* When both are over they agree on everything a caller sees, or the call had a
\* cap, charged exactly that, and its twin went on past it: a probe
\* never mistakes a slow program for a different one (replay.py:297-301).
THEOREM TheCapOnlyTruncates == PairSpec => []CapOnlyTruncates
<1>1. ASSUME IInv, Done, Free!Done
      PROVE  \/ /\ status = freeStatus /\ reason = freeReason /\ steps = freeSteps
                /\ status = "halted" => Output = Free!Output
             \/ /\ reason = "budget" /\ call.cap # NoCap /\ steps = call.cap
                /\ freeSteps > call.cap
  <2>0. /\ CallAt.status = status /\ CallAt.reason = reason /\ CallAt.mem = mem
        /\ FreeAt.status = freeStatus /\ FreeAt.reason = freeReason /\ FreeAt.mem = freeMem
        /\ status \in {"halted", "trapped"} /\ freeStatus \in {"halted", "trapped"}
    BY <1>1 DEF CallAt, FreeAt, At, Done, Free!Done
  <2>1. CASE Refused
    <3>1. /\ reason = "refused" /\ status = "trapped" /\ steps = 0
          /\ freeReason = "refused" /\ freeStatus = "trapped" /\ freeSteps = 0
      BY <1>1, <2>0, <2>1 DEF IInv, Coherent
    <3> QED BY <3>1
  <2>2. CASE ~Refused
    <3>1. /\ Budget \in Nat /\ Free!Budget \in Nat /\ Budget <= Free!Budget
          /\ Budget < Free!Budget => call.cap # NoCap /\ Budget = call.cap
      BY <1>1, <2>2, Budgets DEF IInv
    <3>2. PICK T : \E n \in Nat : /\ Path(call.prog, Loaded, T, n)
                                  /\ On(T, n, CallAt, steps)
                                  /\ On(T, n, FreeAt, freeSteps)
      BY <1>1 DEF IInv
    <3>3. PICK n \in Nat : /\ Path(call.prog, Loaded, T, n)
                           /\ On(T, n, CallAt, steps)
                           /\ On(T, n, FreeAt, freeSteps)
      BY <3>2
    <3>4. /\ steps <= Budget /\ steps \in 0 .. n
          /\ reason = "budget" => /\ steps = Budget
                                  /\ T[steps].status = "running" /\ status = "trapped"
          /\ reason # "budget" => steps = n /\ T[steps] = CallAt
      BY <1>1, <2>0, <2>2, <3>1, <3>3, WhereItEnds DEF IInv
    <3>5. /\ freeSteps <= Free!Budget /\ freeSteps \in 0 .. n
          /\ freeReason = "budget" => /\ freeSteps = Free!Budget
                                      /\ T[freeSteps].status = "running" /\ freeStatus = "trapped"
          /\ freeReason # "budget" => freeSteps = n /\ T[freeSteps] = FreeAt
      BY <1>1, <2>0, <2>2, <3>3, WhereItEnds DEF IInv
    <3>6. CASE reason # "budget" /\ freeReason # "budget"
      <4>1. CallAt = FreeAt /\ steps = freeSteps
        BY <3>4, <3>5, <3>6
      <4>2. Free!Output = Output
        BY <1>1, <2>0, <4>1, Twins DEF IInv, Output, Free!Output, prog
      <4> QED BY <2>0, <4>1, <4>2
    <3>7. CASE reason # "budget" /\ freeReason = "budget"
      <4>1. freeSteps # steps
        BY <2>0, <3>4, <3>5, <3>7
      <4> QED BY <3>1, <3>4, <3>5, <3>7, <4>1
    <3>8. CASE reason = "budget" /\ freeReason = "budget"
      BY <3>1, <3>4, <3>5, <3>8
    <3>9. CASE reason = "budget" /\ freeReason # "budget"
      <4>1. freeSteps # steps
        BY <2>0, <3>4, <3>5, <3>9
      <4> QED BY <3>1, <3>4, <3>5, <3>9, <4>1
    <3> QED BY <3>6, <3>7, <3>8, <3>9
  <2> QED BY <2>1, <2>2
<1>2. IInv => CapOnlyTruncates
  BY <1>1 DEF CapOnlyTruncates
<1> QED BY <1>2, OnePath, PTL

=============================================================================
