----------------------------- MODULE RLCodegen -----------------------------
(***************************************************************************)
(* The code generator (src/obsign_verify/replayc/codegen.py): an inlined,  *)
(* folded program becomes a replay program.  Its optimisations are all     *)
(* here: the constant pool, destination-directed emission, static array    *)
(* cells, and one bounds check shared by the accesses it proves.           *)
(*                                                                         *)
(* An operand is a cell, a pooled constant or a label (both resolved when  *)
(* the body is complete), or an immediate.  The generator's fields are one *)
(* record g, passed from one piece of code to the next:                    *)
(*   code, pool      instructions so far; pooled values in first-use order *)
(*   temp, high      the next temporary, and the highest one ever used     *)
(*   covered         <<array, base>> -> offsets proven in range            *)
(*   labels, fors    where each label is; how many `for`s were met         *)
(*   cell, cost      what the last expression or statement left: where its *)
(*                   value is, its worst-case count of executed steps      *)
(*   map             the memory map, which is fixed before the body        *)
(***************************************************************************)
EXTENDS ReplayMachine, RLSyntax, FiniteSetsExt

Cell(c)  == [t |-> "cell", v |-> c]
Pool(v)  == [t |-> "pool", v |-> v]
Label(l) == [t |-> "label", v |-> l]
Imm(v)   == [t |-> "imm", v |-> v]

Unbounded == 0 - 1            \* a cost no one can state
NoWant == [t |-> "none", v |-> 0]
NoLoop == [brk |-> 0, cont |-> 0]

RECURSIVE Accesses(_), Ahead(_, _), GenExpr(_, _, _), GenBlock(_, _, _)

\* A value has its cell from its first use on.
UsePool(g, args) ==
  LET fresh == SelectSeq(args, LAMBDA a : a.t = "pool" /\ ~Contains(g.pool, a.v))
  IN  [g EXCEPT !.pool = @ \o Distinct(MapSeq(fresh, LAMBDA a : a.v))]

Emit(g, op, args) == [UsePool(g, args) EXCEPT !.code = Append(@, [op |-> op, args |-> args])]

EmitAll(g, instrs) == FoldLeft(LAMBDA h, ins : Emit(h, ins[1], ins[2]), g, instrs)

ConstCell(g, v) == [UsePool(g, <<Pool(v)>>) EXCEPT !.cell = Pool(v)]

Temp(g) == [g EXCEPT !.cell = Cell(g.temp), !.temp = @ + 1, !.high = Max({@, g.temp + 1})]
ResetTemps(g) == [g EXCEPT !.temp = g.map.temps]

Dest(g, want) == IF want = NoWant THEN Temp(g) ELSE [g EXCEPT !.cell = want]
EmitTo(g, op, operands) == Emit(g, op, <<g.cell>> \o operands)

Place(g, l) == [g EXCEPT !.labels = (l :> Len(g.code)) @@ @]
NewLabels(g) == Len(g.code) * 4      \* three labels of a statement follow this number

Uncover(g) == [g EXCEPT !.covered = <<>>]
DropCovered(g, x) ==
  [g EXCEPT !.covered = [k \in {j \in DOMAIN @ : j[2] # x} |-> g.covered[k]]]

-----------------------------------------------------------------------------
(* Bounds checks. *)

\* Trap unless base+lo >= 0 and base+hi < length: division by the flag.
RangeTrap(g, base, lo, hi, length) ==
  EmitAll(Temp(Temp(g)),
          << <<"GE", <<Cell(g.temp), base, Pool(-lo)>>>>,
             <<"LT", <<Cell(g.temp + 1), base, Pool(length - hi)>>>>,
             <<"AND", <<Cell(g.temp), Cell(g.temp), Cell(g.temp + 1)>>>>,
             <<"DIV", <<Cell(g.temp), Pool(1), Cell(g.temp)>>>> >>)

TrapNow(g) == EmitTo(Temp(g), "DIV", <<Pool(1), Pool(0)>>)

\* Where index cell + offset is; nothing to add at the bottom of memory.
Addr(g, cell, off) == IF off = 0 THEN [g EXCEPT !.cell = cell]
                      ELSE EmitTo(Temp(g), "ADD", <<cell, Pool(off)>>)

\* Accesses n, n+k, k+n and n-k share a check; other indices never do.
Shape(i) ==
  CASE i.k = "name" -> <<[base |-> i.id, off |-> 0]>>
    [] i.k = "binary" /\ i.id \in {"ADD", "SUB"} /\ i.sub[1].k = "name" /\ i.sub[2].k = "lit" ->
         <<[base |-> i.sub[1].id, off |-> IF i.id = "ADD" THEN i.sub[2].v ELSE -i.sub[2].v]>>
    [] i.k = "binary" /\ i.id = "ADD" /\ i.sub[1].k = "lit" /\ i.sub[2].k = "name" ->
         <<[base |-> i.sub[2].id, off |-> i.sub[1].v]>>
    [] OTHER -> <<>>

Accesses(e) ==
  IF e.k = "index" /\ Shape(e.sub[1]) # <<>> /\ Abs(Shape(e.sub[1])[1].off) <= MaxMem
  THEN <<[key |-> <<e.id, Shape(e.sub[1])[1].base>>, off |-> Shape(e.sub[1])[1].off]>>
  ELSE FlattenSeq(MapSeq(e.sub, Accesses))

AccessesOf(es) == FlattenSeq(MapSeq(es, Accesses))
Keys(es) == Distinct(MapSeq(AccessesOf(es), LAMBDA a : a.key))
Offsets(es, key) == {a.off : a \in {b \in ToSet(AccessesOf(es)) : b.key = key}}

Writes(s, x) == s.k \in {"let", "assign"} /\ s.id = x

\* The offsets used by the statements that follow on a straight line, up to
\* and including the first to overwrite the base.
Ahead(rest, key) ==
  IF rest = <<>> \/ Head(rest).k \notin Simple THEN {}
  ELSE Offsets(Head(rest).ex, key)
         \cup IF Writes(Head(rest), key[2]) THEN {} ELSE Ahead(Tail(rest), key)

\* One check for every group of accesses not proven yet, widened to the
\* accesses ahead and to what was proven before.
CoverKey(g, key, now, ahead) ==
  Once(IF key \in DOMAIN g.covered THEN g.covered[key] ELSE {}, LAMBDA proven :
  Once(now \cup ahead \cup proven, LAMBDA all :
    IF proven # {} /\ now \subseteq proven THEN g
    ELSE [RangeTrap(g, Cell(g.map.scalar[key[2]]), Min(all), Max(all), g.map.array[key[1]].len)
            EXCEPT !.covered = (key :> Min(all) .. Max(all)) @@ @]))

Cover(g, es, rest) ==
  FoldLeft(LAMBDA h, key : CoverKey(h, key, Offsets(es, key), Ahead(rest, key)), g, Keys(es))

Proven(g, arr, i) ==
  /\ Shape(i) # <<>>
  /\ <<arr, Shape(i)[1].base>> \in DOMAIN g.covered
  /\ Shape(i)[1].off \in g.covered[<<arr, Shape(i)[1].base>>]

-----------------------------------------------------------------------------
(* Expressions.  `want` is a cell the caller would take the value in; what *)
(* has a cell already is left there, and no instruction is emitted.        *)

Opcode(e) == IF e.k = "binary" THEN e.id
             ELSE [neg |-> "NEG", not |-> "NOT", min |-> "MIN", max |-> "MAX",
                   abs |-> "ABS", sel |-> "SEL", mulfx |-> "MULFX"][e.id]

GenExprs(g, es) ==
  FoldLeft(LAMBDA acc, e : Once(GenExpr(acc.g, e, NoWant), LAMBDA h :
             [g |-> h, cells |-> Append(acc.cells, h.cell)]),
           [g |-> g, cells |-> <<>>], es)

\* The address of element i of arr, after the check it still needs.
GenAddr(g, name, arr, i) ==
  IF Proven(g, name, i)
  THEN Addr(g, Cell(g.map.scalar[Shape(i)[1].base]), Shape(i)[1].off + arr.base)
  ELSE Once(GenExpr(g, i, NoWant), LAMBDA x :
         Addr(RangeTrap(x, x.cell, 0, 0, arr.len), x.cell, arr.base))

GenIndex(g, i, name, arr, want) ==
  CASE i.k = "lit" /\ i.v \in 0 .. arr.len - 1 -> [g EXCEPT !.cell = Cell(arr.base + i.v)]
    [] i.k = "lit" /\ i.v \notin 0 .. arr.len - 1 -> ConstCell(TrapNow(g), 0)
    [] OTHER -> Once(GenAddr(g, name, arr, i), LAMBDA a :
                  EmitTo(Dest(a, want), "LOAD", <<a.cell>>))

\* mulfx's last argument is no operand cell: it is the instruction's immediate.
GenExpr(g, e, want) ==
  CASE e.k = "lit"   -> ConstCell(g, e.v)
    [] e.k = "name"  -> [g EXCEPT !.cell = Cell(g.map.scalar[e.id])]
    [] e.k = "index" -> GenIndex(g, e.sub[1], e.id, g.map.array[e.id], want)
    [] e.k = "call" /\ e.id = "len" -> ConstCell(g, g.map.array[e.sub[1].id].len)
    [] OTHER ->
         Once(e.k = "call" /\ e.id = "mulfx", LAMBDA fixed :
         Once(GenExprs(g, IF fixed THEN Front(e.sub) ELSE e.sub), LAMBDA r :
           EmitTo(Dest(r.g, want), Opcode(e),
                  r.cells \o IF fixed THEN <<Imm(Last(e.sub).v)>> ELSE <<>>)))

\* The value of e in the cell dst.
GenInto(g, e, dst) ==
  Once(GenExpr(g, e, dst), LAMBDA h :
    IF h.cell = dst THEN h ELSE Emit(h, "MOV", <<dst, h.cell>>))

-----------------------------------------------------------------------------
(* Statements. *)

\* With the check already made the value is computed first, else the index is.
GenStoreAt(g, name, arr, i, val) ==
  CASE i.k = "lit" /\ i.v \in 0 .. arr.len - 1 -> GenInto(g, val, Cell(arr.base + i.v))
    [] i.k = "lit" /\ i.v \notin 0 .. arr.len - 1 -> GenExpr(TrapNow(g), val, NoWant)
    [] i.k # "lit" /\ Proven(g, name, i) ->
         Once(GenExpr(g, val, NoWant), LAMBDA v :
         Once(Addr(v, Cell(g.map.scalar[Shape(i)[1].base]), Shape(i)[1].off + arr.base), LAMBDA a :
           Emit(a, "STORE", <<a.cell, v.cell>>)))
    [] OTHER ->
         Once(GenExpr(g, i, NoWant), LAMBDA x :
         Once(GenExpr(RangeTrap(x, x.cell, 0, 0, arr.len), val, NoWant), LAMBDA v :
         Once(Addr(v, x.cell, arr.base), LAMBDA a : Emit(a, "STORE", <<a.cell, v.cell>>))))

GenStore(g, s) == GenStoreAt(g, s.id, g.map.array[s.id], s.ex[1], s.ex[2])

\* h, whose last statement cost what was emitted since g.
Costed(h, g) == [h EXCEPT !.cost = Len(h.code) - Len(g.code)]

GenAssign(g, s) == GenInto(g, s.ex[1], Cell(g.map.scalar[s.id]))

\* Mutant: overwriting the base does not forget what was proven of it.
GenSimpleKeepsProof(g, s, rest) ==
  Once(Cover(g, s.ex, rest), LAMBDA c :
    Costed(IF s.k = "store" THEN GenStore(c, s) ELSE GenAssign(c, s), g))

GenSimple(g, s, rest) ==
  Once(Cover(g, s.ex, rest), LAMBDA c :
    Costed(IF s.k = "store" THEN GenStore(c, s) ELSE DropCovered(GenAssign(c, s), s.id), g))

AddCost(a, b) == IF Unbounded \in {a, b} THEN Unbounded ELSE a + b

GenIf(g, s, loop) ==
  Once(GenExpr(Cover(g, s.ex, <<>>), s.ex[1], NoWant), LAMBDA c :
  Once(NewLabels(c), LAMBDA l :
  Once(GenBlock(Uncover(Emit(c, "JMPZ", <<c.cell, Label(l + 1)>>)), s.blocks[1], loop), LAMBDA t :
  Once(GenBlock(Place(Emit(t, "JMP", <<Label(l + 2)>>), l + 1), s.blocks[2], loop), LAMBDA e :
    [Place(e, l + 2) EXCEPT
       !.cost = IF Unbounded \in {t.cost, e.cost} THEN Unbounded
                ELSE Len(c.code) - Len(g.code) + 1 + Max({t.cost + 1, e.cost})]))))

\* A while has no static trip count.  `continue` goes back to the condition.
GenWhile(g, s) ==
  Once(NewLabels(g), LAMBDA l :
  Once(GenExpr(Cover(Place(g, l + 1), s.ex, <<>>), s.ex[1], NoWant), LAMBDA c :
  Once(GenBlock(Uncover(Emit(c, "JMPZ", <<c.cell, Label(l + 2)>>)), s.blocks[1],
                [brk |-> l + 2, cont |-> l + 1]), LAMBDA b :
    [Place(Emit(b, "JMP", <<Label(l + 1)>>), l + 2) EXCEPT !.cost = Unbounded])))

\* Both bounds are read before the loop variable is bound.
ForBounds(g, s, var, hi) ==
  Once(Cover(Cover(g, <<s.ex[1]>>, <<>>), <<s.ex[2]>>, <<>>), LAMBDA checked :
    IF s.id \in Reads(s.ex[2])
    THEN Once(GenExpr(checked, s.ex[1], NoWant), LAMBDA lo :
         Once(GenInto(lo, s.ex[2], hi), LAMBDA h :
           DropCovered(IF lo.cell = var THEN h ELSE Emit(h, "MOV", <<var, lo.cell>>), s.id)))
    ELSE GenInto(DropCovered(GenInto(checked, s.ex[1], var), s.id), s.ex[2], hi))

\* The trip count is known: literal bounds, and a body that leaves the variable.
Counted(s) ==
  /\ s.ex[1].k = "lit" /\ s.ex[2].k = "lit"
  /\ ~ \E t \in ToSet(Flatten(s.blocks[1])) : t.k \in {"let", "assign", "for"} /\ t.id = s.id

ForCost(s, init, body) ==
  IF body = Unbounded \/ ~Counted(s) THEN Unbounded
  ELSE init + Max({0, s.ex[2].v - s.ex[1].v}) * (2 + body + 2) + 2

\* `continue` lands on the increment; the upper bound has a cell of its own.
GenFor(g, s) ==
  LET var == Cell(g.map.scalar[s.id])
      hi == Cell(g.map.fors + g.fors)
  IN  Once(ForBounds([g EXCEPT !.fors = @ + 1], s, var, hi), LAMBDA b :
      Once(NewLabels(b), LAMBDA l :
      Once(Temp(ResetTemps(Uncover(Place(b, l + 1)))), LAMBDA t :
      Once(Emit(EmitTo(t, "LT", <<var, hi>>), "JMPZ", <<t.cell, Label(l + 3)>>), LAMBDA test :
      Once(GenBlock(test, s.blocks[1], [brk |-> l + 3, cont |-> l + 2]), LAMBDA body :
      Once(Emit(Place(body, l + 2), "ADD", <<var, var, Pool(1)>>), LAMBDA step :
        [Place(Emit(step, "JMP", <<Label(l + 1)>>), l + 3)
           EXCEPT !.cost = ForCost(s, Len(b.code) - Len(g.code), body.cost)]))))))

GenJump(g, l) == [Emit(Uncover(g), "JMP", <<Label(l)>>) EXCEPT !.cost = 1]

GenStmt(g, s, rest, loop) ==
  CASE s.k \in Simple   -> GenSimple(g, s, rest)
    [] s.k = "if"       -> Uncover(GenIf(Uncover(g), s, loop))
    [] s.k = "while"    -> Uncover(GenWhile(Uncover(g), s))
    [] s.k = "for"      -> Uncover(GenFor(Uncover(g), s))
    [] s.k = "break"    -> GenJump(g, loop.brk)
    [] s.k = "continue" -> GenJump(g, loop.cont)

GenBlock(g, stmts, loop) ==
  FoldLeft(LAMBDA h, i :
             Once(ResetTemps(h), LAMBDA r :
             Once(GenStmt(r, stmts[i], SubSeq(stmts, i + 1, Len(stmts)), loop), LAMBDA x :
               [x EXCEPT !.cost = AddCost(r.cost, @)])),
           [g EXCEPT !.cost = 0], [i \in DOMAIN stmts |-> i])

-----------------------------------------------------------------------------
(* The whole program. *)

\* Input window, output window, scalars, arrays, one bound per `for`, temps;
\* an input is its own cell of the window.  The pool comes after the temps.
MemoryMap(p) ==
  LET nIn == IF p.inputArray = <<>> THEN Len(p.inputs) ELSE p.inputArray[1].len
      out == nIn
      named == SelectSeq(Binders(p.body), LAMBDA x : ~Contains(p.inputs, x))
      scalars == nIn + Len(p.outputs)
      arrays == scalars + Len(named)
      base(i) == arrays + MapThenSumSet(LAMBDA j : p.arrays[j].len, 1 .. i - 1)
      fors == base(Len(p.arrays) + 1)
      indexOf(s, x) == (CHOOSE i \in DOMAIN s : s[i] = x) - 1
      declared == [a \in NamesOf(p.arrays) |->
                     LET i == CHOOSE j \in DOMAIN p.arrays : p.arrays[j].name = a
                     IN  [base |-> base(i), len |-> p.arrays[i].len]]
  IN  [nIn |-> nIn, out |-> out, fors |-> fors,
       temps |-> fors + Len(SelectSeq(Flatten(p.body), LAMBDA s : s.k = "for")),
       scalar |-> [x \in ToSet(p.inputs) |-> indexOf(p.inputs, x)]
                    @@ [x \in ToSet(named) |-> scalars + indexOf(named, x)],
       array |-> declared @@ IF p.inputArray = <<>> THEN <<>>
                             ELSE p.inputArray[1].name :> [base |-> 0, len |-> nIn]]

GenOutputs(g, outputs) ==
  FoldLeft(LAMBDA h, i : GenInto(ResetTemps(h), outputs[i], Cell(g.map.out + i - 1)),
           g, [i \in DOMAIN outputs |-> i])

Blank(m) == [code |-> <<>>, pool |-> <<>>, temp |-> m.temps, high |-> m.temps, covered |-> <<>>,
             labels |-> <<>>, fors |-> 0, cell |-> NoWant, cost |-> 0, map |-> m]

GenProgram(p) ==
  Once(Blank(MemoryMap(p)), LAMBDA blank :
  Once(GenBlock(blank, p.body, NoLoop), LAMBDA body :
  Once(Emit(GenOutputs(body, p.outputs), "HALT", <<>>), LAMBDA whole :
    [whole EXCEPT !.cost = AddCost(body.cost, Len(whole.code) - Len(body.code))])))

\* Zero's cell is never written: memory starts zeroed.
Loaded(g) == SelectSeq(g.pool, LAMBDA v : v # 0)

\* Mutant: the pool's cells are not counted.
CellsNeededUnpooled(g) == Max({g.high, 1})

CellsNeeded(g) == Max({g.high + Len(g.pool), 1})

\* Mutant: the preamble's instructions are not counted.
InferredStepsUnloaded(g) == g.cost

InferredSteps(g) == AddCost(g.cost, Len(Loaded(g)))

\* The author's budget, or the worst case, or the machine's ceiling.
StepBudget(p, g) ==
  IF p.steps # NoSteps THEN p.steps
  ELSE IF InferredSteps(g) # Unbounded THEN Min({InferredSteps(g), MaxSteps})
  ELSE MaxSteps

\* The program generate() returns when it needs at most MaxMem cells.
Assemble(p, g) ==
  LET consts == Loaded(g)
      cellOf(v) == g.high + (CHOOSE i \in DOMAIN g.pool : g.pool[i] = v) - 1
      operand(a) == CASE a.t = "pool"  -> cellOf(a.v)
                      [] a.t = "label" -> g.labels[a.v] + Len(consts)
                      [] OTHER -> a.v
      preamble == [i \in DOMAIN consts |-> [op |-> "LOADC", args |-> <<cellOf(consts[i]), i - 1>>]]
  IN  [mem |-> CellsNeeded(g), steps |-> StepBudget(p, g), consts |-> consts,
       input |-> [offset |-> 0, length |-> g.map.nIn],
       output |-> [offset |-> g.map.out, length |-> Len(p.outputs)],
       code |-> preamble \o MapSeq(g.code, LAMBDA ins : [ins EXCEPT !.args = MapSeq(@, operand)])]
=============================================================================
