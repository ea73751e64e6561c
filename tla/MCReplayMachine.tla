------------------------- MODULE MCReplayMachine --------------------------
(***************************************************************************)
(* CappedReplay on a 4-bit word: every operation on every pair of words,   *)
(* and every program of two instructions drawn from a set with jumps,      *)
(* memory operations, traps and malformed operands, and a last one that    *)
(* halts, jumps back or falls off the end.  The caps lie below, at and     *)
(* above what the programs take, and beside each call runs its twin        *)
(* without one.                                                            *)
(***************************************************************************)
EXTENDS CappedReplay, FiniteSetsExt, SequencesExt

MCWordBits == 4
MCHalf == 8
MCMaxMem == 3
MCMaxSteps == 5
MCMaxCode == 3

Bit(v, k) == (v \div 2^k) % 2
Bitwise2(F(_, _), a, b) ==
  MapThenSumSet(LAMBDA k : F(Bit(a, k), Bit(b, k)) * 2^k, 0 .. MCWordBits - 1)

MCBitAnd(a, b) == Bitwise2(LAMBDA x, y : x * y, a, b)
MCBitOr(a, b)  == Bitwise2(LAMBDA x, y : x + y - x * y, a, b)
MCBitXor(a, b) == Bitwise2(LAMBDA x, y : (x + y) % 2, a, b)

I(op, args) == [op |-> op, args |-> args]
Window(off, len) == [offset |-> off, length |-> len]

Program(cells, budget, consts, in, out, code) ==
  [mem |-> cells, steps |-> budget, consts |-> consts,
   input |-> in, output |-> out, code |-> code]

\* One operation on two inputs, its result in cell 0.
AluCalls ==
  {[prog |-> Program(2, 3, <<>>, Window(0, 2), Window(0, 1), <<ins, I("HALT", <<>>)>>),
    inputs |-> <<x, y>>, cap |-> NoCap] :
     ins \in {I(op, <<0, 0, 1>>) : op \in Alu2} \cup {I(op, <<0, 1>>) : op \in Alu1}
               \cup {I("MULFX", <<0, 0, 1, f>>) : f \in {0, 1, 3}},
     x \in Word, y \in Word}

Instructions ==
  {I("LOADC", <<0, 0>>), I("LOADC", <<1, 1>>), I("ADD", <<0, 0, 1>>),
   I("DIV", <<1, 1, 0>>), I("LOAD", <<1, 0>>), I("STORE", <<0, 1>>),
   I("JMP", <<0>>), I("JMPZ", <<0, 2>>), I("JMPNZ", <<1, 0>>),
   I("SEL", <<1, 0, 1, 0>>), I("HALT", <<>>),
   \* malformed: refused by validate wherever they stand in the code
   I("ADD", <<0, 2, 1>>), I("ADD", <<0, -1, 1>>), I("MOV", <<0>>), I("NOP", <<>>),
   I("LOADC", <<0, 2>>), I("JMP", <<3>>), I("JMPZ", <<2, 0>>), I("STORE", <<2, 0>>),
   I("SEL", <<1, 0, 2, 0>>), I("MULFX", <<0, 1, 1, 4>>), I("MOV", <<0, NotInt>>)}

ControlCalls ==
  {[prog |-> Program(2, 5, <<2, -8>>, Window(0, 1), Window(0, 2), <<i, j, k>>),
    inputs |-> <<x>>, cap |-> c] :
     i \in Instructions, j \in Instructions,
     k \in {I("HALT", <<>>), I("JMP", <<0>>), I("NEG", <<0, 0>>)},
     x \in {-1, 0, 1}, c \in {NoCap, 1, 3, 5, 6}}

\* The shape of a program, one field wrong at a time, and wrong inputs.
Good == Program(2, 5, <<1>>, Window(0, 1), Window(1, 1), <<I("LOADC", <<1, 0>>), I("HALT", <<>>)>>)

ShapeCalls ==
  {[prog |-> p, inputs |-> xs, cap |-> NoCap] :
     p \in {Good,
            [Good EXCEPT !.mem = 0], [Good EXCEPT !.mem = 4], [Good EXCEPT !.mem = NotInt],
            [Good EXCEPT !.mem = 1],
            [Good EXCEPT !.steps = 0], [Good EXCEPT !.steps = 6],
            [Good EXCEPT !.consts = <<8>>], [Good EXCEPT !.consts = <<NotInt>>],
            [Good EXCEPT !.consts = <<1, 1, 1, 1>>],
            [Good EXCEPT !.input = Window(2, 1)], [Good EXCEPT !.input = Window(-1, 1)],
            [Good EXCEPT !.output = Window(1, 2)], [Good EXCEPT !.output = Window(1, 0)],
            [Good EXCEPT !.code = <<>>],
            [Good EXCEPT !.code = <<I("HALT", <<>>), I("HALT", <<>>), I("HALT", <<>>), I("HALT", <<>>)>>]},
     xs \in {<<0>>, <<7>>, <<8>>, <<NotInt>>, <<>>, <<0, 0>>}}

MCCalls == AluCalls \cup ControlCalls \cup ShapeCalls
=============================================================================
