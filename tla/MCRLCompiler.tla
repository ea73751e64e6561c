--------------------------- MODULE MCRLCompiler ---------------------------
(***************************************************************************)
(* RLCompiler on an 8-bit machine: straight lines of array accesses over   *)
(* one base, branches that access it in either block or both, small        *)
(* expressions, programs with loops and calls, programs refused before     *)
(* they are compiled, programs with declared scales, texts; and one        *)
(* program for each of the three disagreements.                            *)
(***************************************************************************)
EXTENDS RLCompiler, RLGrammar

MCWordBits == 8
MCHalf == 128
MCMaxMem == 60
MCMaxSteps == 250
MCMaxCode == 200
MCTicks == 60
MCTurns == 2

Bit(v, k) == (v \div 2^k) % 2
Bitwise2(F(_, _), a, b) ==
  MapThenSumSet(LAMBDA k : F(Bit(a, k), Bit(b, k)) * 2^k, 0 .. MCWordBits - 1)
MCBitAnd(a, b) == Bitwise2(LAMBDA x, y : x * y, a, b)
MCBitOr(a, b)  == Bitwise2(LAMBDA x, y : x + y - x * y, a, b)
MCBitXor(a, b) == Bitwise2(LAMBDA x, y : (x + y) % 2, a, b)

a == Name("a")
b == Name("b")
i == Name("i")
x == Name("x")
y == Name("y")
n(v) == IntLit(v)
Plus(e, f) == Bin("ADD", e, f)
V(e) == Index("v", e)
M(e) == Index("m", e)

On(progs, inputs) == {[src |-> p, text |-> NoText, inputs |-> w] : p \in progs, w \in inputs}

Windowed(body, outs) ==
  Program(<<>>, <<ArrayDecl("v", n(2))>>, <<ArrayDecl("m", n(2))>>, <<>>, <<>>, body, outs, NoSteps)
Scalar(fns, body, outs) == Program(<<"a">>, <<>>, <<>>, <<>>, fns, body, outs, NoSteps)

\* Three statements over the base b and the input window v.
LineStatements ==
  {Let("x", V(b)), Let("x", V(Plus(b, n(1)))), Let("y", V(Bin("SUB", b, n(1)))),
   Assign("b", Plus(b, n(1))), Assign("b", V(n(0))), Let("b", V(b)),
   StoreElem("m", b, V(Plus(n(1), b))), StoreElem("m", n(1), b), StoreElem("m", Plus(b, x), n(7)),
   If(b, <<Let("x", V(b))>>, <<Assign("b", n(1))>>),
   For("b", n(0), Plus(b, n(1)), <<Let("x", Plus(x, V(b)))>>)}

StraightLines ==
  On({Windowed(<<Let("b", V(n(1))), Let("x", n(1)), s, t, u>>, <<x, M(n(1)), V(b)>>) :
        s \in LineStatements, t \in LineStatements, u \in LineStatements},
     {<<1, 0>>, <<5, 1>>, <<0, -1>>})

\* Branches over the same base, with accesses in either block or both.
BranchBlocks ==
  {<<>>, <<Let("x", V(b))>>, <<Let("x", V(Plus(b, n(1))))>>, <<StoreElem("m", b, V(b))>>, <<StoreElem("m", b, n(7))>>,
   <<Let("x", V(b)), Assign("b", n(0))>>, <<Assign("b", n(0)), Let("x", V(b))>>, <<Let("x", M(b))>>,
   <<Let("x", V(b)), If(b, <<>>, <<>>)>>, <<If(b, <<>>, <<>>), Let("x", V(b))>>}

Branches ==
  On({Windowed(<<Let("b", V(n(1))), Let("x", n(1)), If(V(n(0)), t, e), s>>, <<x, M(n(1))>>) :
        t \in BranchBlocks, e \in BranchBlocks, s \in {Let("y", V(b)), StoreElem("m", b, x)}},
     {<<k, v>> : k \in {0, 1}, v \in {-1, 0, 1, 2}})

Atoms == {n(0), n(3), a, Bin("DIV", n(1), a)}
Pairs(op) == {Bin(op, e, f) : e \in Atoms, f \in Atoms}
Terms ==
  UNION {Pairs(op) : op \in {"ADD", "SUB", "MUL", "DIV", "MOD", "AND", "SHL", "SHR", "LT", "EQ"}}
    \cup {CallTo("sel", <<c, e, f>>) : c \in {n(0), n(1), a}, e \in Atoms, f \in Atoms}
    \cup {CallTo(f, <<e, g>>) : f \in {"min", "max"}, e \in Atoms, g \in Atoms}
    \cup {CallTo("mulfx", <<e, g, n(2)>>) : e \in Atoms, g \in Atoms}
    \cup {Un("neg", e) : e \in Atoms} \cup {Un("not", e) : e \in Atoms}
    \cup {CallTo("abs", <<Un("neg", e)>>) : e \in Atoms}

Expressions == On({Scalar(<<>>, <<>>, <<Plus(e, n(100))>>) : e \in Terms}, {<<-128>>, <<0>>, <<2>>})

\* Functions: nested calls, locals, a parameter bound again, a loop and a trap.
Inc == Fn("inc", <<"x">>, <<Let("y", Plus(x, n(1))), Return(y)>>)
Twice == Fn("twice", <<"x">>, <<Let("x", CallTo("inc", <<CallTo("inc", <<x>>)>>)), Return(x)>>)
Count == Fn("count", <<"x">>, <<Let("y", n(0)), For("i", n(0), x, <<Assign("y", Plus(y, i))>>), Return(y)>>)
Inverse100 == Fn("inv", <<"x">>, <<If(x, <<Let("y", n(1))>>, <<Let("y", n(2))>>), Return(Bin("DIV", n(100), Plus(x, y)))>>)
Fns == <<Twice, Inc, Count, Inverse100>>
F(f, e) == CallTo(f, <<e>>)

FnPrograms ==
  {Scalar(Fns, body, outs) :
     body \in {<<Let("x", F("twice", a))>>,
               <<Let("x", a), While(Bin("LT", F("inc", x), n(4)), <<Assign("x", Plus(x, n(1)))>>)>>,
               <<Let("x", n(0)), While(Bin("LT", F("inc", x), n(5)),
                   <<Assign("x", Plus(x, n(2))), If(a, <<Continue>>, <<Break>>), Assign("x", n(9))>>)>>,
               <<Let("x", n(0)), For("i", F("inc", Un("neg", n(1))), F("count", n(3)), <<Assign("x", Plus(x, F("inc", i)))>>)>>,
               <<Let("y", n(5)), Let("x", F("count", a)), Let("x", Plus(x, y))>>,
               <<Let("x", CallTo("sel", <<a, F("inv", a), F("count", n(2))>>))>>,
               <<If(F("inv", a), <<Let("x", n(1))>>, <<Let("x", F("inc", a))>>)>>},
     outs \in {<<F("inv", x)>>, <<x, F("inc", F("twice", x))>>}}

LoopPrograms ==
  {Scalar(<<>>, body, <<x, i>>) :
     body \in {<<Let("x", n(0)), Let("i", a), For("i", n(0), i, <<Assign("x", Plus(x, i))>>)>>,
               <<Let("x", n(0)), For("i", n(0), n(3), <<If(Bin("EQ", i, a), <<Continue>>, <<>>), Assign("x", Plus(x, n(1)))>>)>>,
               <<Let("x", n(0)), For("i", n(0), n(3), <<If(Bin("EQ", i, a), <<Break>>, <<>>), Assign("x", Plus(x, i))>>)>>,
               <<Let("x", n(0)), For("i", n(0), n(4), <<Assign("i", Plus(i, n(1))), Assign("x", Plus(x, i))>>)>>,
               <<For("i", n(0), n(2), <<For("x", n(0), n(2), <<Let("y", Bin("DIV", a, x))>>)>>)>>,
               <<Let("i", a), While(i, <<Let("x", i), Assign("i", Bin("SUB", i, n(1)))>>)>>,
               <<If(a, <<Let("x", n(3))>>, <<Let("i", n(5))>>), Let("i", Plus(x, n(0))), Let("x", i)>>}}

Budgeted == {[p EXCEPT !.steps = k] : p \in LoopPrograms, k \in {1, 12}}

ConstProgram ==
  [Program(<<"a">>, <<>>, <<ArrayDecl("m", Plus(Name("K"), n(1)))>>, <<<<"K", n(2)>>, <<"J", Plus(Name("K"), n(3))>>>>,
           <<Fn("k", <<"x">>, <<Return(Plus(x, Name("J")))>>)>>,
           <<StoreElem("m", a, F("k", a)), Let("x", CallTo("len", <<Name("m")>>)),
             Let("y", CallTo("mulfx", <<M(a), n(6), Name("K")>>))>>, <<x, y, M(n(3))>>, NoSteps)
   EXCEPT !.outputs = Front(@)]

Programs == On(FnPrograms \cup LoopPrograms \cup Budgeted \cup {ConstProgram}, {<<-1>>, <<0>>, <<1>>, <<3>>})

\* Fixed-point programs: inputs a: fx1, b: fx2 and c: fx0, an array m: fx1.
c == Name("c")
Mulfx(e, f, k) == CallTo("mulfx", <<e, f, n(k)>>)
Scaled(fn, scales) == [fn EXCEPT !.scales = scales]

ScaledFns ==
  <<Scaled(Fn("half", <<"p">>, <<LetFx("q", 1, Bin("DIV", Name("p"), n(2))), Return(Name("q"))>>), <<1>>),
    Scaled(Fn("ratio", <<"p", "q">>, <<Return(Bin("DIV", Name("p"), Name("q")))>>), <<1, 1>>)>>

Declared(body, out) ==
  [Program(<<"a", "b", "c">>, <<>>, <<[ArrayDecl("m", n(2)) EXCEPT !.scale = 1]>>, <<>>, ScaledFns, body, <<out>>, NoSteps)
     EXCEPT !.scales = <<1, 2, 0>>]

Values ==
  {n(3), a, b, x, M(c), Plus(a, x), Bin("SUB", x, b), Bin("MUL", x, c), Bin("MUL", a, x), Bin("DIV", x, a),
   Bin("DIV", b, c), Mulfx(a, b, 2), Mulfx(a, x, 3), Bin("LT", a, x), CallTo("min", <<x, b>>),
   CallTo("sel", <<c, a, x>>), Bin("SHL", x, n(1)), Un("not", x), Un("neg", b),
   CallTo("half", <<x>>), CallTo("ratio", <<a, x>>), M(x)}

Around(s) == {<<s>>, <<If(c, <<s>>, <<Assign("x", a)>>)>>, <<While(Bin("LT", x, a), <<s>>)>>,
              <<For("i", n(0), c, <<s>>)>>}
Inner == {Assign("x", v) : v \in Values} \cup {StoreElem("m", n(0), v) : v \in Values}
           \cup {LetFx("y", k, v) : k \in {0, 1}, v \in {x, Plus(a, x), CallTo("half", <<x>>)}}

ScaledPrograms ==
  On({Declared(<<LetFx("x", k[1], k[2])>> \o s, o) :
        k \in {<<0, n(3)>>, <<1, a>>, <<1, n(3)>>, <<2, b>>}, s \in UNION {Around(t) : t \in Inner},
        o \in {Plus(x, a), Plus(M(n(0)), b), Bin("EQ", x, M(n(1)))}}, {<<2, -3, 1>>})

\* One thing wrong with each; none is compiled.
RefusedBodies ==
  {<<Assign("z", a)>>, <<Let("x", Name("z"))>>, <<Let("x", V(n(0)))>>, <<StoreElem("a", n(0), a)>>,
   <<Let("x", F("nope", a))>>, <<Let("x", CallTo("inc", <<a, a>>))>>, <<Let("inc", a)>>,
   <<Let("x", CallTo("len", <<a>>))>>, <<Let("x", CallTo("mulfx", <<a, a, a>>))>>,
   <<Let("x", CallTo("mulfx", <<a, a, n(8)>>))>>, <<Let("x", n(128))>>, <<Let("x", Name("inc"))>>,
   <<Break>>, <<If(a, <<Continue>>, <<>>)>>, <<Return(a)>>, <<For("inc", n(0), n(1), <<>>)>>}

RefusedFns ==
  {<<Fn("f", <<"x", "x">>, <<Return(x)>>)>>, <<Fn("f", <<"x">>, <<Let("y", x)>>)>>, <<Fn("f", <<>>, <<>>)>>,
   <<Fn("f", <<"x">>, <<Return(a)>>)>>, <<Fn("f", <<"x">>, <<If(x, <<Return(x)>>, <<>>), Return(x)>>)>>,
   <<Fn("f", <<"x">>, <<Return(F("f", x))>>)>>, <<Fn("min", <<"x">>, <<Return(x)>>)>>, <<Inc, Inc>>,
   <<Fn("f", <<"x">>, <<Return(F("g", x))>>), Fn("g", <<"x">>, <<Return(F("f", x))>>)>>,
   <<Fn("a", <<"x">>, <<Return(x)>>)>>}

Base == Scalar(<<Inc>>, <<>>, <<a>>)
RefusedPrograms ==
  On({[Base EXCEPT !.body = s] : s \in RefusedBodies} \cup {[Base EXCEPT !.fns = fs] : fs \in RefusedFns}
       \cup {[Base EXCEPT !.steps = 0], [Base EXCEPT !.steps = 251], [Base EXCEPT !.inputs = <<"a", "a">>],
             [Base EXCEPT !.arrays = <<ArrayDecl("a", n(1))>>], [Base EXCEPT !.arrays = <<ArrayDecl("m", n(0))>>],
             [Base EXCEPT !.arrays = <<ArrayDecl("m", a)>>], [Base EXCEPT !.arrays = <<ArrayDecl("m", n(59))>>],
             [Base EXCEPT !.consts = <<<<"a", n(1)>>>>], [Base EXCEPT !.consts = <<<<"K", a>>>>],
             [Base EXCEPT !.consts = <<<<"K", Name("K")>>>>],
             [Base EXCEPT !.consts = <<<<"K", n(1)>>, <<"K", n(2)>>>>]}, {<<1>>})

WrongInputs == On({Scalar(<<>>, <<>>, <<a>>)}, {<<>>, <<1, 2>>, <<128>>, <<NotInt>>})

-----------------------------------------------------------------------------
(* Texts: every short sequence of tokens as what is put out, every pair of *)
(* operators, what nests around the bounds, programs spelled out, and       *)
(* texts that are no programs.                                              *)

Sequences(k, texts) == {Toks(s) : s \in [1 .. k -> texts]}
AllOps == UNION {DOMAIN Tiers[k] : k \in DOMAIN Tiers}
Some3 == {"-", "*", "<"}

Chain(k, op)  == [j \in 1 .. 2 * k + 1 |-> IF j % 2 = 1 THEN "a" ELSE op]
Parens(k)     == [j \in 1 .. 2 * k + 1 |-> IF j <= k THEN "(" ELSE IF j = k + 1 THEN "a" ELSE ")"]

OutputTexts ==
  UNION {Sequences(k, {"a", "-", "*", "(", ")", "[", "]", ",", "min"}) : k \in 1 .. 3}
    \cup Sequences(4, {"a", "-", "*", "(", ")", ","})
    \cup {Toks(<<"a", o, "a", q, "a">>) : o \in AllOps, q \in AllOps}
    \cup {Toks(<<"a", o, "-", "a", q, "a">>) : o \in Some3, q \in Some3}
    \cup {Toks(<<"a", o, "(", "a", q, "a", ")">>) : o \in Some3, q \in Some3}
    \cup {Toks(Chain(k, o)) : k \in {2, 3}, o \in {"-", "<<"}} \cup {Toks(Parens(k)) : k \in {2, 3}}
    \cup {Toks(<<"-", "-", "(", "a", ")">>), Toks(<<"f", "(", "a", "[", "a", "]", ",", "a", ")">>),
          Toks(<<"~", "f", "(", ")", "%", "v", "[", "a", "&", "a", "]">>)}

Text(p, ts) == [src |-> p, text |-> ts, inputs |-> <<1>>]
Reading(ts) == Toks(<<"input", "a", ";">>) \o ts
Yielding(ts) == Reading(Toks(<<"output">>) \o ts \o Toks(<<";">>))

TextsOfOutputs ==
  UNION {{Text(Scalar(<<>>, <<>>, es), Yielding(ts)) : es \in Meanings(ts)} : ts \in OutputTexts}
    \cup {Text(NoProgram, Yielding(ts)) : ts \in {t \in OutputTexts : Meanings(t) = {}}}

RECURSIVE Deep(_)
Deep(k) == IF k = 0 THEN <<>> ELSE <<If(a, Deep(k - 1), <<Let("x", n(k))>>)>>

Spelled(p) == Text(p, SpellProgram(p))

TextsOfPrograms ==
  {Spelled(p) : p \in FnPrograms \cup LoopPrograms \cup Budgeted \cup {ConstProgram}}
    \cup {Spelled(Declared(<<LetFx("x", 1, a)>> \o s, Plus(x, a))) : s \in Around(StoreElem("m", n(0), M(x)))}
    \cup {Spelled(Windowed(<<Let("b", V(n(1))), s>>, <<b>>)) : s \in LineStatements}
    \cup {Spelled(Scalar(<<>>, Deep(3), <<a>>)), [Spelled(Scalar(<<>>, Deep(4), <<a>>)) EXCEPT !.src = NoProgram]}

TextsOfNothing ==
  {Text(NoProgram, Reading(Toks(ts))) :
     ts \in {<<>>, <<"output", "a">>, <<"output", ";">>, <<"output", "a", ";", "a", "=", "a", ";">>,
             <<"a", "=", "a", ";", "input", "b", ";", "output", "a", ";">>, <<"input", "b", ";", "output", "a", ";">>,
             <<"let", "let", "=", "a", ";", "output", "a", ";">>, <<"a", ";", "output", "a", ";">>,
             <<"if", "a", "{", "break", ";">>, <<"else", "{", "}", "output", "a", ";">>,
             <<"fn", "f", "(", "x", "output", "a", ";">>, <<"fn", "f", "(", "x", ",", ")", "{", "}", "output", "a", ";">>,
             <<"for", "i", "in", "a", "{", "}", "output", "a", ";">>, <<"let", "x", ":", "a", "=", "a", ";", "output", "a", ";">>,
             <<"#steps", "output", "a", ";">>}}
    \cup {Text(NoProgram, Toks(<<"input", "a", ":">>) \o <<Fx(64)>> \o Toks(<<";", "output", "a", ";">>)),
          Text(NoProgram, <<Tok("#steps"), Tok("a")>> \o Yielding(Toks(<<"a">>)))}

-----------------------------------------------------------------------------
(* Programs on which the compiler departs from its documentation. *)

\* fn f(x) { if x > 0 { let y = 7; } return y; }, called in a loop
StaleLocal ==
  On({Scalar(<<Fn("f", <<"x">>, <<If(Bin("GT", x, n(0)), <<Let("y", n(7))>>, <<>>), Return(y)>>)>>,
             <<Let("s", n(0)), For("i", n(0), n(2),
                 <<Assign("s", Plus(Name("s"), F("f", Bin("SUB", n(1), i))))>>)>>,
             <<Name("s")>>)}, {<<0>>, <<1>>})

\* let b = 1; b = v[b]; let x = v[b + 1]; output x;
RebasedIndex ==
  On({Windowed(<<Let("b", n(1)), Assign("b", V(b)), Let("x", V(Plus(b, n(1))))>>, <<x>>)}, {<<5, 0>>, <<0, 1>>})

\* let c = v[0]; let b = v[1]; let x = 0;
\* if c { x = v[b]; } else { x = v[b]; } output x;
LeakedCheck ==
  On({Windowed(<<Let("c", V(n(0))), Let("b", V(n(1))), Let("x", n(0)),
                 If(c, <<Assign("x", V(b))>>, <<Assign("x", V(b))>>)>>, <<x>>)}, {<<1, 0>>, <<0, 2>>})

\* arr m[56]; m[a] = a; output m[a + 1];
NearlyFull ==
  On({Program(<<"a">>, <<>>, <<ArrayDecl("m", n(56))>>, <<>>, <<>>, <<StoreElem("m", a, a)>>,
              <<M(Plus(a, n(1)))>>, NoSteps)}, {<<0>>, <<1>>})

MCSources ==
  StraightLines \cup Branches \cup Expressions \cup Programs \cup ScaledPrograms \cup RefusedPrograms \cup WrongInputs
    \cup NearlyFull \cup TextsOfOutputs \cup TextsOfPrograms
    \cup TextsOfNothing
=============================================================================
