------------------------------ MODULE RLParser ------------------------------
(***************************************************************************)
(* The parser of RL (src/obsign_verify/replayc/frontend.py): from tokens   *)
(* to a tree.  The lexer, which makes tokens of characters, is left out: a *)
(* word stands for its token.                                              *)
(*                                                                         *)
(* The parser is a state passed from one production to the next: where it  *)
(* is in the text, how deeply nested, whether it failed (a ParseError, the *)
(* end of it), and what it has read, of which a production takes the last  *)
(* few pieces and leaves what they make.                                   *)
(***************************************************************************)
EXTENDS RLSyntax, TLC

CONSTANTS
  MaxExprDepth, MaxBlockDepth    \* MAX_EXPR_DEPTH and MAX_BLOCK_DEPTH

Keywords == {"input", "output", "let", "if", "else", "while", "arr", "fn", "return",
             "for", "in", "break", "continue", "const"}
Builtins == {"min", "max", "abs", "sel", "mulfx", "len"}
Symbols == {"<<", ">>", "<=", ">=", "==", "!=", "..", "|", "^", "&", "<", ">", "+", "-", "*",
            "/", "%", "~", "=", "(", ")", "[", "]", "{", "}", ",", ";", ":"}

Token(kind, text, v) == [kind |-> kind, text |-> text, v |-> v]

Tok(text) ==
  Token(CASE text \in Keywords -> "kw" [] text \in Builtins -> "builtin" [] text \in Symbols -> "sym"
          [] text = "#steps" -> "pragma" [] OTHER -> "ident", text, Poly)
Number(v) == Token("int", "", v)
Fx(n)     == Token("ident", "fx", n)     \* the identifier fxN
Eof       == Token("eof", "", Poly)

\* The tiers of binary operators, the loosest first, with their opcodes.
Tiers ==
  << "|" :> "OR", "^" :> "XOR", "&" :> "AND", "==" :> "EQ" @@ "!=" :> "NE",
     "<" :> "LT" @@ "<=" :> "LE" @@ ">" :> "GT" @@ ">=" :> "GE", "<<" :> "SHL" @@ ">>" :> "SHR",
     "+" :> "ADD" @@ "-" :> "SUB", "*" :> "MUL" @@ "/" :> "DIV" @@ "%" :> "MOD" >>

UnaryOps == "-" :> "neg" @@ "~" :> "not"

-----------------------------------------------------------------------------

Parser(text) == [ts |-> Append(text, Eof), i |-> 1, ok |-> TRUE, depth |-> 0, blocks |-> 0, out |-> <<>>]

Peek(p) == p.ts[p.i]
At(p, text) == p.ok /\ Peek(p).text = text
AtKind(p, kind) == p.ok /\ Peek(p).kind = kind

Err(p) == [p EXCEPT !.ok = FALSE]
Advance(p) == [p EXCEPT !.i = @ + 1]
Push(p, piece) == IF p.ok THEN [p EXCEPT !.out = Append(@, piece)] ELSE p

\* _eat, of a given text and of a kind.
Skip(p, text) == IF At(p, text) THEN Advance(p) ELSE Err(p)
Take(p, kind) == IF AtKind(p, kind) THEN Push(Advance(p), IF kind = "int" THEN Peek(p).v ELSE Peek(p).text)
                 ELSE Err(p)

\* What the last n pieces make takes their place.
Make(p, n, Made(_)) ==
  IF ~p.ok THEN p
  ELSE [p EXCEPT !.out = LET rest == Len(@) - n
                         IN  Append(SubSeq(@, 1, rest), Made(SubSeq(@, rest + 1, Len(@))))]

\* The last piece joins the list before it.
Collect(p) == Make(p, 2, LAMBDA s : Append(s[1], s[2]))

Deeper(p) == IF p.depth = MaxExprDepth THEN Err(p) ELSE [p EXCEPT !.depth = @ + 1]
Back(p)   == [p EXCEPT !.depth = @ - 1]

RECURSIVE Height(_), Read(_, _), ReadTier(_, _), ReadChain(_, _), ReadList(_, _), ReadStmts(_),
          ReadItems(_), ReadUnary(_)

Height(e) == 1 + Max({0} \cup {Height(e.sub[j]) : j \in DOMAIN e.sub})

\* The items of a production, one after the other.
Follow(p, items) == FoldLeft(Read, p, items)

-----------------------------------------------------------------------------
(* Expressions. *)

\* Mutant: what bounds the parser's recursion is taken to bound the tree.
ReadExprUnmeasured(p) == Back(ReadTier(Deeper(p), 1))

\* The tree of a whole expression is bounded too: a chain of operators nests
\* to the left without nesting the parser.
ReadExpr(p) ==
  With(Back(ReadTier(Deeper(p), 1)), LAMBDA q :
    IF q.ok /\ q.depth = 0 /\ Height(Last(q.out)) > MaxExprDepth THEN Err(q) ELSE q)

ReadTier(p, k) ==
  IF ~p.ok THEN p
  ELSE IF k > Len(Tiers) THEN ReadUnary(p)
  ELSE ReadChain(ReadTier(p, k + 1), k)

ReadChain(p, k) ==
  IF p.ok /\ Peek(p).text \in DOMAIN Tiers[k]
  THEN ReadChain(Make(ReadTier(Advance(p), k + 1), 2,
                      LAMBDA s : Bin(Tiers[k][Peek(p).text], s[1], s[2])), k)
  ELSE p

ReadPrimary(p) ==
  CASE AtKind(p, "int")     -> Make(Take(p, "int"), 1, LAMBDA s : IntLit(s[1]))
    [] At(p, "(")           -> Follow(p, <<"(", "expr", ")">>)
    [] AtKind(p, "builtin") -> Make(Follow(p, <<"builtin", "(", "args", ")">>), 2, LAMBDA s : CallTo(s[1], s[2]))
    [] AtKind(p, "ident")   ->
         With(Take(p, "ident"), LAMBDA q :
           CASE At(q, "[") -> Make(Follow(q, <<"[", "expr", "]">>), 2, LAMBDA s : Index(s[1], s[2]))
             [] At(q, "(") -> Make(Skip(With(Skip(q, "("), LAMBDA r : IF At(r, ")") THEN Push(r, <<>>) ELSE Read(r, "args")), ")"),
                                   2, LAMBDA s : CallTo(s[1], s[2]))
             [] OTHER      -> Make(q, 1, LAMBDA s : Name(s[1])))
    [] OTHER -> Err(p)

\* A chain of signs nests the parser without nesting an expression.
ReadUnary(p) ==
  IF p.ok /\ Peek(p).text \in DOMAIN UnaryOps
  THEN With(Deeper(p), LAMBDA q :
         IF q.ok THEN Make(Back(ReadUnary(Advance(q))), 1, LAMBDA s : Un(UnaryOps[Peek(p).text], s[1]))
         ELSE q)
  ELSE ReadPrimary(p)

\* One item or more, with commas between them.
ReadList(p, item) ==
  With(Collect(Read(p, item)), LAMBDA q : IF At(q, ",") THEN ReadList(Advance(q), item) ELSE q)

-----------------------------------------------------------------------------
(* Statements and declarations. *)

ReadScale(p) ==
  IF ~At(p, ":") THEN Push(p, Poly)
  ELSE With(Advance(p), LAMBDA q :
         IF AtKind(q, "ident") /\ Peek(q).v \in 0 .. 63 THEN Push(Advance(q), Peek(q).v) ELSE Err(q))

\* A name and its scale, as a pair.
ReadTyped(p) == Make(Follow(p, <<"ident", "scale">>), 2, LAMBDA s : s)

ReadBlock(p) ==
  IF p.blocks = MaxBlockDepth THEN Err(p)
  ELSE [Skip(ReadStmts(Push(Skip([p EXCEPT !.blocks = @ + 1], "{"), <<>>)), "}") EXCEPT !.blocks = p.blocks]

ReadStmt(p) ==
  CASE At(p, "let")      -> Make(Follow(p, <<"let", "ident", "scale", "=", "expr", ";">>), 3,
                                 LAMBDA s : LetFx(s[1], s[2], s[3]))
    [] At(p, "if")       -> With(Follow(p, <<"if", "expr", "block">>), LAMBDA q :
                              Make(IF At(q, "else") THEN Follow(q, <<"else", "block">>) ELSE Push(q, <<>>), 3,
                                   LAMBDA s : If(s[1], s[2], s[3])))
    [] At(p, "while")    -> Make(Follow(p, <<"while", "expr", "block">>), 2, LAMBDA s : While(s[1], s[2]))
    [] At(p, "for")      -> Make(Follow(p, <<"for", "ident", "in", "expr", "..", "expr", "block">>), 4,
                                 LAMBDA s : For(s[1], s[2], s[3], s[4]))
    [] At(p, "break")    -> Push(Follow(p, <<"break", ";">>), Break)
    [] At(p, "continue") -> Push(Follow(p, <<"continue", ";">>), Continue)
    [] At(p, "return")   -> Make(Follow(p, <<"return", "expr", ";">>), 1, LAMBDA s : Return(s[1]))
    [] AtKind(p, "ident") ->
         With(Take(p, "ident"), LAMBDA q :
           IF At(q, "[") THEN Make(Follow(q, <<"[", "expr", "]", "=", "expr", ";">>), 3,
                                   LAMBDA s : StoreElem(s[1], s[2], s[3]))
           ELSE Make(Follow(q, <<"=", "expr", ";">>), 2, LAMBDA s : Assign(s[1], s[2])))
    [] OTHER -> Err(p)

ReadStmts(p) == IF ~p.ok \/ At(p, "}") THEN p ELSE ReadStmts(Collect(ReadStmt(p)))

\* What a production is made of: words, or other productions.
Read(p, item) ==
  CASE item \in {"ident", "builtin", "int"} -> Take(p, item)
    [] item = "expr"   -> ReadExpr(p)
    [] item = "args"   -> ReadList(Push(p, <<>>), "expr")
    [] item = "scale"  -> ReadScale(p)
    [] item = "typed"  -> ReadTyped(p)
    [] item = "names"  -> ReadList(Push(p, <<>>), "typed")
    [] item = "block"  -> ReadBlock(p)
    [] OTHER           -> Skip(p, item)

Firsts(pairs)  == MapSeq(pairs, LAMBDA s : s[1])
Seconds(pairs) == MapSeq(pairs, LAMBDA s : s[2])
Sized(s) == [ArrayDecl(s[1], s[2]) EXCEPT !.scale = s[3]]

\* The program read so far is the first piece.  The input is declared once,
\* before any statement, and no statement follows an output.
ReadItem(p) ==
  LET prog == p.out[1]
  IN  CASE At(p, "input") ->
             IF prog.body # <<>> \/ prog.inputs # <<>> \/ prog.inputArray # <<>> THEN Err(p)
             ELSE IF p.ts[p.i + 1].kind = "ident" /\ p.ts[p.i + 2].text = "["
             THEN Make(Follow(p, <<"input", "ident", "[", "expr", "]", "scale", ";">>), 4,
                       LAMBDA s : [s[1] EXCEPT !.inputArray = <<Sized(Tail(s))>>])
             ELSE Make(Follow(p, <<"input", "names", ";">>), 2,
                       LAMBDA s : [s[1] EXCEPT !.inputs = Firsts(s[2]), !.scales = Seconds(s[2])])
        [] At(p, "arr") -> Make(Follow(p, <<"arr", "ident", "[", "expr", "]", "scale", ";">>), 4,
                                LAMBDA s : [s[1] EXCEPT !.arrays = Append(@, Sized(Tail(s)))])
        [] At(p, "fn") ->
             With(Follow(p, <<"fn", "ident", "(">>), LAMBDA q :
               Make(Follow(IF At(q, ")") THEN Push(q, <<>>) ELSE Read(q, "names"), <<")", "block">>), 4,
                    LAMBDA s : [s[1] EXCEPT !.fns = Append(@, [Fn(s[2], Firsts(s[3]), s[4]) EXCEPT !.scales = Seconds(s[3])])]))
        [] At(p, "const") -> Make(Follow(p, <<"const", "ident", "=", "expr", ";">>), 3,
                                  LAMBDA s : [s[1] EXCEPT !.consts = Append(@, Tail(s))])
        [] At(p, "output") -> Make(Follow(p, <<"output", "args", ";">>), 2,
                                   LAMBDA s : [s[1] EXCEPT !.outputs = @ \o s[2]])
        [] OTHER -> IF prog.outputs # <<>> THEN Err(p)
                    ELSE Make(ReadStmt(p), 2, LAMBDA s : [s[1] EXCEPT !.body = Append(@, s[2])])

ReadItems(p) == IF ~p.ok \/ AtKind(p, "eof") THEN p ELSE ReadItems(ReadItem(p))

\* Parser.parse: [ok, tree].
ParseText(text) ==
  LET start == Parser(text)
      pragma == AtKind(start, "pragma")
      opened == IF pragma THEN Take(Advance(start), "int") ELSE Push(start, NoSteps)
      begun == Make(opened, 1, LAMBDA s : Program(<<>>, <<>>, <<>>, <<>>, <<>>, <<>>, <<>>, s[1]))
      done == ReadItems(begun)
  IN  IF ~done.ok \/ done.out[1].outputs = <<>> THEN [ok |-> FALSE, tree |-> <<>>]
      ELSE [ok |-> TRUE, tree |-> done.out[1]]
=============================================================================
