--------------------------- MODULE MCReceiptGraph ---------------------------
(***************************************************************************)
(* ReceiptGraph on what an author of up to three receipts mints with the   *)
(* library and hands over (module Mint), and, whoever made them, on lists  *)
(* of up to three documents drawn from honest receipts, re-enveloped       *)
(* copies, and claims whose links are wrong in each of the ways the code   *)
(* distinguishes, alone and in pairs.                                      *)
(***************************************************************************)
EXTENDS Mint

Claim(id, digest, inputs, output, cells, links) ==
  [id |-> id, digest |-> digest, replay |-> TRUE,
   inputs |-> inputs, output |-> output, cells |-> cells, links |-> links]

L(child, src, len, dst, out) ==
  [wellFormed |-> TRUE, child |-> child, src |-> src, dst |-> dst,
   length |-> len, output |-> out]

Malformed(child) == [L(child, 0, 1, 0, NoList) EXCEPT !.wellFormed = FALSE]

\* A leaf with a live and two dead cells; one the probe's budget did not
\* suffice for, so that no cell of it is called dead; one whose digest collides
\* with the first; one that traps; one of another kernel.
Leaf == Claim(1, 1, <<3>>, <<7, 8, 9>>, <<"live", "dead", "dead">>, <<>>)
Slow == Claim(9, 4, <<3>>, <<7, 8, 9>>, <<"live", "indeterminate", "indeterminate">>, <<>>)
Twin == Claim(2, 1, <<4>>, <<7>>, <<"live">>, <<>>)
Tau == [Claim(3, 2, NoList, NoList, <<>>, <<>>) EXCEPT !.replay = FALSE]
Broken == Claim(4, 3, <<3>>, NoList, <<>>, <<>>)

Out == <<7, 8, 9>>

\* Parents of digest 5 with inputs 7, 8, 9.
GoodL == L(1, 0, 1, 0, Out)
WideL == L(1, 0, 2, 0, Out)
DeadL == L(1, 1, 1, 1, Out)
UnprovenL == L(4, 2, 1, 2, Out)
MissingL == L(9, 0, 1, 1, Out)
BadLinks ==
  {L(1, 0, 1, 3, Out), L(1, 3, 1, 0, Out), L(1, 0, 1, 0, <<7>>), L(1, 0, 1, 1, Out),
   L(2, 0, 1, 0, Out), L(3, 0, 1, 0, Out), Malformed(NoChild), Malformed(1), DeadL}

Parent(links) == Claim(5, 5, <<7, 8, 9>>, <<6>>, <<"live">>, links)

ParentLinks ==
  {<<ln>> : ln \in BadLinks \cup {GoodL, WideL, UnprovenL, MissingL}}
    \cup {<<GoodL, GoodL>>, <<WideL, DeadL>>, <<DeadL, WideL>>, <<GoodL, UnprovenL>>,
          <<MissingL, DeadL>>, <<DeadL, MissingL>>, <<UnprovenL, Malformed(1)>>,
          <<UnprovenL, UnprovenL>>, <<MissingL, L(1, 1, 1, 1, Out)>>,
          <<Malformed(1), GoodL>>, <<L(1, 0, 1, 0, <<7>>), GoodL>>}

\* A grandparent over both, a receipt that names itself, and two that name each
\* other (with matching values: only the walk can refuse them).
Root == Claim(6, 6, <<6, 7>>, <<5>>, <<"live">>, <<L(5, 0, 1, 0, <<6>>), L(1, 0, 1, 1, Out)>>)
Self == Claim(7, 7, <<2>>, <<2>>, <<"live">>, <<L(7, 0, 1, 0, <<2>>)>>)
Ring(d, next) == Claim(d, d, <<2>>, <<2>>, <<"live">>, <<L(next, 0, 1, 0, <<2>>)>>)
TauParent == [Parent(<<GoodL>>) EXCEPT !.id = 8, !.digest = 8, !.replay = FALSE]

D(claim, envelope, verified) ==
  [object |-> TRUE, canonical |-> TRUE, claim |-> claim,
   envelope |-> envelope, verified |-> verified]

Core == {D(Leaf, 1, TRUE), D(Leaf, 2, TRUE), D(Leaf, 3, FALSE), D(Slow, 1, TRUE), D(Root, 1, TRUE)}

Others ==
  {D(Twin, 1, TRUE), D(Tau, 1, TRUE), D(Broken, 1, FALSE), D(TauParent, 1, TRUE),
   D(Self, 1, TRUE), D(Ring(10, 11), 1, TRUE), D(Ring(11, 10), 1, TRUE), D(Ring(12, 10), 1, TRUE),
   [D(NoList, 1, FALSE) EXCEPT !.object = FALSE],
   [D(NoList, 2, FALSE) EXCEPT !.canonical = FALSE]}

Parents == {D(Parent(ls), 1, TRUE) : ls \in ParentLinks}

Lists(set, len) == [1 .. len -> set]

MCSupplies ==
  {<<>>} \cup Lists(Core \cup Others \cup Parents, 1)
    \cup Lists(Core \cup Others \cup Parents, 2)
    \cup Lists(Core \cup Others, 3)
    \cup {<<a, b, c>> : a \in Core, b \in Core, c \in Parents}
    \cup {<<a, b, c>> : a \in Core, b \in Parents, c \in Core}
    \cup {<<a, b, c>> : a \in Parents, b \in Core, c \in Core}

-----------------------------------------------------------------------------
(* What an author has to mint with. *)

Prog(id, arity, cells, liveness, F(_)) ==
  [id |-> id, cells |-> cells, liveness |-> liveness,
   output |-> [inputs \in [1 .. arity -> 1 .. 2] |-> F(inputs)]]

\* A program one of whose cells is a constant, one that joins two inputs, and
\* one too expensive to probe, which traps on 2.
MCProgs ==
  {Prog(1, 1, <<"live", "dead">>, "live", LAMBDA i : <<i[1], 2>>),
   Prog(2, 2, <<"live">>, "live", LAMBDA i : <<IF i[1] = i[2] THEN 1 ELSE 2>>),
   Prog(3, 1, <<"indeterminate">>, "indeterminate", LAMBDA i : IF i[1] = 2 THEN NoList ELSE <<1>>)}

MCRawInputs == {<<1>>, <<1, 2>>}
=============================================================================
