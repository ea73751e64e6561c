---------------------------- MODULE MCWireFormat ----------------------------
(***************************************************************************)
(* WireFormat with limits of two or three: documents of up to five levels, *)
(* with one part in turn short of, at and past each limit.                 *)
(***************************************************************************)
EXTENDS WireFormat, SequencesExt

MCObjectModelKeys == {<<"p">>}

Strings == {<<"c">>, <<"p">>, <<"w">>, <<"hi", "lo">>, <<"hi">>, <<"lo">>, <<"lo", "hi">>, <<"hi", "hi", "lo">>,
            <<"w", "c">>, <<"w", "c", "c">>, <<"hi", "lo", "c", "c">>, <<>>}
Literals == {Mark("true"), Mark("NaN"), Float(0), Float(1), Int_(2), Int_(3), Int_(4), Int_(5)}
              \cup {Str(chars) : chars \in Strings}

Obj(members) == <<Mark("{")>> \o FlattenSeq(members) \o <<Mark("}")>>
Arr(items) == <<Mark("[")>> \o FlattenSeq(items) \o <<Mark("]")>>
Member(chars, value) == <<Key(chars)>> \o value
K(chars) == Member(chars, <<Mark("true")>>)

Plain == <<Mark("true")>>
Values0 == {<<l>> : l \in Literals} \cup {Obj(<<>>), Arr(<<>>)}

\* Up to three members or items.
Bag(S) == {<<>>} \cup {<<x>> : x \in S} \cup {<<x, y>> : x, y \in S} \cup {<<x, y, z>> : x, y, z \in S}

Objects1 == {Obj(ms) : ms \in Bag({K(s) : s \in {<<"c">>, <<"d">>, <<"w">>, <<"hi", "lo">>}})}
              \cup {Obj(<<K(s)>>) : s \in Strings}
              \cup {Obj(<<Member(<<"c">>, v), Member(<<"c">>, w)>>) : v, w \in {Plain, <<Int_(2)>>}}
Arrays1 == {Arr(is) : is \in Bag({Plain, Obj(<<>>), <<Int_(4)>>})}
Values1 == Values0 \cup Objects1 \cup Arrays1

Wrapped(V) == {Obj(<<Member(<<"c">>, v)>>) : v \in V} \cup {Arr(<<Plain, v>>) : v \in V}
                \cup {Obj(<<Member(<<"d">>, v), K(<<"c">>)>>) : v \in V}

Documents ==
  LET two == Wrapped(Values1)
  IN  Values1 \cup two \cup Wrapped(two) \cup Wrapped(Wrapped(Wrapped(Values0)))
                 \cup Wrapped(Wrapped(Wrapped(Wrapped({Plain, Obj(<<>>), Arr(<<>>)}))))

MCTexts == {[tokens |-> d, bytes |-> Len(d)] : d \in Documents}
             \cup {[tokens |-> d, bytes |-> 31] : d \in {Obj(<<>>), Arr(<<>>)}}
=============================================================================
