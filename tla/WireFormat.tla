----------------------------- MODULE WireFormat -----------------------------
(***************************************************************************)
(* load_receipt (src/obsign_verify/canonical.py): which texts are receipts *)
(* at all.  The text is measured, then parsed by json.loads, which calls   *)
(* back at every literal and at the end of every object, then the parsed   *)
(* document is walked.  Every limit is met in one of the three.            *)
(*                                                                         *)
(* A text is the sequence of its tokens and its length in bytes.  A string *)
(* is the sequence of its characters: "w" takes four bytes of UTF-8, "hi"  *)
(* and "lo" are the escapes of two halves of a surrogate pair, any other   *)
(* takes one byte.  A value is an object, known by the token it begins at. *)
(***************************************************************************)
EXTENDS Integers, FiniteSets, Sequences

CONSTANTS Texts,
          MaxBytes, MaxDepth, MaxMembers, MaxArray, MaxString, MaxDigits,
          ObjectModelKeys,             \* the names JavaScript reserves
          ParserDepth, ParserDigits    \* CPython's own limits

ASSUME LimitAssumption ==
  /\ MaxBytes \in Nat /\ MaxDepth \in Nat /\ MaxMembers \in Nat /\ MaxArray \in Nat
  /\ MaxString \in Nat /\ MaxDigits \in Nat /\ ParserDepth \in Nat /\ ParserDigits \in Nat

ASSUME ParserAssumption == ParserDepth >= MaxDepth /\ ParserDigits >= MaxDigits

Token(t, chars, num) == [t |-> t, chars |-> chars, num |-> num]

Mark(t)      == Token(t, <<>>, 0)            \* {  }  [  ]  true  NaN
Key(chars)   == Token("key", chars, 0)
Str(chars)   == Token("str", chars, 0)
Int_(digits) == Token("int", <<>>, digits)
Float(f)     == Token("float", <<>>, f)      \* 0 for one that overflows

Opening(ts, i) == ts[i].t \in {"{", "["}
Closing(ts, i) == ts[i].t \in {"}", "]"}

\* How many containers the i-th token stands in.
Depth(ts, i) == Cardinality({k \in 1 .. i - 1 : Opening(ts, k)})
                  - Cardinality({k \in 1 .. i - 1 : Closing(ts, k)})

\* The tokens that stand directly in the container opened at i.
Inside(ts, i) ==
  {j \in i + 1 .. Len(ts) :
     /\ Depth(ts, j) = Depth(ts, i) + 1
     /\ \A k \in i + 1 .. j : Depth(ts, k) > Depth(ts, i)
     /\ ~Closing(ts, j)}

Names(ts, i) == {j \in Inside(ts, i) : ts[j].t = "key"}
Items(ts, i) == {j \in Inside(ts, i) : ts[j].t # "key"}

\* What the passes rely on in a text that is JSON; json.loads refuses any other.
\* It is one value, in which all the rest stands; names stand in objects.
Json(ts) ==
  /\ ts # <<>>
  /\ \A i \in DOMAIN ts : i > 1 => Depth(ts, i) > 0
  /\ Depth(ts, Len(ts) + 1) = 0
  /\ \A j \in DOMAIN ts : ts[j].t = "key" => \E i \in DOMAIN ts : ts[i].t = "{" /\ j \in Inside(ts, i)

Tokens == [t : {"{", "}", "[", "]", "key", "str", "int", "float", "true", "NaN"},
           chars : Seq(STRING), num : Nat]

ASSUME TextAssumption ==
  \A x \in Texts : x.bytes \in Nat /\ x.tokens \in Seq(Tokens) /\ Json(x.tokens)

VARIABLES text,     \* [tokens, bytes]
          stage,    \* "given", "parsing", "parsed", "walking", "loaded" or "refused"
          pos,      \* tokens consumed
          open,     \* the containers being parsed, innermost last
          objects,  \* the values made so far, by the token they begin at
          document, \* the value that was parsed
          pending   \* values the walk has yet to visit, with the depth they stand at

vars == <<text, stage, pos, open, objects, document, pending>>

Unmade == [t |-> "none"]

Init == /\ text \in Texts
        /\ stage = "given"
        /\ pos = 0 /\ open = <<>> /\ document = 0 /\ pending = <<>>
        /\ objects = [p \in DOMAIN text.tokens |-> Unmade]

Refuse == stage' = "refused" /\ UNCHANGED <<text, pos, open, objects, document, pending>>

CheckSize == /\ stage = "given"
             /\ IF text.bytes > MaxBytes THEN Refuse
                ELSE stage' = "parsing" /\ UNCHANGED <<text, pos, open, objects, document, pending>>

-----------------------------------------------------------------------------
(* json.loads. *)

\* The numbers of S from the least to the largest.
InOrder(S) == CHOOSE s \in [1 .. Cardinality(S) -> S] : \A m, n \in DOMAIN s : m < n => s[m] < s[n]

\* Two escapes that make a pair are one character from here on.
Joins(chars, n)  == chars[n] = "hi" /\ n < Len(chars) /\ chars[n + 1] = "lo"
Joined(chars, n) == chars[n] = "lo" /\ n > 1 /\ chars[n - 1] = "hi"

Decoded(chars) ==
  LET kept == InOrder({n \in DOMAIN chars : ~Joined(chars, n)})
  IN  [m \in DOMAIN kept |-> IF Joins(chars, kept[m]) THEN "w" ELSE chars[kept[m]]]

\* _no_duplicate_members
MembersAllowed(names) ==
  /\ \A m \in DOMAIN names : objects[names[m]].chars \notin ObjectModelKeys
  /\ \A m, n \in DOMAIN names : m # n => objects[names[m]].chars # objects[names[n]].chars
  /\ Len(names) <= MaxMembers

LiteralAllowed(tok) ==
  /\ tok.t # "NaN"                             \* _no_constants
  /\ tok.t = "float" => tok.num # 0            \* _finite_float
  /\ tok.t = "int" => tok.num <= ParserDigits

Container(t, names, items) == [t |-> t, names |-> names, items |-> items]
Literal(tok) == [t |-> tok.t, chars |-> Decoded(tok.chars), num |-> tok.num]

\* The value that begins at p is complete: it goes into the container it stands in.
Deliver(p, value, outer) ==
  /\ pos' = pos + 1
  /\ objects' = [objects EXCEPT ![p] = value]
  /\ IF outer = <<>>
     THEN stage' = "parsed" /\ document' = p /\ open' = <<>>
     ELSE /\ open' = [outer EXCEPT ![Len(outer)].items = Append(@, p)]
          /\ UNCHANGED <<stage, document>>

Here == pos + 1
Tok == text.tokens[Here]
Inner == open[Len(open)]

Scan(kinds) == stage = "parsing" /\ Tok.t \in kinds /\ UNCHANGED <<text, pending>>

Open == /\ Scan({"{", "["})
        /\ IF Len(open) = ParserDepth THEN Refuse      \* RecursionError
           ELSE /\ open' = Append(open, [at |-> Here, names |-> <<>>, items |-> <<>>])
                /\ pos' = Here
                /\ UNCHANGED <<stage, objects, document>>

NameMember == /\ Scan({"key"})
              /\ open' = [open EXCEPT ![Len(open)].names = Append(@, Here)]
              /\ objects' = [objects EXCEPT ![Here] = Literal(Tok)]
              /\ pos' = Here
              /\ UNCHANGED <<stage, document>>

Close == /\ Scan({"}", "]"})
         /\ LET t == text.tokens[Inner.at].t
            IN  IF t = "{" /\ ~MembersAllowed(Inner.names) THEN Refuse
                ELSE Deliver(Inner.at, Container(t, Inner.names, Inner.items),
                             SubSeq(open, 1, Len(open) - 1))

ReadLiteral == /\ Scan({"str", "int", "float", "true", "NaN"})
               /\ IF ~LiteralAllowed(Tok) THEN Refuse ELSE Deliver(Here, Literal(Tok), open)

CheckTop == /\ stage = "parsed"
            /\ IF objects[document].t # "{" THEN Refuse
               ELSE /\ stage' = "walking"
                    /\ pending' = <<[value |-> document, depth |-> 0]>>
                    /\ UNCHANGED <<text, pos, open, objects, document>>

-----------------------------------------------------------------------------
(* _check_shape. *)

\* The loop remembers of the characters before the n-th whether the last was high.
HasLoneSurrogate(chars) ==
  LET prevHigh(n) == n > 1 /\ chars[n - 1] = "hi"
  IN  \/ \E n \in DOMAIN chars : IF chars[n] = "lo" THEN ~prevHigh(n) ELSE prevHigh(n)
      \/ prevHigh(Len(chars) + 1)

Count(chars, kinds) == Cardinality({n \in DOMAIN chars : chars[n] \in kinds})

\* In UTF-8, of a string without halves.
Bytes(chars) == Len(chars) + 3 * Count(chars, {"w"})

TextAllowed(chars) == ~HasLoneSurrogate(chars) /\ Bytes(chars) <= MaxString

\* Containers entered: a container counts itself, whatever stands in it.
Entered(v, depth) == IF v.t \in {"{", "["} THEN depth + 1 ELSE depth

\* Mutant: the deepest value is bounded, so an empty container is free.
ShapeAllowedByValue(v, depth) ==
  /\ (IF v.t \in {"{", "["} THEN depth - 1 ELSE depth) <= MaxDepth
  /\ v.t = "str" => TextAllowed(v.chars)
  /\ v.t = "int" => v.num <= MaxDigits
  /\ v.t = "{" => \A m \in DOMAIN v.names : TextAllowed(objects[v.names[m]].chars)
  /\ v.t = "[" => Len(v.items) <= MaxArray

ShapeAllowed(v, depth) ==
  /\ depth <= MaxDepth
  /\ v.t = "str" => TextAllowed(v.chars)
  /\ v.t = "int" => v.num <= MaxDigits
  /\ v.t = "{" => \A m \in DOMAIN v.names : TextAllowed(objects[v.names[m]].chars)
  /\ v.t = "[" => Len(v.items) <= MaxArray

\* What stands in a value is visited before what follows it.
Visit ==
  /\ stage = "walking" /\ pending # <<>>
  /\ LET v == objects[Head(pending).value]
         depth == Entered(v, Head(pending).depth)
         inside == IF v.t \in {"{", "["} THEN v.items ELSE <<>>
     IN  IF ShapeAllowed(v, depth)
         THEN /\ pending' = [m \in DOMAIN inside |-> [value |-> inside[m], depth |-> depth]]
                               \o Tail(pending)
              /\ UNCHANGED <<text, stage, pos, open, objects, document>>
         ELSE Refuse

Load == /\ stage = "walking" /\ pending = <<>>
        /\ stage' = "loaded"
        /\ UNCHANGED <<text, pos, open, objects, document, pending>>

Next == CheckSize \/ Open \/ NameMember \/ Close \/ ReadLiteral \/ CheckTop \/ Visit \/ Load

Spec == Init /\ [][Next]_vars

-----------------------------------------------------------------------------
(* The format, said of the text alone (docs/SPEC.md, section 1). *)

\* Every half of a pair stands next to its other half.
Paired(chars) == \A n \in DOMAIN chars :
  /\ chars[n] = "hi" => Joins(chars, n)
  /\ chars[n] = "lo" => Joined(chars, n)

\* A half of a pair accounts for two of its four bytes.
Utf8(chars) == Len(chars) + 3 * Count(chars, {"w"}) + Count(chars, {"hi", "lo"})

NamesConform(ts, i) ==
  /\ Cardinality(Names(ts, i)) <= MaxMembers
  /\ \A j, k \in Names(ts, i) : j # k => Decoded(ts[j].chars) # Decoded(ts[k].chars)
  /\ \A j \in Names(ts, i) : Decoded(ts[j].chars) \notin ObjectModelKeys

Conforms(ts, i) ==
  /\ Opening(ts, i) => Depth(ts, i) < MaxDepth
  /\ ts[i].t = "{" => NamesConform(ts, i)
  /\ ts[i].t = "[" => Cardinality(Items(ts, i)) <= MaxArray
  /\ ts[i].t \in {"key", "str"} => Paired(ts[i].chars) /\ Utf8(ts[i].chars) <= MaxString
  /\ ts[i].t = "int" => ts[i].num <= MaxDigits
  /\ ts[i].t # "NaN"
  /\ ts[i].t = "float" => ts[i].num # 0

InFormat ==
  /\ text.bytes <= MaxBytes
  /\ text.tokens[1].t = "{"
  /\ \A i \in DOMAIN text.tokens : Conforms(text.tokens, i)

-----------------------------------------------------------------------------
(* Properties. *)

\* A text loads if and only if it is in the format, limit by limit, whatever
\* CPython's own limits are beyond the format's: one document gets one answer
\* (canonical.py:52-75, 142-149).
LoadsExactlyTheFormat ==
  /\ stage = "loaded" => InFormat
  /\ stage = "refused" => ~InFormat
=============================================================================
