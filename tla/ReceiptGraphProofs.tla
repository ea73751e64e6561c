------------------------- MODULE ReceiptGraphProofs -------------------------
(***************************************************************************)
(* For any documents in any order, with any claims, links and copies: what *)
(* verify_graph says of links and cycles is true of them, it finishes the  *)
(* children first, and its verdict is one of the set supplied.  And for    *)
(* any author: nothing is wrong with the links inputs were composed from.  *)
(*                                                                         *)
(* The inductive invariant has one part for each stage, which the later    *)
(* stages keep.  IndexInv: the index is that of the documents read.        *)
(* LadderInv: a node is verified if every copy of its claim is.  LinksInv: *)
(* the verdict on a node's links is a grade of the set of faults found, so *)
(* that order drops out.  WalkInv: the stack is a path of grey nodes in    *)
(* the graph of the claims, all of whose followed links but the last of    *)
(* each lead to finished nodes.  The index is frozen once it is made, so   *)
(* that the parts can be kept one by one.  WalletInv is the author's: what *)
(* was minted was run, and links name only what was minted before.         *)
(***************************************************************************)
EXTENDS Mint, FiniteSetTheorems, SequenceTheorems, WellFoundedInduction, TLAPS

-----------------------------------------------------------------------------
(* Sequences. *)

\* What is left under the top of a stack.
LEMMA FrontOfStack ==
  ASSUME NEW S, NEW s \in Seq(S), s # <<>>
  PROVE  /\ Front(s) \in Seq(S) /\ Len(s) \in Nat \ {0} /\ Len(Front(s)) = Len(s) - 1
         /\ \A i \in 1 .. Len(s) - 1 : Front(s)[i] = s[i]
<1>1. PICK n \in Nat : Len(s) = n + 1 /\ Front(s) = SubSeq(s, 1, n)
  <2>1. Len(s) \in Nat \ {0} /\ Front(s) = SubSeq(s, 1, Len(s) - 1)
    BY EmptySeq DEF Front
  <2>2. Len(s) - 1 \in Nat /\ Len(s) = (Len(s) - 1) + 1
    BY <2>1
  <2> QED
    BY <2>1, <2>2
<1>2. Len(SubSeq(s, 1, n)) = n
  <2>1. CASE n = 0
    BY <2>1
  <2>2. CASE n >= 1
    <3>1. \A i \in 1 .. n : s[i] \in S
      BY <1>1
    <3>2. Len(SubSeq(s, 1, n)) = IF 1 <= n THEN n - 1 + 1 ELSE 0
      BY <3>1, SubSeqProperties
    <3>3. Len(SubSeq(s, 1, n)) = n - 1 + 1
      BY <2>2, <3>2
    <3> QED
      BY <3>3
  <2> QED
    BY <2>1, <2>2
<1>3. SubSeq(s, 1, n) \in Seq(S) /\ \A i \in 1 .. n : SubSeq(s, 1, n)[i] = s[i]
  BY <1>1
<1> QED
  BY <1>1, <1>2, <1>3

\* What a push, or a finished node, adds.
LEMMA Appended ==
  ASSUME NEW S, NEW s \in Seq(S), NEW e \in S
  PROVE  /\ Append(s, e) \in Seq(S) /\ Len(Append(s, e)) = Len(s) + 1 /\ Len(s) \in Nat
         /\ \A i \in 1 .. Len(s) : Append(s, e)[i] = s[i]
         /\ Append(s, e)[Len(s) + 1] = e
OBVIOUS

\* The domain of a sequence.
LEMMA Positions ==
  ASSUME NEW S, NEW s \in Seq(S)
  PROVE  Len(s) \in Nat /\ DOMAIN s = 1 .. Len(s) /\ \A i \in 1 .. Len(s) : s[i] \in S
OBVIOUS

-----------------------------------------------------------------------------
(* Types. *)

Node == [claim : {NoList} \cup AnyClaim, envelopes : SUBSET AnyDocument, verified : BOOLEAN,
         linksOk : {"none", "true", "incomplete", "false"}]

TypeInv ==
  /\ docs \in Seq(AnyDocument)
  /\ \A n \in DOMAIN docs : IsReceipt(docs[n]) => docs[n].claim \in AnyClaim
  /\ strict \in BOOLEAN
  /\ stage \in {"index", "ladder", "links", "walk", "done"}
  /\ at \in Nat \ {0}
  /\ keys \in Seq(Int)
  /\ node \in [Keys -> Node]
  /\ link \in Nat
  /\ collision \in BOOLEAN /\ cycle \in BOOLEAN
  /\ \A x \in Keys :
       \/ x > 0 /\ node[x].claim \in AnyClaim /\ node[x].claim.digest = x
       \/ x < 0 /\ node[x].claim = NoList

\* Before verify_graph reads the first of its documents, whoever made them.
Untouched ==
  /\ at = 1 /\ keys = <<>> /\ node = <<>> /\ missing = {}
  /\ link = 0 /\ taken = {}
  /\ color = <<>> /\ stack = <<>> /\ order = <<>>
  /\ collision = FALSE /\ cycle = FALSE

Fresh ==
  /\ docs \in Seq(AnyDocument)
  /\ \A n \in DOMAIN docs : IsReceipt(docs[n]) => docs[n].claim \in AnyClaim
  /\ strict \in BOOLEAN
  /\ stage = "index"
  /\ Untouched

LEMMA InitIsFresh == Init => Fresh
<1> SUFFICES ASSUME Init PROVE Fresh
  OBVIOUS
<1>1. docs \in Supplies /\ strict \in BOOLEAN /\ stage = "index" /\ Untouched
  BY DEF Init, Untouched
<1>2. docs \in Seq(AnyDocument) /\ \A n \in DOMAIN docs : IsReceipt(docs[n]) => docs[n].claim \in AnyClaim
  BY <1>1, SupplyAssumption
<1> QED
  BY <1>1, <1>2 DEF Fresh

\* An index without nodes.
LEMMA TypeInit == Fresh => TypeInv
<1> SUFFICES ASSUME Fresh PROVE TypeInv
  OBVIOUS
<1>1. Keys = {} /\ keys \in Seq(Int)
  BY DEF Fresh, Untouched, Keys
<1>2. node \in [Keys -> Node]
  BY <1>1 DEF Fresh, Untouched
<1>3. link = 0 /\ at = 1 /\ collision \in BOOLEAN /\ cycle \in BOOLEAN
  BY Zenon DEF Fresh, Untouched
<1>4. /\ docs \in Seq(AnyDocument) /\ \A n \in DOMAIN docs : IsReceipt(docs[n]) => docs[n].claim \in AnyClaim
      /\ strict \in BOOLEAN /\ stage = "index"
  BY DEF Fresh
<1> QED
  BY <1>1, <1>2, <1>3, <1>4 DEF TypeInv

\* What a new entry does to the keys.
LEMMA AddedKeys ==
  ASSUME TypeInv, NEW key \in Int, NEW value, AddNode(key, value)
  PROVE  Keys' = Keys \cup {key}
<1>1. Len(keys) \in Nat /\ DOMAIN keys = 1 .. Len(keys)
  BY DEF TypeInv
<1>2. /\ DOMAIN keys' = 1 .. Len(keys) + 1 /\ keys'[Len(keys) + 1] = key
      /\ \A n \in 1 .. Len(keys) : keys'[n] = keys[n]
  BY DEF TypeInv, AddNode
<1> QED
  BY <1>1, <1>2 DEF Keys

\* The first entry in the index of a document's key.
LEMMA TypeAddNode ==
  ASSUME TypeInv, NEW key \in Int, NEW value \in Node, AddNode(key, value),
         \/ key > 0 /\ value.claim \in AnyClaim /\ value.claim.digest = key
         \/ key < 0 /\ value.claim = NoList
  PROVE  /\ keys' \in Seq(Int) /\ Keys' = Keys \cup {key} /\ node' \in [Keys' -> Node]
         /\ \A x \in Keys' :
              \/ x > 0 /\ node'[x].claim \in AnyClaim /\ node'[x].claim.digest = x
              \/ x < 0 /\ node'[x].claim = NoList
<1>1. keys' \in Seq(Int)
  BY DEF TypeInv, AddNode
<1>2. Keys' = Keys \cup {key}
  BY AddedKeys
<1>3. node' \in [Keys' -> Node]
  BY <1>2 DEF TypeInv, AddNode
<1>4. \A x \in Keys' : node'[x] = IF x = key THEN value ELSE node[x]
  BY <1>2 DEF AddNode
<1> QED
  BY <1>1, <1>2, <1>3, <1>4 DEF TypeInv

\* Indexing adds a node under a key of its own sort, or a copy to a node.
LEMMA TypeIndex ==
  ASSUME TypeInv, Index
  PROVE  TypeInv'
<1> USE DEF TypeInv
<1>1. CASE IndexPlaceholder
  <2> DEFINE value == [claim |-> NoList, envelopes |-> {Doc}, verified |-> FALSE, linksOk |-> "none"]
  <2>1. value \in Node /\ PlaceholderKey(at) \in Int /\ PlaceholderKey(at) < 0
    BY <1>1 DEF IndexPlaceholder, Indexing, Doc, Node, PlaceholderKey
  <2>2. AddNode(PlaceholderKey(at), value) /\ value.claim = NoList
    BY <1>1 DEF IndexPlaceholder
  <2> HIDE DEF value
  <2>3. /\ keys' \in Seq(Int) /\ node' \in [Keys' -> Node]
        /\ \A x \in Keys' : \/ x > 0 /\ node'[x].claim \in AnyClaim /\ node'[x].claim.digest = x
                            \/ x < 0 /\ node'[x].claim = NoList
    BY <2>1, <2>2, TypeAddNode DEF TypeInv
  <2> QED
    BY <1>1, <2>3 DEF IndexPlaceholder, NextDoc, walkVars
<1>2. CASE IndexNew
  <2> DEFINE value == [claim |-> Doc.claim, envelopes |-> {Doc}, verified |-> FALSE, linksOk |-> "none"]
  <2>1. Doc \in AnyDocument /\ Doc.claim \in AnyClaim
    BY <1>2 DEF IndexNew, Indexing, Doc
  <2>2. value \in Node /\ Doc.claim.digest \in Int /\ Doc.claim.digest > 0
    BY <2>1 DEF Node, AnyClaim
  <2>3. AddNode(Doc.claim.digest, value) /\ value.claim = Doc.claim
    BY <1>2 DEF IndexNew
  <2> HIDE DEF value
  <2>4. /\ keys' \in Seq(Int) /\ node' \in [Keys' -> Node]
        /\ \A x \in Keys' : \/ x > 0 /\ node'[x].claim \in AnyClaim /\ node'[x].claim.digest = x
                            \/ x < 0 /\ node'[x].claim = NoList
    BY <2>1, <2>2, <2>3, TypeAddNode DEF TypeInv
  <2> QED
    BY <1>2, <2>4 DEF IndexNew, NextDoc, walkVars
<1>3. CASE IndexCollision
  <2>1. Keys' = Keys
    BY <1>3 DEF IndexCollision, Keys
  <2>2. node' = [node EXCEPT ![Doc.claim.digest].linksOk = "false"] /\ Doc.claim.digest \in Keys
    BY <1>3 DEF IndexCollision
  <2>3. node' \in [Keys -> Node] /\ \A x \in Keys : node'[x].claim = node[x].claim
    BY <2>2, ZenonT(30) DEF Node
  <2> QED
    BY <1>3, <2>1, <2>3 DEF IndexCollision, NextDoc, walkVars
<1>4. CASE IndexEnvelope
  <2>1. Keys' = Keys
    BY <1>4 DEF IndexEnvelope, Keys
  <2>2. /\ node' = [node EXCEPT ![Doc.claim.digest].envelopes = @ \cup {Doc}]
        /\ Doc.claim.digest \in Keys /\ Doc \in AnyDocument
    BY <1>4 DEF IndexEnvelope, Indexing, Doc
  <2>3. node' \in [Keys -> Node] /\ \A x \in Keys : node'[x].claim = node[x].claim
    BY <2>2, ZenonT(30) DEF Node
  <2> QED
    BY <1>4, <2>1, <2>3 DEF IndexEnvelope, NextDoc, walkVars
<1>5. CASE Indexed
  BY <1>5 DEF Indexed, indexVars, walkVars, Keys
<1> QED
  BY <1>1, <1>2, <1>3, <1>4, <1>5 DEF Index

-----------------------------------------------------------------------------
(* Once the index is made, its keys and the claims under them stay. *)

Claimed == [x \in Keys |-> node[x].claim]

\* What an action must leave alone to keep the index typed.
LEMMA SameTypes ==
  ASSUME TypeInv, UNCHANGED indexVars, node' \in [Keys -> Node],
         \A x \in Keys : node'[x].claim = node[x].claim,
         stage' \in {"index", "ladder", "links", "walk", "done"}, at' \in Nat \ {0},
         link' \in Nat, cycle' \in BOOLEAN
  PROVE  TypeInv' /\ Keys' = Keys /\ Claimed' = Claimed
<1>1. Keys' = Keys
  BY DEF indexVars, Keys
<1>2. TypeInv'
  BY <1>1 DEF TypeInv, indexVars
<1>3. Claimed' = Claimed
  BY <1>1 DEF Claimed
<1> QED
  BY <1>1, <1>2, <1>3

\* A record of the index whose links were judged.
LEMMA Rejudged ==
  ASSUME TypeInv, NEW x \in Keys, NEW ok \in {"none", "true", "incomplete", "false"},
         node' = [node EXCEPT ![x].linksOk = ok]
  PROVE  /\ node' \in [Keys -> Node]
         /\ \A y \in Keys : node'[y].claim = node[y].claim /\ node'[y].envelopes = node[y].envelopes
                            /\ (node'[y].verified = node[y].verified)
                            /\ node'[y].linksOk = IF y = x THEN ok ELSE node[y].linksOk
BY ZenonT(30) DEF TypeInv, Node

\* One more fault yields one of the three verdicts.
LEMMA JudgedIsAVerdict ==
  ASSUME NEW ok \in {"none", "true", "incomplete", "false"}, NEW fault
  PROVE  Judged(ok, fault) \in {"none", "true", "incomplete", "false"}
BY DEF Judged

\* The later stages change verdicts, never claims.
LEMMA TypeLater ==
  ASSUME TypeInv, Ladder \/ LinkStep \/ Walk
  PROVE  TypeInv' /\ Keys' = Keys /\ Claimed' = Claimed
<1>1. node \in [Keys -> Node] /\ at \in Nat \ {0} /\ at + 1 \in Nat \ {0} /\ link \in Nat
      /\ stage \in {"index", "ladder", "links", "walk", "done"} /\ cycle \in BOOLEAN
  BY DEF TypeInv
<1>2. ASSUME NEW s, AtNode(s)
      PROVE  Key \in Keys
  <2>1. at \in DOMAIN keys
    BY <1>2 DEF TypeInv, AtNode
  <2> QED
    BY <2>1 DEF Keys, Key
<1>3. CASE RunLadder
  <2>1. Key \in Keys
    BY <1>2, <1>3 DEF RunLadder
  <2>2. node' \in [Keys -> Node] /\ \A x \in Keys : node'[x].claim = node[x].claim
    BY <1>1, <1>3, <2>1, ZenonT(30) DEF RunLadder, Node
  <2> QED
    BY <1>1, <1>3, <2>2, SameTypes DEF RunLadder, walkVars
<1>4. CASE LaddersDone \/ WalkDone
  BY <1>1, <1>4, SameTypes DEF LaddersDone, WalkDone, walkVars, TypeInv
<1>5. CASE SkipLinks \/ EndLinks
  BY <1>1, <1>5, SameTypes DEF SkipLinks, EndLinks, NextLinks, walkVars
<1>6. CASE BadParent
  <2>1. Key \in Keys
    BY <1>2, <1>6 DEF BadParent
  <2>2. node' \in [Keys -> Node] /\ \A x \in Keys : node'[x].claim = node[x].claim
    BY <1>6, <2>1, Rejudged DEF BadParent
  <2> QED
    BY <1>1, <1>6, <2>2, SameTypes DEF BadParent, NextLinks, walkVars
<1>7. CASE BeginLinks
  <2>1. Key \in Keys
    BY <1>2, <1>7 DEF BeginLinks
  <2>2. node' \in [Keys -> Node] /\ \A x \in Keys : node'[x].claim = node[x].claim
    BY <1>7, <2>1, Rejudged DEF BeginLinks
  <2> QED
    BY <1>1, <1>7, <2>2, SameTypes DEF BeginLinks, walkVars
<1>8. CASE CheckLink
  <2>1. Key \in Keys
    BY <1>2, <1>8 DEF CheckLink
  <2>2. PICK ok \in {"none", "true", "incomplete", "false"} :
             node' = [node EXCEPT ![Key].linksOk = ok]
    <3> DEFINE ok == Judged(node[Key].linksOk, Fault(ClaimOf(Key), Links(Key)[link], taken))
    <3>1. node[Key].linksOk \in {"none", "true", "incomplete", "false"}
      BY <1>1, <2>1 DEF Node
    <3>2. ok \in {"none", "true", "incomplete", "false"}
      BY <3>1, JudgedIsAVerdict
    <3>3. node' = [node EXCEPT ![Key].linksOk = ok]
      BY <1>8 DEF CheckLink
    <3> QED
      BY <3>2, <3>3
  <2>3. node' \in [Keys -> Node] /\ \A x \in Keys : node'[x].claim = node[x].claim
    BY <2>1, <2>2, Rejudged
  <2>4. link' = link + 1 /\ UNCHANGED <<indexVars, stage, at, walkVars>>
    BY <1>8 DEF CheckLink
  <2> QED
    BY <1>1, <2>3, <2>4, SameTypes DEF walkVars
<1>9. CASE LinksDone
  BY <1>1, <1>9, SameTypes DEF LinksDone
<1>10. CASE NextRoot
  <2>1. /\ UNCHANGED <<indexVars, stage, link, node, cycle>>
        /\ at' \in {at, at + 1}
    BY <1>10 DEF NextRoot, Walking
  <2> QED
    BY <1>1, <2>1, SameTypes
<1>11. CASE FinishNode
  BY <1>1, <1>11, SameTypes DEF FinishNode, Walking
<1>12. CASE FollowLink
  <2>1. UNCHANGED <<indexVars, stage, link, at>>
    BY <1>12 DEF FollowLink, Walking
  <2>2. \/ UNCHANGED <<cycle, node>>
        \/ /\ cycle' = TRUE
           /\ \E both : node' = [x \in Keys |-> IF x \in both THEN [node[x] EXCEPT !.linksOk = "false"]
                                                             ELSE node[x]]
    BY <1>12 DEF FollowLink
  <2>3. node' \in [Keys -> Node] /\ (\A x \in Keys : node'[x].claim = node[x].claim) /\ cycle' \in BOOLEAN
    <3>1. CASE UNCHANGED <<cycle, node>>
      BY <1>1, <3>1
    <3>2. CASE cycle' = TRUE /\ \E both : node' = [x \in Keys |-> IF x \in both
                                  THEN [node[x] EXCEPT !.linksOk = "false"] ELSE node[x]]
      <4>1. PICK both : node' = [x \in Keys |-> IF x \in both
                                  THEN [node[x] EXCEPT !.linksOk = "false"] ELSE node[x]]
        BY <3>2
      <4>2. \A x \in Keys : node[x] \in Node /\ [node[x] EXCEPT !.linksOk = "false"] \in Node
                            /\ [node[x] EXCEPT !.linksOk = "false"].claim = node[x].claim
        BY <1>1 DEF Node
      <4>3. node' \in [Keys -> Node]
        BY <4>1, <4>2
      <4>4. \A x \in Keys : node'[x].claim = node[x].claim
        BY <4>1, <4>2
      <4> QED
        BY <3>2, <4>3, <4>4
    <3> QED
      BY <2>2, <3>1, <3>2
  <2> QED
    BY <1>1, <2>1, <2>3, SameTypes
<1> QED
  BY <1>3, <1>4, <1>5, <1>6, <1>7, <1>8, <1>9, <1>10, <1>11, <1>12 DEF Ladder, LinkStep, Walk

\* Every step keeps the types.
LEMMA TypeStep ==
  ASSUME TypeInv, [Next]_vars
  PROVE  TypeInv'
<1>1. CASE UNCHANGED vars
  BY <1>1 DEF vars, TypeInv, Keys
<1> QED
  BY <1>1, TypeIndex, TypeLater DEF Next

-----------------------------------------------------------------------------
(* The walk.  What it walks is a graph: the digests each claim names.        *)

Graph == [x \in Keys |-> [j \in 1 .. Len(Links(x)) |-> Links(x)[j].child]]

Kids(x) == {Graph[x][j] : j \in DOMAIN Graph[x]}

Coloured == color \in [Keys -> {"white", "grey", "black"}]

Black(x) == x \in Keys /\ color[x] = "black"

\* A stack of positions among the links of its nodes.
Framed ==
  /\ stack \in Seq(Keys \X Nat)
  /\ \A i \in DOMAIN stack : stack[i][2] <= Len(Graph[stack[i][1]])

\* The grey nodes are those on the stack, each once.
GreyIsStacked ==
  /\ \A x \in Keys : color[x] = "grey" <=> \E i \in DOMAIN stack : stack[i][1] = x
  /\ \A i, j \in DOMAIN stack : stack[i][1] = stack[j][1] => i = j

\* Each frame was pushed by the last link followed in the one below it.
Nested ==
  \A i \in DOMAIN stack : i + 1 \in DOMAIN stack =>
    stack[i][2] >= 1 /\ Graph[stack[i][1]][stack[i][2]] = stack[i + 1][1]

\* Where no cycle was met, what was followed is finished, but for the link that
\* is being followed.
Followed ==
  ~cycle =>
    \A i \in DOMAIN stack : \A j \in 1 .. stack[i][2] :
      LET child == Graph[stack[i][1]][j]
      IN  child \in Keys /\ ~(i + 1 \in DOMAIN stack /\ j = stack[i][2]) => Black(child)

\* The finish order lists the finished nodes, each once.
Listed ==
  /\ order \in Seq(Keys)
  /\ \A x \in Keys : Black(x) <=> \E n \in DOMAIN order : order[n] = x
  /\ \A m, n \in DOMAIN order : order[m] = order[n] => m = n

\* Where no cycle was met, the children of a finished node are finished, and
\* were finished before it; so no set of finished nodes names itself all over.
DownFirst ==
  ~cycle =>
    /\ \A x \in Keys : Black(x) => \A y \in Kids(x) \cap Keys : Black(y)
    /\ \A m, n \in DOMAIN order : order[n] \in Kids(order[m]) => n < m
    /\ \A some \in SUBSET Keys :
         some # {} /\ (\A x \in some : Black(x)) => \E x \in some : some \cap Kids(x) = {}

\* A set that names itself all over.
Circular(some) == some # {} /\ \A x \in some : some \cap Kids(x) # {}

Met == cycle => \E some \in SUBSET Keys : Circular(some)

RootsWalked ==
  /\ at <= Len(keys) + 1
  /\ stack # <<>> => at <= Len(keys)
  /\ \A n \in DOMAIN keys : n < at => color[keys[n]] # "white"

Walked ==
  /\ Coloured /\ Framed /\ GreyIsStacked /\ Nested /\ Followed
  /\ Listed /\ DownFirst /\ Met /\ RootsWalked

WalkInv ==
  /\ stage \in {"index", "ladder", "links"} => stack = <<>> /\ order = <<>> /\ ~cycle
  /\ stage \in {"walk", "done"} => Walked
  /\ stage = "done" => stack = <<>> /\ at = Len(keys) + 1

\* The fields of a link,
LEMMA LinkFields ==
  ASSUME NEW ln \in AnyLink
  PROVE  /\ ln.child \in Nat /\ ln.src \in Nat /\ ln.dst \in Nat /\ ln.length \in Nat \ {0}
         /\ ln.wellFormed \in BOOLEAN /\ ln.output \in AnyList
BY DEF AnyLink

\* and of a claim.
LEMMA ClaimFields ==
  ASSUME NEW c \in AnyClaim
  PROVE  /\ c.links \in Seq(AnyLink) /\ c.digest \in Nat \ {0} /\ c.replay \in BOOLEAN
         /\ c.inputs \in AnyList /\ c.output \in AnyList
         /\ c.cells \in Seq({"live", "dead", "indeterminate"})
BY DEF AnyClaim

LEMMA KeysAreDigests ==
  ASSUME TypeInv
  PROVE  /\ Keys \subseteq Int
         /\ \A x \in Keys : HasReceipt(x) => /\ node[x].claim \in AnyClaim
                                           /\ node[x].claim.digest = x
         /\ \A x \in Keys : ~HasReceipt(x) => x < 0 /\ node[x].claim = NoList
<1>1. Keys \subseteq Int
  BY DEF TypeInv, Keys
<1>2. \A x \in Keys : \/ x > 0 /\ node[x].claim \in AnyClaim /\ node[x].claim.digest = x
                      \/ x < 0 /\ node[x].claim = NoList
  BY Zenon DEF TypeInv
<1> QED
  BY <1>1, <1>2 DEF HasReceipt

\* The links of a claim name digests.
LEMMA GraphIsTyped ==
  ASSUME TypeInv
  PROVE  /\ Graph \in [Keys -> Seq(Nat)]
         /\ \A x \in Keys : Len(Graph[x]) = Len(Links(x)) /\ DOMAIN Links(x) = DOMAIN Graph[x]
                            /\ \A j \in DOMAIN Links(x) : Graph[x][j] = Links(x)[j].child
<1>1. ASSUME NEW x \in Keys
      PROVE  Links(x) \in Seq(AnyLink)
  <2>1. CASE x > 0
    <3>1. node[x].claim \in AnyClaim
      BY <2>1, KeysAreDigests DEF HasReceipt
    <3> QED
      BY <2>1, <3>1, ClaimFields DEF Links, HasReceipt, ClaimOf
  <2>2. CASE x < 0
    BY <2>2 DEF TypeInv, Links, HasReceipt, ClaimOf
  <2> QED
    BY <2>1, <2>2 DEF TypeInv
<1>2. ASSUME NEW x \in Keys
      PROVE  /\ Graph[x] = [j \in 1 .. Len(Links(x)) |-> Links(x)[j].child]
             /\ Graph[x] \in Seq(Nat) /\ Len(Graph[x]) = Len(Links(x))
             /\ DOMAIN Links(x) = 1 .. Len(Links(x)) /\ DOMAIN Graph[x] = 1 .. Len(Links(x))
  <2>1. /\ Len(Links(x)) \in Nat /\ DOMAIN Links(x) = 1 .. Len(Links(x))
        /\ \A j \in 1 .. Len(Links(x)) : Links(x)[j].child \in Nat
    BY <1>1, LinkFields
  <2>2. Graph[x] = [j \in 1 .. Len(Links(x)) |-> Links(x)[j].child]
    BY DEF Graph
  <2> QED
    BY <2>1, <2>2
<1> QED
  BY <1>2 DEF Graph

\* The graph is one of the claims alone.
LEMMA SameGraph ==
  ASSUME Keys' = Keys, Claimed' = Claimed
  PROVE  Graph' = Graph
<1>1. \A x \in Keys : node'[x].claim = node[x].claim
  BY DEF Claimed
<1>2. \A x \in Keys : Links(x)' = Links(x)
  BY <1>1 DEF Links, HasReceipt, ClaimOf
<1> QED
  BY <1>2 DEF Graph

\* Nothing was finished, no cycle was met.
LEMMA SameFinished ==
  ASSUME Listed, DownFirst, Met, Keys' = Keys, Graph' = Graph, UNCHANGED <<order, cycle>>,
         \A x \in Keys : Black(x)' <=> Black(x)
  PROVE  Listed' /\ DownFirst' /\ Met'
<1>1. \A x : Kids(x)' = Kids(x)
  BY DEF Kids
<1>2. Listed'
  BY DEF Listed
<1>3. DownFirst'
  BY <1>1 DEF DownFirst
<1>4. Met'
  BY <1>1 DEF Met, Circular
<1> QED
  BY <1>2, <1>3, <1>4

\* A root is pushed if it is white.
LEMMA WalkRoot ==
  ASSUME TypeInv, WalkInv, NextRoot
  PROVE  WalkInv'
<1>1. /\ stage = "walk" /\ stage' = "walk" /\ at \in 1 .. Len(keys) /\ keys' = keys /\ stack = <<>>
      /\ order' = order /\ cycle' = cycle
  BY DEF NextRoot, Walking, AtNode, indexVars, TypeInv
<1>2. Walked
  BY <1>1 DEF WalkInv
<1>3. Keys' = Keys /\ Graph' = Graph
  BY TypeLater, SameGraph DEF Walk
<1>4. Key \in Keys /\ Graph \in [Keys -> Seq(Nat)] /\ Len(Graph[Key]) \in Nat
  <2>1. at \in DOMAIN keys
    BY <1>1 DEF TypeInv
  <2>2. Key \in Keys
    BY <2>1 DEF Keys, Key
  <2> QED
    BY <2>2, GraphIsTyped
<1>5. \A x \in Keys : color[x] # "grey"
  BY <1>1, <1>2 DEF Walked, GreyIsStacked
<1>6. CASE color[Key] = "white"
  <2>1. /\ color' = [color EXCEPT ![Key] = "grey"]
        /\ stack' = <<<<Key, 0>>>> /\ at' = at
    BY <1>6 DEF NextRoot, Push
  <2>2. DOMAIN stack' = {1} /\ stack'[1] = <<Key, 0>> /\ stack' # <<>> /\ stack' \in Seq(Keys \X Nat)
    BY <1>4, <2>1
  <2>3. color \in [Keys -> {"white", "grey", "black"}]
    BY <1>2 DEF Walked, Coloured
  <2>4. \A x \in Keys : color'[x] = IF x = Key THEN "grey" ELSE color[x]
    BY <1>4, <2>1, <2>3
  <2>5. Coloured'
    BY <1>3, <2>1, <2>3 DEF Coloured
  <2>6. \A x \in Keys : Black(x)' <=> Black(x)
    BY <1>3, <1>6, <2>4 DEF Black
  <2>7. Listed' /\ DownFirst' /\ Met'
    BY <1>1, <1>2, <1>3, <2>6, SameFinished DEF Walked
  <2>8. Framed'
    BY <1>3, <1>4, <2>2 DEF Framed
  <2>9. GreyIsStacked'
    BY <1>3, <1>5, <2>2, <2>4 DEF GreyIsStacked
  <2>10. Nested' /\ Followed'
    BY <2>2 DEF Nested, Followed
  <2>11. RootsWalked'
    <3>1. RootsWalked /\ \A n \in DOMAIN keys : keys[n] \in Keys
      BY <1>2 DEF Walked, Keys
    <3> QED
      BY <1>1, <2>1, <2>4, <3>1 DEF RootsWalked
  <2> QED
    BY <1>1, <2>5, <2>7, <2>8, <2>9, <2>10, <2>11 DEF WalkInv, Walked
<1>7. CASE color[Key] # "white"
  <2>1. at' = at + 1 /\ UNCHANGED <<color, stack>>
    BY <1>7 DEF NextRoot
  <2>2. Coloured' /\ Framed' /\ GreyIsStacked' /\ Nested' /\ Followed'
    BY <1>1, <1>2, <1>3, <2>1 DEF Walked, Coloured, Framed, GreyIsStacked, Nested, Followed, Black
  <2>3. Listed' /\ DownFirst' /\ Met'
    BY <1>1, <1>2, <1>3, <2>1, SameFinished DEF Walked, Black
  <2>4. RootsWalked'
    <3>1. RootsWalked /\ keys \in Seq(Int)
      BY <1>2 DEF Walked, TypeInv
    <3> QED
      BY <1>1, <1>7, <2>1, <3>1 DEF RootsWalked, Key
  <2> QED
    BY <1>1, <2>2, <2>3, <2>4 DEF WalkInv, Walked
<1> QED
  BY <1>6, <1>7

\* The top of the stack, and what is under it.
LEMMA TopOfStack ==
  ASSUME TypeInv, Walked, stack # <<>>
  PROVE  /\ Len(stack) \in Nat \ {0} /\ DOMAIN stack = 1 .. Len(stack)
         /\ \A i \in 1 .. Len(stack) : stack[i] \in Keys \X Nat /\ stack[i][1] \in Keys /\ stack[i][2] \in Nat
         /\ Top = stack[Len(stack)] /\ Top[1] \in Keys /\ Top[2] \in Nat
         /\ Top[2] <= Len(Graph[Top[1]]) /\ color[Top[1]] = "grey"
         /\ Graph \in [Keys -> Seq(Nat)]
<1>1. stack \in Seq(Keys \X Nat)
  BY DEF Walked, Framed
<1>2. Len(stack) \in Nat \ {0} /\ DOMAIN stack = 1 .. Len(stack)
  BY <1>1, EmptySeq
<1>3. \A i \in 1 .. Len(stack) : stack[i] \in Keys \X Nat
  BY <1>1
<1>4. Top = stack[Len(stack)] /\ Len(stack) \in 1 .. Len(stack)
  BY <1>2 DEF Top
<1>5. Top[2] <= Len(Graph[Top[1]])
  BY <1>2, <1>4 DEF Walked, Framed
<1>6. Top[1] \in Keys /\ Top[2] \in Nat
  BY <1>3, <1>4
<1>7. color[Top[1]] = "grey"
  BY <1>2, <1>4, <1>6 DEF Walked, GreyIsStacked
<1> QED
  BY <1>2, <1>3, <1>4, <1>5, <1>6, <1>7, GraphIsTyped

\* The top of the stack is finished once its links are all followed.
LEMMA WalkFinish ==
  ASSUME TypeInv, WalkInv, FinishNode
  PROVE  WalkInv'
<1> DEFINE x == Top[1]
           Done(y) == y \in Keys /\ color'[y] = "black"
<1>1. /\ stage = "walk" /\ stage' = "walk" /\ keys' = keys /\ stack # <<>> /\ at' = at
      /\ color' = [color EXCEPT ![x] = "black"] /\ order' = Append(order, x)
      /\ stack' = Front(stack) /\ cycle' = cycle /\ Top[2] >= Len(Graph[x])
  <2>1. /\ stage = "walk" /\ stage' = "walk" /\ keys' = keys /\ stack # <<>> /\ at' = at
        /\ color' = [color EXCEPT ![x] = "black"] /\ order' = Append(order, x)
        /\ stack' = Front(stack) /\ cycle' = cycle /\ Top[2] >= Len(Links(Top[1]))
    BY DEF FinishNode, Walking, AtNode, indexVars
  <2>2. x \in Keys
    BY <2>1, TopOfStack DEF WalkInv
  <2> QED
    BY <2>1, <2>2, GraphIsTyped
<1>2. Walked
  BY <1>1 DEF WalkInv
<1>3. Keys' = Keys /\ Graph' = Graph
  BY TypeLater, SameGraph DEF Walk
<1>4. PICK t \in Nat \ {0} : Len(stack) = t
  BY <1>1, <1>2, TopOfStack
<1>5. PICK u \in Nat : Len(order) = u
  BY <1>2, Positions DEF Walked, Listed
<1>6. Graph \in [Keys -> Seq(Nat)]
  BY GraphIsTyped
<1>7. /\ DOMAIN stack = 1 .. t /\ t \in 1 .. t
      /\ \A i \in 1 .. t - 1 : i \in 1 .. t /\ i # t
      /\ \A i \in 1 .. t : stack[i][1] \in Keys /\ stack[i][2] \in Nat
      /\ Top = stack[t] /\ x \in Keys /\ color[x] = "grey"
  BY <1>4, <1>1, <1>2, TopOfStack
<1>8. Top[2] = Len(Graph[x]) /\ DOMAIN Graph[x] = 1 .. Len(Graph[x]) /\ Len(Graph[x]) \in Nat
  <2>1. Graph[x] \in Seq(Nat) /\ Top[2] <= Len(Graph[x]) /\ Top[2] \in Nat
    BY <1>1, <1>2, <1>6, <1>7, TopOfStack
  <2> QED
    BY <1>1, <2>1
<1>9. stack' \in Seq(Keys \X Nat)
  BY <1>1, <1>2, FrontOfStack DEF Walked, Framed
<1>10. DOMAIN stack' = 1 .. t - 1 /\ \A i \in 1 .. t - 1 : stack'[i] = stack[i]
  BY <1>4, <1>1, <1>2, FrontOfStack, Positions DEF Walked, Framed
<1>11. /\ color \in [Keys -> {"white", "grey", "black"}]
      /\ \A y \in Keys : color'[y] = IF y = x THEN "black" ELSE color[y]
  BY <1>1, <1>2, <1>7 DEF Walked, Coloured
<1>12. \A y : Done(y) <=> Black(y) \/ y = x
  BY <1>7, <1>11 DEF Black
<1>13. ~Black(x) /\ \A i \in 1 .. t - 1 : stack[i][1] # x
  BY <1>2, <1>7 DEF Black, Walked, GreyIsStacked
<1>14. \A y : Kids(y)' = Kids(y)
  BY <1>3 DEF Kids
<1>15. ~cycle => \A y \in Kids(x) \cap Keys : Black(y)
  <2> SUFFICES ASSUME ~cycle, NEW j \in 1 .. Len(Graph[x]), Graph[x][j] \in Keys
               PROVE  Black(Graph[x][j])
    BY <1>8 DEF Kids
  <2>1. t + 1 \notin DOMAIN stack /\ t \in DOMAIN stack
    BY <1>7
  <2> QED
    BY <1>2, <1>7, <1>8, <2>1 DEF Walked, Followed
<1>16. order \in Seq(Keys) /\ DOMAIN order = 1 .. u
       /\ \A n \in 1 .. u : order[n] \in Keys /\ Black(order[n])
  <2>1. order \in Seq(Keys)
    BY <1>2 DEF Walked, Listed
  <2>2. DOMAIN order = 1 .. u /\ \A n \in 1 .. u : order[n] \in Keys
    BY <1>5, <2>1, Positions
  <2> QED
    BY <1>2, <2>1, <2>2 DEF Walked, Listed
<1>17. /\ order' \in Seq(Keys) /\ DOMAIN order' = 1 .. u + 1
       /\ order'[u + 1] = x /\ \A n \in 1 .. u : order'[n] = order[n]
  BY <1>5, <1>1, <1>7, <1>16, Appended, Positions
<1>18. ASSUME NEW k \in 1 .. u + 1
      PROVE  order'[k] \in Keys /\ Done(order'[k])
  <2>1. CASE k = u + 1
    BY <1>7, <1>12, <1>17, <2>1
  <2>2. CASE k # u + 1
    <3>1. k \in 1 .. u
      BY <2>2
    <3> QED
      BY <1>12, <1>16, <1>17, <3>1
  <2> QED
    BY <2>1, <2>2
<1>19. Coloured'
  BY <1>1, <1>2, <1>3 DEF Walked, Coloured
<1>20. Framed'
  BY <1>2, <1>3, <1>7, <1>10, <1>9 DEF Walked, Framed
<1>21. GreyIsStacked'
  <2>1. ASSUME NEW y \in Keys
        PROVE  color'[y] = "grey" <=> \E i \in DOMAIN stack' : stack'[i][1] = y
    <3>1. CASE y = x
      BY <1>10, <1>11, <1>13, <3>1
    <3>2. CASE y # x
      <4>1. color[y] = "grey" <=> \E i \in 1 .. t : stack[i][1] = y
        BY <1>2, <1>7 DEF Walked, GreyIsStacked
      <4>2. (\E i \in 1 .. t : stack[i][1] = y) <=> \E i \in 1 .. t - 1 : stack[i][1] = y
        BY <1>7, <3>2
      <4> QED
        BY <1>10, <1>11, <3>2, <4>1, <4>2
    <3> QED
      BY <3>1, <3>2
  <2>2. \A i, j \in DOMAIN stack' : stack'[i][1] = stack'[j][1] => i = j
    BY <1>2, <1>7, <1>10 DEF Walked, GreyIsStacked
  <2> QED
    BY <1>3, <2>1, <2>2 DEF GreyIsStacked
<1>22. Nested'
  BY <1>2, <1>3, <1>7, <1>10 DEF Walked, Nested
<1>23. Followed'
  <2> SUFFICES ASSUME ~cycle, NEW i \in 1 .. t - 1, NEW j \in 1 .. stack[i][2],
                      Graph[stack[i][1]][j] \in Keys, ~(i + 1 \in 1 .. t - 1 /\ j = stack[i][2])
               PROVE  Done(Graph[stack[i][1]][j])
    BY <1>1, <1>3, <1>10 DEF Followed, Black
  <2>1. i \in 1 .. t /\ i + 1 \in 1 .. t /\ (i + 1 \in 1 .. t - 1 \/ i + 1 = t)
    OBVIOUS
  <2>2. CASE j = stack[i][2]
    <3>1. i + 1 = t
      BY <2>1, <2>2
    <3>2. Graph[stack[i][1]][j] = stack[t][1]
      BY <1>2, <1>7, <2>1, <2>2, <3>1 DEF Walked, Nested
    <3> QED
      BY <1>7, <1>12, <3>2
  <2>3. CASE j # stack[i][2]
    <3>1. Black(Graph[stack[i][1]][j])
      BY <1>2, <1>7, <2>1, <2>3 DEF Walked, Followed
    <3> QED
      BY <1>12, <3>1
  <2> QED
    BY <2>2, <2>3
<1>24. Listed'
  <2>1. ASSUME NEW y \in Keys
        PROVE  Done(y) <=> \E n \in DOMAIN order' : order'[n] = y
    <3>1. Black(y) <=> \E n \in 1 .. u : order[n] = y
      BY <1>2, <1>16 DEF Walked, Listed
    <3>2. (\E n \in DOMAIN order' : order'[n] = y) <=> y = x \/ \E n \in 1 .. u : order[n] = y
      BY <1>16, <1>17
    <3> QED
      BY <1>12, <3>1, <3>2
  <2>2. ASSUME NEW m \in 1 .. u + 1, NEW n \in 1 .. u + 1, order'[m] = order'[n]
        PROVE  m = n
    <3>1. \A k \in 1 .. u : order'[k] # x
      BY <1>13, <1>16, <1>17
    <3>2. CASE m = u + 1 \/ n = u + 1
      BY <1>16, <1>17, <2>2, <3>1, <3>2
    <3>3. CASE m \in 1 .. u /\ n \in 1 .. u
      BY <1>2, <1>16, <1>17, <2>2, <3>3 DEF Walked, Listed
    <3> QED
      BY <1>16, <3>2, <3>3
  <2> QED
    BY <1>3, <1>17, <2>1, <2>2 DEF Listed, Black
<1>25. DownFirst'
  <2> SUFFICES ASSUME ~cycle PROVE DownFirst'
    BY <1>1 DEF DownFirst
  <2>1. DownFirst
    BY <1>2 DEF Walked
  <2>2. \A y \in Keys : Done(y) => \A z \in Kids(y) \cap Keys : Black(z)
    BY <1>12, <1>15, <2>1 DEF DownFirst
  <2>3. ASSUME NEW m \in 1 .. u + 1, NEW n \in 1 .. u + 1,
               order'[n] \in Kids(order'[m])
        PROVE  n < m
    <3>1. order'[n] \in Keys /\ order'[m] \in Keys /\ Done(order'[m])
      BY <1>18
    <3>2. Black(order'[n])
      BY <2>2, <2>3, <3>1
    <3>3. n \in 1 .. u
      BY <1>13, <1>16, <1>17, <3>2
    <3>4. CASE m = u + 1
      BY <1>16, <3>3, <3>4
    <3>5. CASE m \in 1 .. u
      BY <1>16, <1>17, <2>1, <2>3, <3>3, <3>5 DEF DownFirst
    <3> QED
      BY <1>16, <3>4, <3>5
  <2>4. ASSUME NEW some \in SUBSET Keys, some # {}, \A y \in some : Done(y)
        PROVE  \E y \in some : some \cap Kids(y) = {}
    <3>1. CASE some = {x}
      <4>1. x \notin Kids(x)
        BY <1>7, <1>13, <1>15
      <4> QED
        BY <3>1, <4>1
    <3>2. CASE some # {x}
      <4> DEFINE others == some \ {x}
      <4>1. others \in SUBSET Keys /\ others # {} /\ \A y \in others : Black(y)
        BY <1>12, <2>4, <3>2
      <4>2. PICK y \in others : others \cap Kids(y) = {}
        BY <2>1, <4>1 DEF DownFirst
      <4>3. x \notin Kids(y)
        BY <1>7, <1>13, <2>1, <4>1 DEF DownFirst
      <4> QED
        BY <4>2, <4>3
    <3> QED
      BY <3>1, <3>2
  <2> QED
    BY <1>3, <1>12, <1>14, <1>17, <2>2, <2>3, <2>4 DEF DownFirst, Black
<1>26. Met'
  BY <1>1, <1>2, <1>3, <1>14 DEF Walked, Met, Circular
<1>27. RootsWalked'
  <2>1. RootsWalked /\ \A n \in DOMAIN keys : keys[n] \in Keys
    BY <1>2 DEF Walked, Keys
  <2> QED
    BY <1>1, <1>11, <2>1 DEF RootsWalked
<1> QED
  BY <1>1, <1>19, <1>20, <1>21, <1>22, <1>23, <1>24, <1>25, <1>26, <1>27 DEF WalkInv, Walked

\* A link is followed: to a white node, to a grey one (a cycle), to one that is
\* finished, or to one that is missing.
LEMMA WalkFollow ==
  ASSUME TypeInv, WalkInv, FollowLink
  PROVE  WalkInv'
<1> DEFINE x == Top[1]
<1>1. /\ stage = "walk" /\ stage' = "walk" /\ keys' = keys /\ stack # <<>> /\ at' = at
      /\ order' = order /\ at <= Len(keys)
  BY DEF FollowLink, Walking, AtNode, indexVars
<1>2. Walked /\ GreyIsStacked /\ Nested /\ Followed
  BY <1>1 DEF WalkInv, Walked
<1>3. Keys' = Keys /\ Graph' = Graph
  BY TypeLater, SameGraph DEF Walk
<1>4. PICK t \in Nat \ {0} : Len(stack) = t
  BY <1>1, <1>2, TopOfStack
<1>5. Graph \in [Keys -> Seq(Nat)]
  BY GraphIsTyped
<1>6. /\ DOMAIN stack = 1 .. t /\ t \in 1 .. t
      /\ \A i \in 1 .. t - 1 : i \in 1 .. t /\ i # t
      /\ \A i \in 1 .. t : stack[i][1] \in Keys /\ stack[i][2] \in Nat
      /\ Top = stack[t] /\ x \in Keys /\ color[x] = "grey"
  BY <1>1, <1>2, <1>4, TopOfStack
<1>7. PICK j \in Nat \ {0} : j = Top[2] + 1 /\ Top[2] \in Nat
  BY <1>1, <1>2, TopOfStack
<1>8. j \in DOMAIN Graph[x] /\ j <= Len(Graph[x]) /\ stack[t][2] = j - 1
      /\ Links(Top[1])[Top[2] + 1].child = Graph[x][j]
  <2>1. Graph[x] \in Seq(Nat) /\ Top[2] < Len(Graph[x])
    BY <1>5, <1>6, GraphIsTyped DEF FollowLink
  <2>2. j \in DOMAIN Graph[x] /\ j <= Len(Graph[x])
    BY <1>7, <2>1
  <2>3. stack[t][2] = j - 1
    BY <1>6, <1>7
  <2> QED
    BY <1>6, <1>7, <2>2, <2>3, GraphIsTyped
<1>9. PICK child \in Nat : child = Graph[x][j]
  BY <1>5, <1>6, <1>8
<1>10. child \in Kids(x)
  BY <1>8, <1>9 DEF Kids
<1> DEFINE rest == Append(Front(stack), <<x, j>>)
           found == IF child \in Keys THEN color[child] ELSE "none"
<1>11. /\ rest \in Seq(Keys \X Nat) /\ Len(rest) = t /\ DOMAIN rest = 1 .. t
       /\ rest[t] = <<x, j>> /\ \A i \in 1 .. t - 1 : rest[i] = stack[i]
  <2>1. stack \in Seq(Keys \X Nat)
    BY <1>2 DEF Walked, Framed
  <2>2. /\ Front(stack) \in Seq(Keys \X Nat) /\ Len(Front(stack)) = t - 1
        /\ \A i \in 1 .. t - 1 : Front(stack)[i] = stack[i]
    BY <1>1, <1>4, <2>1, FrontOfStack
  <2>3. <<x, j>> \in Keys \X Nat
    BY <1>6, <1>7
  <2>4. /\ rest \in Seq(Keys \X Nat) /\ Len(rest) = Len(Front(stack)) + 1
        /\ \A i \in 1 .. Len(Front(stack)) : rest[i] = Front(stack)[i]
        /\ rest[Len(Front(stack)) + 1] = <<x, j>>
    BY <2>2, <2>3, Appended
  <2>5. Len(rest) = t /\ rest[t] = <<x, j>> /\ \A i \in 1 .. t - 1 : rest[i] = stack[i]
    BY <2>2, <2>4
  <2> QED
    BY <2>4, <2>5, Positions
<1> HIDE DEF rest
<1>12. /\ \A i \in 1 .. t : rest[i][1] = stack[i][1] /\ rest[i][2] \in Nat
       /\ \A i \in 1 .. t : rest[i][2] = IF i = t THEN j ELSE stack[i][2]
  <2>1. ASSUME NEW i \in 1 .. t
        PROVE  /\ rest[i][1] = stack[i][1] /\ rest[i][2] \in Nat
               /\ rest[i][2] = IF i = t THEN j ELSE stack[i][2]
    <3>1. CASE i = t
      BY <1>6, <1>11, <3>1
    <3>2. CASE i # t
      <4>1. i \in 1 .. t - 1
        BY <3>2
      <4> QED
        BY <1>6, <1>11, <3>2, <4>1
    <3> QED
      BY <3>1, <3>2
  <2> QED
    BY <2>1
<1>13. /\ IF found = "white"
          THEN color' = [color EXCEPT ![child] = "grey"] /\ stack' = Append(rest, <<child, 0>>)
          ELSE stack' = rest /\ color' = color
       /\ IF found = "grey" THEN cycle' = TRUE ELSE cycle' = cycle
  BY <1>7, <1>8, <1>9 DEF FollowLink, Push, rest
<1>14. \A y : Kids(y)' = Kids(y)
  BY <1>3 DEF Kids
<1>15. color \in [Keys -> {"white", "grey", "black"}]
  BY <1>2 DEF Walked, Coloured
<1>16. CASE found = "white"
  <2>1. child \in Keys /\ color[child] = "white" /\ color' = [color EXCEPT ![child] = "grey"]
        /\ stack' = Append(rest, <<child, 0>>) /\ cycle' = cycle
    BY <1>13, <1>16
  <2>2. \A y \in Keys : color'[y] = IF y = child THEN "grey" ELSE color[y]
    BY <1>15, <2>1
  <2>3. <<child, 0>> \in Keys \X Nat
    BY <2>1
  <2>4. /\ stack' \in Seq(Keys \X Nat) /\ DOMAIN stack' = 1 .. t + 1
        /\ stack'[t + 1] = <<child, 0>> /\ \A i \in 1 .. t : stack'[i] = rest[i]
    BY <1>11, <2>1, <2>3, Appended, Positions
  <2>5. \A y \in Keys : Black(y)' <=> Black(y)
    BY <1>3, <2>1, <2>2 DEF Black
  <2>6. Listed' /\ DownFirst' /\ Met'
    BY <1>1, <1>2, <1>3, <2>1, <2>5, SameFinished DEF Walked
  <2>7. Coloured'
    BY <1>3, <1>15, <2>1 DEF Coloured
  <2>8. ASSUME NEW i \in 1 .. t + 1, i # t + 1
        PROVE  i \in 1 .. t
    BY <2>8
  <2>9. Framed'
    <3>1. ASSUME NEW i \in 1 .. t + 1
          PROVE  stack'[i][2] <= Len(Graph[stack'[i][1]])
      <4>1. CASE i = t + 1
        <5>1. Graph[child] \in Seq(Nat)
          BY <1>5, <2>1
        <5> QED
          BY <2>4, <4>1, <5>1
      <4>2. CASE i = t
        BY <1>6, <1>8, <1>11, <2>4, <4>2
      <4>3. CASE i \in 1 .. t /\ i # t
        <5>1. stack[i][2] <= Len(Graph[stack[i][1]])
          BY <1>2, <1>6, <4>3 DEF Walked, Framed
        <5> QED
          BY <1>12, <2>4, <4>3, <5>1
      <4> QED
        BY <2>8, <4>1, <4>2, <4>3
    <3> QED
      BY <1>3, <2>4, <3>1 DEF Framed
  <2>10. \A i \in 1 .. t : stack[i][1] # child /\ stack'[i][1] = stack[i][1]
    BY <1>2, <1>6, <1>12, <2>1, <2>4 DEF GreyIsStacked
  <2>11. t + 1 \in 1 .. t + 1 /\ \A i \in 1 .. t : i \in 1 .. t + 1 /\ i # t + 1
    OBVIOUS
  <2>12. stack'[t + 1][1] = child
    BY <2>4
  <2>13. GreyIsStacked'
    <3>1. ASSUME NEW y \in Keys
          PROVE  color'[y] = "grey" <=> \E i \in 1 .. t + 1 : stack'[i][1] = y
      <4>1. CASE y = child
        BY <2>2, <2>11, <2>12, <4>1
      <4>2. CASE y # child
        <5>1. color[y] = "grey" <=> \E i \in 1 .. t : stack[i][1] = y
          BY <1>2, <1>6 DEF GreyIsStacked
        <5> QED
          BY <2>2, <2>8, <2>10, <2>11, <2>12, <4>2, <5>1
      <4> QED
        BY <4>1, <4>2
    <3>2. ASSUME NEW m \in 1 .. t + 1, NEW n \in 1 .. t + 1, stack'[m][1] = stack'[n][1]
          PROVE  m = n
      <4>1. CASE m = t + 1 \/ n = t + 1
        BY <2>8, <2>10, <2>12, <3>2, <4>1
      <4>2. CASE m # t + 1 /\ n # t + 1
        <5>1. m \in 1 .. t /\ n \in 1 .. t
          BY <4>2, <2>8
        <5>2. stack[m][1] = stack[n][1]
          BY <2>10, <3>2, <5>1
        <5> QED
          BY <1>2, <1>6, <5>1, <5>2 DEF GreyIsStacked
      <4> QED
        BY <4>1, <4>2
    <3> QED
      BY <1>3, <2>4, <3>1, <3>2 DEF GreyIsStacked
  <2>14. Nested'
    <3>1. ASSUME NEW i \in 1 .. t + 1, i + 1 \in 1 .. t + 1
          PROVE  stack'[i][2] >= 1 /\ Graph[stack'[i][1]][stack'[i][2]] = stack'[i + 1][1]
      <4>1. i \in 1 .. t
        BY <3>1
      <4>2. CASE i = t
        BY <1>6, <1>9, <1>11, <2>4, <2>10, <2>12, <4>1, <4>2
      <4>3. CASE i # t
        <5>1. i + 1 \in 1 .. t
          BY <4>1, <4>3
        <5>2. stack[i][2] >= 1 /\ Graph[stack[i][1]][stack[i][2]] = stack[i + 1][1]
          BY <1>2, <1>6, <4>1, <5>1 DEF Nested
        <5>3. stack'[i][2] = stack[i][2] /\ stack'[i][1] = stack[i][1] /\ stack'[i + 1][1] = stack[i + 1][1]
          BY <1>12, <2>4, <2>10, <4>1, <4>3, <5>1
        <5> QED
          BY <5>2, <5>3
      <4> QED
        BY <4>2, <4>3
    <3> QED
      BY <1>3, <2>4, <3>1 DEF Nested
  <2>15. Followed'
    <3> SUFFICES ASSUME ~cycle, NEW i \in 1 .. t + 1, NEW k \in 1 .. stack'[i][2],
                        Graph[stack'[i][1]][k] \in Keys, ~(i + 1 \in 1 .. t + 1 /\ k = stack'[i][2])
                 PROVE  Black(Graph[stack'[i][1]][k])
      <4>1. \A y \in Keys : (y \in Keys /\ color'[y] = "black") <=> Black(y)
        BY <2>1, <2>2 DEF Black
      <4> QED
        <5>1. Graph' = Graph /\ Keys' = Keys /\ DOMAIN stack' = 1 .. t + 1 /\ cycle' = cycle
          BY <1>3, <2>1, <2>4
        <5> HIDE DEF Graph, Keys
        <5> QED
          BY <4>1, <5>1 DEF Followed, Black
    <3>1. CASE i = t + 1
      BY <2>4, <3>1
    <3>2. CASE i = t
      <4>1. stack'[i][2] = j /\ stack'[i][1] = stack[t][1]
        BY <1>6, <1>11, <2>4, <2>10, <3>2
      <4>2. k \in 1 .. stack[t][2] /\ ~(t + 1 \in 1 .. t)
        BY <1>7, <1>8, <3>2, <4>1
      <4> QED
        BY <1>2, <1>6, <2>1, <4>1, <4>2 DEF Followed
    <3>3. CASE i \in 1 .. t /\ i # t
      <4>1. stack'[i][2] = stack[i][2] /\ stack'[i][1] = stack[i][1]
        BY <1>12, <2>4, <2>10, <3>3
      <4>2. i + 1 \in 1 .. t /\ i + 1 \in 1 .. t + 1
        BY <3>3
      <4> QED
        BY <1>2, <1>6, <2>1, <3>3, <4>1, <4>2 DEF Followed
    <3> QED
      BY <2>8, <3>1, <3>2, <3>3
  <2>16. RootsWalked'
    <3>1. RootsWalked /\ \A n \in DOMAIN keys : keys[n] \in Keys
      BY <1>2 DEF Walked, Keys
    <3> QED
      BY <1>1, <2>2, <3>1 DEF RootsWalked
  <2> QED
    BY <1>1, <2>6, <2>7, <2>9, <2>13, <2>14, <2>15, <2>16 DEF WalkInv, Walked
<1>17. CASE found # "white"
  <2>1. stack' = rest /\ color' = color
    BY <1>13, <1>17
  <2>2. Coloured' /\ RootsWalked'
    BY <1>1, <1>2, <1>3, <2>1 DEF Walked, Coloured, RootsWalked
  <2>3. Framed'
    <3>1. ASSUME NEW i \in 1 .. t
          PROVE  rest[i][2] <= Len(Graph[rest[i][1]])
      <4>1. CASE i = t
        BY <1>6, <1>8, <1>12, <4>1
      <4>2. CASE i # t
        <5>1. stack[i][2] <= Len(Graph[stack[i][1]])
          BY <1>2, <1>6 DEF Walked, Framed
        <5> QED
          BY <1>12, <4>2, <5>1
      <4> QED
        BY <4>1, <4>2
    <3> QED
      BY <1>3, <1>11, <2>1, <3>1 DEF Framed
  <2>4. GreyIsStacked'
    <3>1. ASSUME NEW y \in Keys
          PROVE  color[y] = "grey" <=> \E i \in 1 .. t : rest[i][1] = y
      BY <1>2, <1>6, <1>12, SMTT(30) DEF GreyIsStacked
    <3>2. \A m, n \in 1 .. t : rest[m][1] = rest[n][1] => m = n
      BY <1>2, <1>6, <1>12, SMTT(30) DEF GreyIsStacked
    <3> QED
      BY <1>3, <1>11, <2>1, <3>1, <3>2 DEF GreyIsStacked
  <2>5. Nested'
    <3>1. ASSUME NEW i \in 1 .. t, i + 1 \in 1 .. t
          PROVE  rest[i][2] >= 1 /\ Graph[rest[i][1]][rest[i][2]] = rest[i + 1][1]
      <4>1. i # t
        BY <3>1
      <4>2. stack[i][2] >= 1 /\ Graph[stack[i][1]][stack[i][2]] = stack[i + 1][1]
        BY <1>2, <1>6, <3>1 DEF Nested
      <4> QED
        BY <1>12, <3>1, <4>1, <4>2
    <3> QED
      BY <1>3, <1>11, <2>1, <3>1 DEF Nested
  <2>6. CASE found = "grey"
    <3>1. cycle' = TRUE /\ child \in Keys /\ color[child] = "grey"
      BY <1>13, <2>6
    <3>2. Followed' /\ DownFirst'
      BY <3>1 DEF Followed, DownFirst
    <3>3. Listed'
      BY <1>1, <1>2, <1>3, <2>1 DEF Walked, Listed, Black
    <3>4. PICK b \in 1 .. t : stack[b][1] = child
      BY <1>2, <1>6, <3>1 DEF GreyIsStacked
    <3> DEFINE loop == {stack[i][1] : i \in b .. t}
    <3>5. loop \in SUBSET Keys /\ loop # {} /\ child \in loop
      BY <1>6, <3>4
    <3>6. ASSUME NEW i \in b .. t
          PROVE  loop \cap Kids(stack[i][1]) # {}
      <4>1. CASE i = t
        BY <1>6, <1>10, <3>5, <4>1
      <4>2. CASE i # t
        <5>1. i \in 1 .. t /\ i + 1 \in 1 .. t /\ i + 1 \in b .. t
          BY <4>2
        <5>2. stack[i][2] >= 1 /\ Graph[stack[i][1]][stack[i][2]] = stack[i + 1][1]
          BY <1>2, <1>6, <5>1 DEF Nested
        <5>3. stack[i][2] \in DOMAIN Graph[stack[i][1]]
          <6>1. Graph[stack[i][1]] \in Seq(Nat) /\ stack[i][2] \in Nat
            BY <1>5, <1>6, <5>1
          <6>2. stack[i][2] <= Len(Graph[stack[i][1]])
            BY <1>2, <1>6, <5>1 DEF Walked, Framed
          <6> QED
            BY <5>2, <6>1, <6>2
        <5>4. stack[i + 1][1] \in Kids(stack[i][1])
          BY <5>2, <5>3 DEF Kids
        <5>5. stack[i + 1][1] \in loop
          BY <5>1
        <5> QED
          BY <5>4, <5>5
      <4> QED
        BY <4>1, <4>2
    <3>7. Circular(loop)
      BY <3>5, <3>6 DEF Circular
    <3>8. Met'
      <4>1. \A some : Circular(some)' <=> Circular(some)
        BY <1>14 DEF Circular
      <4>2. \E some \in SUBSET Keys : Circular(some)
        BY <3>5, <3>7
      <4> QED
        BY <1>3, <4>1, <4>2 DEF Met
    <3> QED
      BY <1>1, <2>2, <2>3, <2>4, <2>5, <3>2, <3>3, <3>8 DEF WalkInv, Walked
  <2>7. CASE found # "grey"
    <3>1. cycle' = cycle
      BY <1>13, <2>7
    <3>2. child \in Keys => Black(child)
      BY <1>15, <1>17, <2>7 DEF Black
    <3>3. Listed' /\ DownFirst' /\ Met'
      BY <1>1, <1>2, <1>3, <2>1, <3>1, SameFinished DEF Walked, Black
    <3>4. Followed'
      <4> SUFFICES ASSUME ~cycle, NEW i \in 1 .. t, NEW k \in 1 .. rest[i][2],
                          Graph[rest[i][1]][k] \in Keys, ~(i + 1 \in 1 .. t /\ k = rest[i][2])
                   PROVE  Black(Graph[rest[i][1]][k])
        BY <1>3, <1>11, <2>1, <3>1, ZenonT(60) DEF Followed, Black
      <4>1. CASE i = t
        <5>1. rest[i][2] = j /\ rest[i][1] = x /\ ~(i + 1 \in 1 .. t)
          BY <1>6, <1>12, <4>1
        <5>2. CASE k = j
          BY <1>9, <3>2, <5>1, <5>2
        <5>3. CASE k # j
          <6>1. k \in 1 .. stack[i][2]
            BY <1>7, <1>8, <4>1, <5>1, <5>3
          <6> QED
            BY <1>2, <1>6, <4>1, <5>1, <6>1 DEF Followed
        <5> QED
          BY <5>2, <5>3
      <4>2. CASE i # t
        BY <1>2, <1>6, <1>12, <4>2 DEF Followed
      <4> QED
        BY <4>1, <4>2
    <3> QED
      BY <1>1, <2>2, <2>3, <2>4, <2>5, <3>3, <3>4 DEF WalkInv, Walked
  <2> QED
    BY <2>6, <2>7
<1> QED
  BY <1>16, <1>17

\* Every step of the walk, and of the stages before it.
LEMMA WalkStep ==
  ASSUME TypeInv, WalkInv, [Next]_vars
  PROVE  WalkInv'
<1>1. CASE UNCHANGED vars
  <2>1. Keys' = Keys /\ Graph' = Graph
    BY <1>1 DEF vars, Keys, Graph, Links, HasReceipt, ClaimOf
  <2> QED
    <3>1. UNCHANGED <<stage, at, keys, color, stack, order, cycle>>
      BY <1>1 DEF vars
    <3>2. Walked => Walked'
      <4> SUFFICES ASSUME Walked PROVE Walked'
        OBVIOUS
      <4>1. Coloured' /\ Framed' /\ GreyIsStacked' /\ Nested' /\ Followed' /\ RootsWalked'
        <5>1. Coloured' /\ GreyIsStacked' /\ RootsWalked'
          BY <2>1, <3>1 DEF Walked, Coloured, GreyIsStacked, RootsWalked
        <5>2. Framed' /\ Nested'
          BY <2>1, <3>1 DEF Walked, Framed, Nested
        <5>3. Followed'
          <6> HIDE DEF Graph
          <6> QED
            BY <2>1, <3>1 DEF Walked, Followed, Black
        <5> QED
          BY <5>1, <5>2, <5>3
      <4>2. Listed' /\ DownFirst' /\ Met'
        BY <2>1, <3>1, SameFinished DEF Walked, Black
      <4> QED
        BY <4>1, <4>2 DEF Walked
    <3> QED
      BY <3>1, <3>2 DEF WalkInv
<1>2. CASE UNCHANGED walkVars /\ stage \in {"index", "ladder", "links"}
                              /\ stage' \in {"index", "ladder", "links"}
  BY <1>2 DEF WalkInv, walkVars
<1>3. CASE Index \/ Ladder \/ (LinkStep /\ ~LinksDone)
  BY <1>2, <1>3 DEF Index, IndexPlaceholder, IndexNew, IndexCollision, IndexEnvelope, Indexed, Indexing,
       NextDoc, Ladder, RunLadder, LaddersDone, AtNode, LinkStep, SkipLinks, BadParent, BeginLinks,
       CheckLink, EndLinks
<1>4. CASE LinksDone
  <2>1. /\ stage = "links" /\ stage' = "walk" /\ at' = 1 /\ stack' = <<>> /\ order' = <<>> /\ ~cycle'
        /\ color' = [x \in Keys |-> "white"] /\ keys' = keys
    BY <1>4 DEF LinksDone, WalkInv, indexVars
  <2>2. Keys' = Keys /\ keys \in Seq(Int)
    BY <2>1 DEF Keys, TypeInv
  <2>3. Coloured' /\ Framed' /\ GreyIsStacked' /\ Nested' /\ Followed'
    BY <2>1, <2>2 DEF Coloured, Framed, GreyIsStacked, Nested, Followed
  <2>4. \A x : ~Black(x)'
    BY <2>1, <2>2 DEF Black
  <2>5. Listed' /\ Met'
    BY <2>1, <2>2, <2>4 DEF Listed, Met
  <2>6. DownFirst'
    BY <2>1, <2>2, <2>4 DEF DownFirst
  <2>7. RootsWalked'
    BY <2>1, <2>2 DEF RootsWalked
  <2> QED
    BY <2>1, <2>3, <2>5, <2>6, <2>7 DEF WalkInv, Walked
<1>5. CASE WalkDone
  <2>1. /\ stage = "walk" /\ stage' = "done" /\ at = Len(keys) + 1
        /\ UNCHANGED <<keys, node, at, color, stack, order, cycle>>
    BY <1>5 DEF WalkDone, indexVars, walkVars
  <2>2. Keys' = Keys /\ Graph' = Graph
    BY <2>1 DEF Keys, Graph, Links, HasReceipt, ClaimOf
  <2>3. Walked
    BY <2>1 DEF WalkInv
  <2>4. Walked'
    <3>1. Coloured' /\ Framed' /\ GreyIsStacked' /\ Nested' /\ Followed' /\ RootsWalked'
      BY <2>1, <2>2, <2>3 DEF Walked, Coloured, Framed, GreyIsStacked, Nested, Followed, Black,
                              RootsWalked
    <3>2. Listed' /\ DownFirst' /\ Met'
      BY <2>1, <2>2, <2>3, SameFinished DEF Walked, Black
    <3> QED
      BY <3>1, <3>2 DEF Walked
  <2>5. stack = <<>>
    BY <2>1, <2>3 DEF Walked, RootsWalked, TypeInv
  <2> QED
    BY <2>1, <2>4, <2>5 DEF WalkInv
<1> QED
  BY <1>1, <1>3, <1>4, <1>5, WalkRoot, WalkFinish, WalkFollow DEF Next, LinkStep, Walk

\* When it is over every node is finished.
LEMMA AllFinished ==
  ASSUME TypeInv, WalkInv, stage = "done"
  PROVE  Walked /\ \A x \in Keys : Black(x)
<1>1. Walked /\ stack = <<>> /\ at = Len(keys) + 1
  BY DEF WalkInv
<1>2. ASSUME NEW x \in Keys
      PROVE  Black(x)
  <2>1. PICK n \in DOMAIN keys : keys[n] = x
    BY DEF Keys
  <2>2. n < at
    BY <1>1 DEF TypeInv
  <2>3. color[x] # "white"
    BY <1>1, <2>1, <2>2 DEF Walked, RootsWalked
  <2>4. color[x] # "grey"
    BY <1>1 DEF Walked, GreyIsStacked
  <2> QED
    BY <1>1, <2>3, <2>4 DEF Walked, Coloured, Black
<1> QED
  BY <1>1, <1>2

\* What a receipt's claim names is what the walk follows.
LEMMA KidsAreNamed ==
  ASSUME TypeInv, NEW x \in Keys
  PROVE  /\ HasReceipt(x) => Kids(x) = NamedBy(ClaimOf(x)) /\ ClaimOf(x).digest = x
         /\ ~HasReceipt(x) => Kids(x) = {}
<1>1. CASE HasReceipt(x)
  <2>1. Links(x) = ClaimOf(x).links
    BY <1>1 DEF Links
  <2> QED
    <3>1. ClaimOf(x).digest = x
      BY <1>1, KeysAreDigests DEF ClaimOf
    <3>2. DOMAIN ClaimOf(x).links = DOMAIN Graph[x]
          /\ \A j \in DOMAIN Graph[x] : Graph[x][j] = ClaimOf(x).links[j].child
      BY <2>1, GraphIsTyped
    <3>3. Kids(x) = NamedBy(ClaimOf(x))
      BY <3>2 DEF Kids, NamedBy
    <3> QED
      BY <1>1, <3>1, <3>3
<1>2. CASE ~HasReceipt(x)
  <2>1. Links(x) = <<>>
    BY <1>2 DEF Links
  <2>2. DOMAIN Graph[x] = {}
    BY <2>1, GraphIsTyped
  <2> QED
    BY <1>2, <2>2 DEF Kids
<1> QED
  BY <1>1, <1>2

\* At the end every node is finished; a circular set would have a node whose
\* children in it were finished before it, all over.
LEMMA CycleIsReported ==
  ASSUME TypeInv, WalkInv
  PROVE  CycleReported
<1> SUFFICES ASSUME stage = "done"
             PROVE  cycle <=> Cyclic({ClaimOf(x) : x \in {y \in Keys : HasReceipt(y)}})
  BY DEF CycleReported
<1> DEFINE claims == {ClaimOf(x) : x \in {y \in Keys : HasReceipt(y)}}
<1>1. Walked /\ \A x \in Keys : Black(x)
  BY AllFinished
<1>2. ASSUME cycle
      PROVE  Cyclic(claims)
  <2>1. PICK some \in SUBSET Keys : Circular(some)
    BY <1>1, <1>2 DEF Walked, Met
  <2>2. \A x \in some : HasReceipt(x) /\ Kids(x) = NamedBy(ClaimOf(x)) /\ ClaimOf(x).digest = x
    BY <2>1, KidsAreNamed DEF Circular
  <2> DEFINE named == {ClaimOf(x) : x \in some}
  <2>3. named \in (SUBSET claims) \ {{}}
    BY <2>1, <2>2 DEF Circular
  <2>4. \A c \in named : \E e \in named : e.digest \in NamedBy(c)
    <3> SUFFICES ASSUME NEW x \in some
                 PROVE  \E e \in named : e.digest \in NamedBy(ClaimOf(x))
      OBVIOUS
    <3>1. PICK y \in some : y \in Kids(x)
      BY <2>1 DEF Circular
    <3> QED
      BY <2>2, <3>1
  <2> QED
    BY <2>3, <2>4 DEF Cyclic
<1>3. ASSUME ~cycle, Cyclic(claims)
      PROVE  FALSE
  <2>1. PICK some \in (SUBSET claims) \ {{}} : \A c \in some : \E e \in some : e.digest \in NamedBy(c)
    BY <1>3 DEF Cyclic
  <2> DEFINE held == {x \in Keys : HasReceipt(x) /\ ClaimOf(x) \in some}
  <2>2. \A c \in some : c.digest \in held /\ ClaimOf(c.digest) = c
    BY <2>1, KidsAreNamed
  <2>3. \E c : c \in some
    BY <2>1
  <2>a. held \in SUBSET Keys /\ held # {} /\ \A x \in held : Black(x)
    BY <1>1, <2>2, <2>3
  <2>4. PICK x \in held : held \cap Kids(x) = {}
    BY <1>1, <1>3, <2>a DEF Walked, DownFirst
  <2>5. PICK e \in some : e.digest \in NamedBy(ClaimOf(x))
    BY <2>1
  <2> QED
    BY <2>2, <2>4, <2>5, KidsAreNamed
<1> QED
  BY <1>2, <1>3

\* The finish order is that of DownFirst.
LEMMA ChildrenComeFirst ==
  ASSUME TypeInv, WalkInv
  PROVE  ChildrenFirst
<1> SUFFICES ASSUME stage = "done" PROVE ChildrenFirst
  BY DEF ChildrenFirst
<1>1. Walked /\ \A x \in Keys : Black(x)
  BY AllFinished
<1>2. /\ order \in Seq(Keys)
      /\ \A x \in Keys : \E n \in DOMAIN order : order[n] = x
      /\ \A m, n \in DOMAIN order : order[m] = order[n] => m = n
  BY <1>1 DEF Walked, Listed
<1>3. PICK u \in Nat : u = Len(order) /\ DOMAIN order = 1 .. u /\ order \in [1 .. u -> Keys]
  BY <1>2
<1>4. Elements(order) = Keys
  BY <1>2, <1>3 DEF Elements
<1>5. Cardinality(Keys) = u
  <2>1. order \in Bijection(1 .. u, Keys)
    BY <1>2, <1>3 DEF Bijection, Injection, Surjection, IsInjective
  <2>2. IsFiniteSet(1 .. u) /\ Cardinality(1 .. u) = u
    BY FS_Interval
  <2>3. ExistsBijection(1 .. u, Keys)
    BY <2>1 DEF ExistsBijection
  <2> QED
    BY <2>2, <2>3, FS_Bijection
<1>6. ~cycle => \A m, n \in DOMAIN order : HasReceipt(order[m]) /\ order[n] \in NamedBy(ClaimOf(order[m])) => n < m
  <2> SUFFICES ASSUME ~cycle, NEW m \in DOMAIN order, NEW n \in DOMAIN order, HasReceipt(order[m]),
                      order[n] \in NamedBy(ClaimOf(order[m]))
               PROVE  n < m
    OBVIOUS
  <2>1. order[n] \in Kids(order[m])
    BY <1>3, KidsAreNamed
  <2> QED
    BY <1>1, <2>1 DEF Walked, DownFirst
<1> QED
  BY <1>3, <1>4, <1>5, <1>6 DEF ChildrenFirst

-----------------------------------------------------------------------------
(* The index.  Each property is one of the documents read so far. *)

\* How many documents were read.
Read == IF stage = "index" THEN at - 1 ELSE Len(docs)

ReceiptAt(n) == n \in 1 .. Read /\ IsReceipt(docs[n])

\* The keys are the digests of the receipts read and one for each other item;
\* a node holds the documents of its claim; two claims of a digest collide.
KeyedByClaim ==
  \A x \in Keys :
    IF HasReceipt(x) THEN \E n \in 1 .. Read : IsReceipt(docs[n]) /\ docs[n].claim = ClaimOf(x)
                     ELSE \E n \in 1 .. Read : ~IsReceipt(docs[n]) /\ x = PlaceholderKey(n)

EachKeyed ==
  \A n \in 1 .. Read :
    (IF IsReceipt(docs[n]) THEN docs[n].claim.digest ELSE PlaceholderKey(n)) \in Keys

EnvelopesKept ==
  \A x \in Keys : HasReceipt(x) =>
    \A d : d \in node[x].envelopes <=>
            \E n \in 1 .. Read : IsReceipt(docs[n]) /\ docs[n].claim = ClaimOf(x) /\ d = docs[n]

Colliding(m, n) ==
  /\ IsReceipt(docs[m]) /\ IsReceipt(docs[n])
  /\ docs[m].claim.digest = docs[n].claim.digest /\ docs[m].claim # docs[n].claim

CollisionNoted == collision <=> \E m, n \in 1 .. Read : Colliding(m, n)

KeysOnce == \A m, n \in DOMAIN keys : keys[m] = keys[n] => m = n

IndexInv ==
  /\ stage = "index" => at <= Len(docs) + 1
  /\ KeyedByClaim /\ EachKeyed /\ EnvelopesKept /\ CollisionNoted /\ KeysOnce

\* Nothing is read.
LEMMA IndexInit ==
  ASSUME Fresh
  PROVE  IndexInv
<1>1. Keys = {} /\ Read = 0 /\ DOMAIN keys = {} /\ ~collision /\ at = 1
  BY DEF Fresh, Untouched, Keys, Read
<1>2. TypeInv
  BY TypeInit
<1> QED
  BY <1>1, <1>2 DEF TypeInv, IndexInv, KeyedByClaim, EachKeyed, EnvelopesKept, CollisionNoted,
                    KeysOnce

\* One more document read.
LEMMA ReadOneMore ==
  ASSUME TypeInv, Indexing, NextDoc
  PROVE  /\ docs' = docs /\ Read = at - 1 /\ Read' = at /\ at \in DOMAIN docs /\ docs[at] \in AnyDocument
         /\ at - 1 \in Nat /\ stage' = "index" /\ at' <= Len(docs) + 1
         /\ \A m : m \in 1 .. at <=> m = at \/ m \in 1 .. at - 1
         /\ IsReceipt(Doc) => docs[at].claim \in AnyClaim /\ docs[at].claim.digest > 0
  <1>1. /\ stage = "index" /\ stage' = "index" /\ at' = at + 1 /\ docs' = docs
        /\ at \in Nat \ {0} /\ at <= Len(docs) /\ docs \in Seq(AnyDocument)
    BY DEF TypeInv, Indexing, NextDoc
  <1>2. at \in DOMAIN docs /\ docs[at] \in AnyDocument /\ Len(docs) \in Nat
    BY <1>1
  <1>3. Read = at - 1 /\ Read' = at
    BY <1>1 DEF Read
  <1>4. IsReceipt(Doc) => docs[at].claim \in AnyClaim
    BY <1>2 DEF TypeInv, Doc
  <1>5. IsReceipt(Doc) => docs[at].claim.digest > 0
    BY <1>4, ClaimFields
  <1>6. \A m : m \in 1 .. at <=> m = at \/ m \in 1 .. at - 1
    BY <1>1
  <1> QED
    BY <1>1, <1>2, <1>3, <1>4, <1>5, <1>6

\* A key that was not in the index.
LEMMA KeyAdded ==
  ASSUME TypeInv, KeysOnce, NEW key \in Int, key \notin Keys, NEW value \in Node, AddNode(key, value)
  PROVE  /\ Keys' = Keys \cup {key} /\ KeysOnce'
         /\ \A x \in Keys : node'[x] = node[x]
         /\ node'[key] = value
<1>1. keys \in Seq(Int) /\ keys' = Append(keys, key)
  BY DEF TypeInv, AddNode
<1>2. PICK u \in Nat : u = Len(keys)
  BY <1>1
<1>3. /\ DOMAIN keys = 1 .. u /\ DOMAIN keys' = 1 .. u + 1 /\ keys'[u + 1] = key
      /\ \A n \in 1 .. u : keys'[n] = keys[n] /\ keys[n] # key
  BY <1>1, <1>2 DEF Keys
<1>4. \A n \in 1 .. u + 1 : n = u + 1 \/ n \in 1 .. u
  OBVIOUS
<1>5. Keys' = Keys \cup {key}
  BY <1>3, <1>4 DEF Keys
<1>6. KeysOnce'
  <2> SUFFICES ASSUME NEW m \in 1 .. u + 1, NEW n \in 1 .. u + 1, keys'[m] = keys'[n]
               PROVE  m = n
    BY <1>3 DEF KeysOnce
  <2>1. CASE m \in 1 .. u /\ n \in 1 .. u
    BY <1>3, <2>1 DEF KeysOnce
  <2>2. CASE m = u + 1 \/ n = u + 1
    BY <1>3, <1>4, <2>2
  <2> QED
    BY <1>4, <2>1, <2>2
<1> QED
  BY <1>5, <1>6 DEF AddNode

\* An item that is no receipt gets a key of its own.
LEMMA IndexStepPlaceholder ==
  ASSUME TypeInv, IndexInv, IndexPlaceholder
  PROVE  IndexInv'
<1> DEFINE value == [claim |-> NoList, envelopes |-> {Doc}, verified |-> FALSE, linksOk |-> "none"]
           key == PlaceholderKey(at)
<1>1. Indexing /\ NextDoc /\ ~IsReceipt(Doc) /\ AddNode(key, value) /\ collision' = collision
  BY DEF IndexPlaceholder
<1>2. /\ docs' = docs /\ Read = at - 1 /\ Read' = at /\ docs[at] \in AnyDocument
      /\ at - 1 \in Nat /\ at' <= Len(docs) + 1 /\ \A m : m \in 1 .. at <=> m = at \/ m \in 1 .. at - 1
  BY <1>1, ReadOneMore
<1>3. ~IsReceipt(docs[at])
  BY <1>1 DEF Doc
<1>4. key \in Int /\ ~HasReceipt(key) /\ key \notin Keys
  <2>1. key \in Int /\ ~HasReceipt(key)
    BY <1>2 DEF PlaceholderKey, HasReceipt, TypeInv
  <2>2. \A n \in 1 .. Read : PlaceholderKey(n) # key
    BY <1>2 DEF PlaceholderKey
  <2> QED
    BY <2>1, <2>2 DEF IndexInv, KeyedByClaim
<1>5. value \in Node
  BY <1>2 DEF Node, Doc
<1>6. /\ Keys' = Keys \cup {key} /\ KeysOnce' /\ \A x \in Keys : node'[x] = node[x]
  BY <1>1, <1>4, <1>5, KeyAdded DEF IndexInv
<1>7. KeyedByClaim'
  <2>1. ASSUME NEW x \in Keys, HasReceipt(x)
        PROVE  \E n \in 1 .. at : IsReceipt(docs[n]) /\ docs[n].claim = node[x].claim
    BY <1>2, <2>1 DEF IndexInv, KeyedByClaim, ClaimOf
  <2>2. ASSUME NEW x \in Keys, ~HasReceipt(x)
        PROVE  \E n \in 1 .. at : ~IsReceipt(docs[n]) /\ x = PlaceholderKey(n)
    BY <1>2, <2>2 DEF IndexInv, KeyedByClaim
  <2> QED
    BY <1>2, <1>3, <1>4, <1>6, <2>1, <2>2 DEF KeyedByClaim, ClaimOf, HasReceipt, PlaceholderKey
<1>8. EachKeyed'
  BY <1>2, <1>3, <1>6 DEF IndexInv, EachKeyed, PlaceholderKey
<1>9. EnvelopesKept'
  BY <1>2, <1>3, <1>4, <1>6, SMTT(30) DEF IndexInv, EnvelopesKept, ClaimOf, HasReceipt
<1>10. CollisionNoted'
  BY <1>1, <1>2, <1>3 DEF IndexInv, CollisionNoted, Colliding
<1> QED
  BY <1>2, <1>6, <1>7, <1>8, <1>9, <1>10 DEF IndexInv

\* A claim whose digest is new.
LEMMA IndexStepNew ==
  ASSUME TypeInv, IndexInv, IndexNew
  PROVE  IndexInv'
<1> DEFINE value == [claim |-> Doc.claim, envelopes |-> {Doc}, verified |-> FALSE, linksOk |-> "none"]
           key == Doc.claim.digest
<1>1. Indexing /\ NextDoc /\ IsReceipt(Doc) /\ AddNode(key, value) /\ collision' = collision
      /\ key \notin Keys
  BY DEF IndexNew
<1>2. /\ docs' = docs /\ Read = at - 1 /\ Read' = at /\ docs[at] \in AnyDocument
      /\ at - 1 \in Nat /\ at' <= Len(docs) + 1 /\ (\A m : m \in 1 .. at <=> m = at \/ m \in 1 .. at - 1)
      /\ docs[at].claim \in AnyClaim /\ docs[at].claim.digest > 0
  BY <1>1, ReadOneMore
<1>3. IsReceipt(docs[at]) /\ key = docs[at].claim.digest /\ value.claim = docs[at].claim
      /\ value.envelopes = {docs[at]}
  BY <1>1 DEF Doc
<1>4. key \in Int /\ HasReceipt(key)
  BY <1>2, <1>3, ClaimFields DEF HasReceipt
<1>5. value \in Node
  BY <1>2 DEF Node, Doc
<1> HIDE DEF value
<1>6. /\ Keys' = Keys \cup {key} /\ KeysOnce' /\ (\A x \in Keys : node'[x] = node[x]) /\ node'[key] = value
  BY <1>1, <1>4, <1>5, KeyAdded DEF IndexInv
<1>7. KeyedByClaim'
  <2>1. ASSUME NEW x \in Keys, HasReceipt(x)
        PROVE  \E n \in 1 .. at : IsReceipt(docs[n]) /\ docs[n].claim = node[x].claim
    BY <1>2, <2>1 DEF IndexInv, KeyedByClaim, ClaimOf
  <2>2. ASSUME NEW x \in Keys, ~HasReceipt(x)
        PROVE  \E n \in 1 .. at : ~IsReceipt(docs[n]) /\ x = PlaceholderKey(n)
    BY <1>2, <2>2 DEF IndexInv, KeyedByClaim
  <2> QED
    BY <1>2, <1>3, <1>4, <1>6, <2>1, <2>2 DEF KeyedByClaim, ClaimOf, HasReceipt, PlaceholderKey
<1>8. EachKeyed'
  BY <1>2, <1>3, <1>6 DEF IndexInv, EachKeyed, PlaceholderKey
<1>9. \A n \in 1 .. at - 1 : IsReceipt(docs[n]) => docs[n].claim.digest # key
  BY <1>1, <1>2 DEF IndexInv, EachKeyed
<1>10. EnvelopesKept'
  <2>1. ASSUME NEW x \in Keys, HasReceipt(x)
        PROVE  \A d : d \in node[x].envelopes <=>
                      \E n \in 1 .. at : IsReceipt(docs[n]) /\ docs[n].claim = node[x].claim /\ d = docs[n]
    <3>1. docs[at].claim # node[x].claim
      BY <1>1, <1>3, <2>1, KeysAreDigests
    <3> QED
      BY <1>2, <2>1, <3>1 DEF IndexInv, EnvelopesKept, ClaimOf
  <2>2. \A d : d \in value.envelopes <=>
               \E n \in 1 .. at : IsReceipt(docs[n]) /\ docs[n].claim = value.claim /\ d = docs[n]
    BY <1>2, <1>3, <1>9
  <2> QED
    BY <1>2, <1>6, <2>1, <2>2 DEF EnvelopesKept, ClaimOf, HasReceipt
<1>11. CollisionNoted'
  <2>1. \A n \in 1 .. at : ~Colliding(n, at) /\ ~Colliding(at, n)
    BY <1>2, <1>3, <1>9 DEF Colliding
  <2>2. (\E m, n \in 1 .. at : Colliding(m, n)) <=> \E m, n \in 1 .. at - 1 : Colliding(m, n)
    BY <1>2, <2>1
  <2> QED
    BY <1>1, <1>2, <2>2 DEF IndexInv, CollisionNoted, Colliding
<1> QED
  BY <1>2, <1>6, <1>7, <1>8, <1>10, <1>11 DEF IndexInv

\* A document of a digest that is in the index: what does not depend on the claim.
LEMMA DigestKnown ==
  ASSUME TypeInv, IndexInv, Indexing, NextDoc, IsReceipt(Doc), keys' = keys,
         docs[at].claim.digest \in Keys, \A x \in Keys : node'[x].claim = node[x].claim
  PROVE  KeyedByClaim' /\ EachKeyed' /\ KeysOnce' /\ Keys' = Keys
<1>1. /\ docs' = docs /\ Read = at - 1 /\ Read' = at /\ \A m : m \in 1 .. at <=> m = at \/ m \in 1 .. at - 1
  BY ReadOneMore
<1>2. Keys' = Keys
  BY DEF Keys
<1>3. KeyedByClaim'
  <2>1. ASSUME NEW x \in Keys, HasReceipt(x)
        PROVE  \E n \in 1 .. at : IsReceipt(docs[n]) /\ docs[n].claim = node[x].claim
    BY <1>1, <2>1 DEF IndexInv, KeyedByClaim, ClaimOf
  <2>2. ASSUME NEW x \in Keys, ~HasReceipt(x)
        PROVE  \E n \in 1 .. at : ~IsReceipt(docs[n]) /\ x = PlaceholderKey(n)
    BY <1>1, <2>2 DEF IndexInv, KeyedByClaim
  <2> QED
    BY <1>1, <1>2, <2>1, <2>2 DEF KeyedByClaim, ClaimOf, HasReceipt, PlaceholderKey
<1>4. EachKeyed'
  BY <1>1, <1>2 DEF IndexInv, EachKeyed, PlaceholderKey, Doc
<1>5. KeysOnce'
  BY DEF IndexInv, KeysOnce
<1> QED
  BY <1>2, <1>3, <1>4, <1>5

\* A copy, or a collision.
LEMMA IndexStepKnown ==
  ASSUME TypeInv, IndexInv, IndexCollision \/ IndexEnvelope
  PROVE  IndexInv'
<1> DEFINE key == docs[at].claim.digest
           same == ClaimOf(key) = docs[at].claim
<1>1. /\ Indexing /\ NextDoc /\ IsReceipt(Doc) /\ keys' = keys /\ key \in Keys /\ IsReceipt(docs[at])
      /\ collision' = IF same THEN collision ELSE TRUE
      /\ node' = IF same THEN [node EXCEPT ![key].envelopes = @ \cup {docs[at]}]
                         ELSE [node EXCEPT ![key].linksOk = "false"]
  BY DEF IndexCollision, IndexEnvelope, Doc
<1>2. /\ docs' = docs /\ Read = at - 1 /\ Read' = at /\ docs[at] \in AnyDocument
      /\ at - 1 \in Nat /\ at' <= Len(docs) + 1 /\ (\A m : m \in 1 .. at <=> m = at \/ m \in 1 .. at - 1)
      /\ docs[at].claim \in AnyClaim /\ docs[at].claim.digest > 0
  BY <1>1, ReadOneMore
<1>3. /\ \A x \in Keys : node'[x].claim = node[x].claim
      /\ \A x \in Keys : node'[x].envelopes = IF same /\ x = key THEN node[x].envelopes \cup {docs[at]}
                                              ELSE node[x].envelopes
  <2>1. node \in [Keys -> Node]
    BY DEF TypeInv
  <2>2. CASE same
    BY <1>1, <2>1, <2>2 DEF Node
  <2>3. CASE ~same
    BY <1>1, <2>1, <2>3 DEF Node
  <2> QED
    BY <2>2, <2>3
<1>4. KeyedByClaim' /\ EachKeyed' /\ KeysOnce' /\ Keys' = Keys
  BY <1>1, <1>3, DigestKnown
<1>5. HasReceipt(key) /\ ClaimOf(key).digest = key
  BY <1>1, <1>2, KeysAreDigests DEF HasReceipt, ClaimOf
<1>6. EnvelopesKept'
  <2>1. ASSUME NEW x \in Keys, HasReceipt(x)
        PROVE  \A d : d \in node'[x].envelopes <=>
                      \E n \in 1 .. at : IsReceipt(docs[n]) /\ docs[n].claim = node[x].claim /\ d = docs[n]
    <3>1. docs[at].claim = node[x].claim <=> same /\ x = key
      BY <2>1, KeysAreDigests DEF ClaimOf
    <3>2. \A d : d \in node[x].envelopes <=>
                 \E n \in 1 .. at - 1 : IsReceipt(docs[n]) /\ docs[n].claim = node[x].claim /\ d = docs[n]
      BY <1>2, <2>1 DEF IndexInv, EnvelopesKept, ClaimOf
    <3>3. CASE same /\ x = key
      <4>1. node'[x].envelopes = node[x].envelopes \cup {docs[at]} /\ docs[at].claim = node[x].claim
        BY <1>3, <3>1, <3>3
      <4>2. at \in 1 .. at /\ IsReceipt(docs[at])
        BY <1>1, <1>2
      <4>3. \A n \in 1 .. at : n = at \/ n \in 1 .. at - 1
        BY <1>2
      <4>4. \A n \in 1 .. at - 1 : n \in 1 .. at
        BY <1>2
      <4> QED
        BY <3>2, <4>1, <4>2, <4>3, <4>4
    <3>4. CASE ~(same /\ x = key)
      <4>1. node'[x].envelopes = node[x].envelopes /\ docs[at].claim # node[x].claim
        BY <1>3, <3>1, <3>4
      <4>2. \A n : n \in 1 .. at <=> n = at \/ n \in 1 .. at - 1
        BY <1>2
      <4> QED
        BY <3>2, <4>1, <4>2, Zenon
    <3> QED
      BY <3>3, <3>4
  <2> QED
    BY <1>2, <1>3, <1>4, <2>1 DEF EnvelopesKept, ClaimOf, HasReceipt
<1>7. PICK k \in 1 .. at - 1 : IsReceipt(docs[k]) /\ docs[k].claim = ClaimOf(key)
  BY <1>1, <1>2, <1>5 DEF IndexInv, KeyedByClaim
<1>8. CollisionNoted'
  <2>1. CollisionNoted
    BY DEF IndexInv
  <2>2. CASE ~same
    <3>1. Colliding(k, at) /\ k \in 1 .. at /\ at \in 1 .. at
      BY <1>1, <1>2, <1>5, <1>7, <2>2 DEF Colliding
    <3> QED
      BY <1>1, <1>2, <2>2, <3>1 DEF CollisionNoted, Colliding
  <2>3. CASE same
    <3>1. \A n \in 1 .. at : Colliding(n, at) => Colliding(n, k)
      BY <1>7, <2>3 DEF Colliding
    <3>2. \A n \in 1 .. at : Colliding(at, n) => Colliding(k, n)
      BY <1>7, <2>3 DEF Colliding
    <3>3. ~Colliding(at, at) /\ ~Colliding(at, k) /\ ~Colliding(k, at)
      BY <1>7, <2>3 DEF Colliding
    <3>4. (\E m, n \in 1 .. at : Colliding(m, n)) <=> \E m, n \in 1 .. at - 1 : Colliding(m, n)
      <4>1. at \in 1 .. at /\ k \in 1 .. at /\ k \in 1 .. at - 1
        BY <1>2, <1>7
      <4>2. \A n : n \in 1 .. at <=> n = at \/ n \in 1 .. at - 1
        BY <1>2
      <4>3. \A n \in 1 .. at : (Colliding(n, at) => Colliding(n, k)) /\ (Colliding(at, n) => Colliding(k, n))
        BY <3>1, <3>2
      <4>4. ASSUME NEW m \in 1 .. at, NEW n \in 1 .. at, Colliding(m, n)
            PROVE  \E i, j \in 1 .. at - 1 : Colliding(i, j)
        <5>1. CASE m = at
          BY <3>3, <4>1, <4>2, <4>3, <4>4, <5>1
        <5>2. CASE n = at
          BY <3>3, <4>1, <4>2, <4>3, <4>4, <5>2
        <5>3. CASE m # at /\ n # at
          BY <4>2, <4>4, <5>3
        <5> QED
          BY <5>1, <5>2, <5>3
      <4> QED
        BY <4>2, <4>4
    <3> QED
      BY <1>1, <1>2, <2>1, <2>3, <3>4, ZenonT(30) DEF CollisionNoted, Colliding
  <2> QED
    BY <2>2, <2>3
<1> QED
  BY <1>2, <1>4, <1>6, <1>8 DEF IndexInv

\* What the steps after the index leave of it.
LEMMA KeptAll ==
  ASSUME TypeInv, Ladder \/ LinkStep \/ Walk
  PROVE  /\ UNCHANGED indexVars /\ stage # "index" /\ stage' # "index"
         /\ \A x \in Keys : node'[x].envelopes = node[x].envelopes
         /\ LinkStep \/ Walk => \A x \in Keys : node'[x].verified = node[x].verified
         /\ Ladder => \A x \in Keys : node'[x].linksOk = node[x].linksOk
         /\ Walk /\ ~cycle' => \A x \in Keys : node'[x].linksOk = node[x].linksOk
<1>1. node \in [Keys -> Node]
  BY DEF TypeInv
<1>2. ASSUME NEW s, AtNode(s)
      PROVE  Key \in Keys
  <2>1. at \in DOMAIN keys
    BY <1>2 DEF TypeInv, AtNode
  <2> QED
    BY <2>1 DEF Keys, Key
<1>3. CASE Ladder
  <2>1. UNCHANGED indexVars /\ stage = "ladder" /\ stage' \in {"ladder", "links"}
    BY <1>3 DEF Ladder, RunLadder, LaddersDone, AtNode
  <2>2. stage \notin {"links", "walk"}
    BY <2>1
  <2>3. ~LinkStep /\ ~Walk
    BY <2>2 DEF LinkStep, SkipLinks, BadParent, BeginLinks, CheckLink, EndLinks, LinksDone, AtNode,
                Walk, NextRoot, FinishNode, FollowLink, WalkDone, Walking
  <2>4. \A x \in Keys : node'[x].envelopes = node[x].envelopes /\ node'[x].linksOk = node[x].linksOk
    <3>1. CASE RunLadder
      BY <1>1, <1>2, <3>1 DEF RunLadder, Node
    <3>2. CASE LaddersDone
      BY <3>2 DEF LaddersDone
    <3> QED
      BY <1>3, <3>1, <3>2 DEF Ladder
  <2> QED
    BY <2>1, <2>3, <2>4
<1>4. CASE LinkStep
  <2>1. UNCHANGED indexVars /\ stage = "links" /\ stage' \in {"links", "walk"}
    BY <1>4 DEF LinkStep, SkipLinks, BadParent, BeginLinks, CheckLink, EndLinks, LinksDone, AtNode
  <2>2. stage \notin {"ladder", "walk"}
    BY <2>1
  <2>3. ~Ladder /\ ~Walk
    BY <2>2 DEF Ladder, RunLadder, LaddersDone, AtNode, Walk, NextRoot, FinishNode, FollowLink,
                WalkDone, Walking
  <2>4. node' = node \/ \E x \in Keys : \E ok : node' = [node EXCEPT ![x].linksOk = ok]
    BY <1>2, <1>4 DEF LinkStep, SkipLinks, BadParent, BeginLinks, CheckLink, EndLinks, LinksDone
  <2>5. \A x \in Keys : node'[x].envelopes = node[x].envelopes /\ node'[x].verified = node[x].verified
    BY <1>1, <2>4 DEF Node
  <2> QED
    BY <2>1, <2>3, <2>5
<1>5. CASE Walk
  <2>1. UNCHANGED indexVars /\ stage = "walk" /\ stage' \in {"walk", "done"}
    BY <1>5 DEF Walk, NextRoot, FinishNode, FollowLink, WalkDone, Walking, AtNode
  <2>2. stage \notin {"ladder", "links"}
    BY <2>1
  <2>3. ~Ladder /\ ~LinkStep
    BY <2>2 DEF Ladder, RunLadder, LaddersDone, AtNode, LinkStep, SkipLinks, BadParent, BeginLinks,
                CheckLink, EndLinks, LinksDone
  <2>4. \/ node' = node
        \/ cycle' = TRUE /\ \E both : node' = [x \in Keys |-> IF x \in both
                                                 THEN [node[x] EXCEPT !.linksOk = "false"] ELSE node[x]]
    BY <1>5 DEF Walk, NextRoot, FinishNode, FollowLink, WalkDone
  <2>5. CASE node' = node
    BY <2>1, <2>3, <2>5
  <2>6. CASE cycle' = TRUE /\ \E both : node' = [x \in Keys |-> IF x \in both
                                                 THEN [node[x] EXCEPT !.linksOk = "false"] ELSE node[x]]
    <3>1. \A x \in Keys : /\ [node[x] EXCEPT !.linksOk = "false"].envelopes = node[x].envelopes
                         /\ [node[x] EXCEPT !.linksOk = "false"].verified = node[x].verified
      BY <1>1 DEF Node
    <3>2. \A x \in Keys : node'[x].envelopes = node[x].envelopes /\ node'[x].verified = node[x].verified
      BY <2>6, <3>1
    <3> QED
      BY <2>1, <2>3, <2>6, <3>2
  <2> QED
    BY <2>4, <2>5, <2>6
<1> QED
  BY <1>3, <1>4, <1>5

\* Nothing after the index disturbs it.
LEMMA Kept ==
  ASSUME TypeInv, Ladder \/ LinkStep \/ Walk
  PROVE  /\ UNCHANGED <<docs, strict, keys, collision>> /\ stage # "index" /\ stage' # "index"
         /\ \A x \in Keys : node'[x].claim = node[x].claim
         /\ \A x \in Keys : node'[x].envelopes = node[x].envelopes
<1>1. \A x \in Keys : node'[x].claim = node[x].claim
  BY TypeLater DEF Claimed
<1>2. \A x \in Keys : node'[x].envelopes = node[x].envelopes
  BY KeptAll, Zenon
<1>3. UNCHANGED indexVars /\ stage # "index" /\ stage' # "index"
  BY KeptAll, Zenon
<1> QED
  BY <1>1, <1>2, <1>3 DEF indexVars

\* Every step keeps the index that of the documents.
LEMMA IndexStep ==
  ASSUME TypeInv, IndexInv, [Next]_vars
  PROVE  IndexInv'
<1>1. ASSUME UNCHANGED <<docs, keys, collision>>, Read' = Read,
             \A x \in Keys : node'[x].claim = node[x].claim /\ node'[x].envelopes = node[x].envelopes,
             stage' = "index" => at' <= Len(docs) + 1
      PROVE  IndexInv'
  <2>1. Keys' = Keys
    BY <1>1 DEF Keys
  <2> QED
    BY <1>1, <2>1 DEF IndexInv, KeyedByClaim, EachKeyed, EnvelopesKept, CollisionNoted, Colliding,
                      KeysOnce, ClaimOf, HasReceipt, PlaceholderKey
<1>2. CASE UNCHANGED vars
  BY <1>1, <1>2 DEF vars, Read, IndexInv
<1>3. CASE Indexed
  <2>1. Read' = Read
    BY <1>3 DEF Indexed, Read, indexVars, TypeInv
  <2> QED
    BY <1>1, <1>3, <2>1 DEF Indexed, indexVars
<1>4. CASE Ladder \/ LinkStep \/ Walk
  <2>1. /\ UNCHANGED <<docs, keys, collision>> /\ stage # "index" /\ stage' # "index"
        /\ \A x \in Keys : node'[x].claim = node[x].claim /\ node'[x].envelopes = node[x].envelopes
    BY <1>4, Kept
  <2>2. Read' = Read
    BY <2>1 DEF Read
  <2> QED
    BY <1>1, <2>1, <2>2
<1> QED
  BY <1>2, <1>3, <1>4, IndexStepPlaceholder, IndexStepNew, IndexStepKnown DEF Next, Index

-----------------------------------------------------------------------------
(* The ladder.  A node is verified when every document of its claim is. *)

Standing(x) == HasReceipt(x) /\ \A d \in node[x].envelopes : d.verified

LadderInv ==
  /\ stage = "index" => \A x \in Keys : node[x].verified = FALSE
  /\ stage = "ladder" => \A n \in DOMAIN keys : node[keys[n]].verified <=> n < at /\ Standing(keys[n])
  /\ stage \in {"links", "walk", "done"} => \A x \in Keys : node[x].verified <=> Standing(x)

\* Every step keeps the answers of the ladder those of all copies.
LEMMA LadderStep ==
  ASSUME TypeInv, IndexInv, LadderInv, [Next]_vars
  PROVE  LadderInv'
<1>1. CASE UNCHANGED vars
  BY <1>1 DEF vars, LadderInv, Keys, Standing, HasReceipt
<1>2. CASE Index /\ ~Indexed
  <2>1. stage = "index" /\ stage' = "index" /\ \A x \in Keys : node[x].verified = FALSE
    BY <1>2 DEF Index, IndexPlaceholder, IndexNew, IndexCollision, IndexEnvelope, Indexing, NextDoc, LadderInv
  <2>2. node \in [Keys -> Node]
    BY DEF TypeInv
  <2>3. \A x \in Keys' : node'[x].verified = FALSE
    <3>1. ASSUME NEW key \in Int, NEW value, AddNode(key, value), value.verified = FALSE
          PROVE  \A x \in Keys' : node'[x].verified = FALSE
      <4>1. Keys' = Keys \cup {key}
        BY <3>1, AddedKeys
      <4> QED
        BY <2>1, <3>1, <4>1 DEF AddNode
    <3>2. CASE IndexPlaceholder \/ IndexNew
      <4>1. CASE IndexPlaceholder
        <5>1. PlaceholderKey(at) \in Int
          BY DEF TypeInv, PlaceholderKey
        <5> QED
          BY <3>1, <4>1, <5>1 DEF IndexPlaceholder
      <4>2. CASE IndexNew
        <5>1. Doc.claim.digest \in Int
          BY <4>2, ReadOneMore, ClaimFields DEF IndexNew, Doc
        <5> DEFINE value == [claim |-> Doc.claim, envelopes |-> {Doc}, verified |-> FALSE, linksOk |-> "none"]
        <5>2. AddNode(Doc.claim.digest, value) /\ value.verified = FALSE
          BY <4>2 DEF IndexNew
        <5> HIDE DEF value
        <5> QED
          BY <3>1, <5>1, <5>2
      <4> QED
        BY <3>2, <4>1, <4>2
    <3>3. CASE IndexCollision
      BY <2>1, <2>2, <3>3 DEF IndexCollision, Node, Keys
    <3>4. CASE IndexEnvelope
      BY <2>1, <2>2, <3>4 DEF IndexEnvelope, Node, Keys
    <3> QED
      BY <1>2, <3>2, <3>3, <3>4 DEF Index
  <2> QED
    BY <2>1, <2>3 DEF LadderInv
<1>3. CASE Indexed
  <2>1. /\ stage = "index" /\ stage' = "ladder" /\ at' = 1 /\ keys' = keys /\ node' = node
        /\ \A x \in Keys : node[x].verified = FALSE
    BY <1>3 DEF Indexed, indexVars, LadderInv
  <2>2. \A n \in DOMAIN keys : ~(n < 1) /\ keys[n] \in Keys
    BY DEF TypeInv, Keys
  <2> QED
    BY <2>1, <2>2 DEF LadderInv
<1>4. CASE RunLadder
  <2>1. /\ stage = "ladder" /\ stage' = "ladder" /\ keys' = keys /\ at' = at + 1 /\ at \in DOMAIN keys
        /\ at \in Nat /\ DOMAIN keys \subseteq Nat
    BY <1>4 DEF RunLadder, AtNode, indexVars, TypeInv
  <2>2. node \in [Keys -> Node] /\ \A n \in DOMAIN keys : keys[n] \in Keys
    BY DEF TypeInv, Keys
  <2>3. \A n \in DOMAIN keys : node'[keys[n]].envelopes = node[keys[n]].envelopes
    BY <1>4, <2>2, Kept DEF Ladder
  <2>4. ASSUME NEW n \in DOMAIN keys
        PROVE  node'[keys[n]].verified <=> n < at + 1 /\ Standing(keys[n])
    <3>1. node[keys[n]].verified <=> n < at /\ Standing(keys[n])
      BY <2>1 DEF LadderInv
    <3>2. CASE n = at
      <4>1. ~node[keys[n]].verified
        BY <2>1, <3>1, <3>2
      <4>2. n < at + 1
        BY <2>1, <3>2
      <4>3. CASE HasReceipt(Key)
        <5>1. node'[keys[n]].verified <=> \A d \in node[keys[n]].envelopes : d.verified
          BY <1>4, <2>2, <3>2, <4>3 DEF RunLadder, Key, Node
        <5> QED
          BY <3>2, <4>2, <4>3, <5>1 DEF Standing, Key
      <4>4. CASE ~HasReceipt(Key)
        BY <1>4, <3>2, <4>1, <4>4 DEF RunLadder, Standing, Key
      <4> QED
        BY <4>3, <4>4
    <3>3. CASE n # at
      <4>1. keys[n] # Key
        BY <2>1, <3>3 DEF IndexInv, KeysOnce, Key
      <4>2. node'[keys[n]].verified = node[keys[n]].verified
        BY <1>4, <2>2, <4>1 DEF RunLadder, Node
      <4>3. n < at + 1 <=> n < at
        BY <2>1, <3>3
      <4> QED
        BY <3>1, <4>2, <4>3
    <3> QED
      BY <3>2, <3>3
  <2> QED
    BY <2>1, <2>3, <2>4 DEF LadderInv, Standing, HasReceipt
<1>5. CASE LaddersDone
  <2>1. stage = "ladder" /\ stage' = "links" /\ keys' = keys /\ node' = node /\ at = Len(keys) + 1
    BY <1>5 DEF LaddersDone, indexVars
  <2>2. \A n \in DOMAIN keys : n < at
    BY <2>1 DEF TypeInv
  <2>3. \A x \in Keys : node[x].verified <=> Standing(x)
    BY <2>1, <2>2 DEF LadderInv, Keys
  <2> QED
    BY <2>1, <2>3 DEF LadderInv, Keys, Standing, HasReceipt
<1>6. CASE LinkStep \/ Walk
  <2>1. stage \in {"links", "walk", "done"} /\ stage' \in {"links", "walk", "done"}
    BY <1>6 DEF LinkStep, SkipLinks, BadParent, BeginLinks, CheckLink, EndLinks, LinksDone, AtNode,
                Walk, NextRoot, FinishNode, FollowLink, WalkDone, Walking
  <2>2. Keys' = Keys /\ \A x \in Keys : node'[x].envelopes = node[x].envelopes
    BY <1>6, Kept, TypeLater
  <2>3. \A x \in Keys : node'[x].verified = node[x].verified
    BY <1>6, KeptAll, Zenon
  <2> QED
    BY <2>1, <2>2, <2>3 DEF LadderInv, Standing, HasReceipt
<1> QED
  BY <1>1, <1>2, <1>3, <1>4, <1>5, <1>6 DEF Next, Index, Ladder

-----------------------------------------------------------------------------
(* The links.  A verdict is a grade of a set of faults; what overlaps is said *)
(* of pairs of links, not of the cells taken so far.                          *)

Alone(c, n) == Fault(c, c.links[n], {})

Binding(c, n) == Alone(c, n) \notin BeforeBinding

CellsOf(c, n) == Cells(c.links[n].dst, c.links[n].length)

Clash(c, m, n) == m # n /\ Binding(c, m) /\ Binding(c, n) /\ CellsOf(c, m) \cap CellsOf(c, n) # {}

\* What is wrong with the first k links of a claim.
FaultsUpTo(c, k) ==
  {Alone(c, n) : n \in 1 .. k} \cup {f \in {"overlap"} : \E m, n \in 1 .. k : Clash(c, m, n)}

Grade(faults) ==
  IF faults \ {"none"} = {} THEN "true"
  ELSE IF faults \ {"none"} \subseteq Softening THEN "incomplete" ELSE "false"

\* A claim that names a child nobody supplied.
LacksChild(x) ==
  Links(x) # <<>> /\ ClaimOf(x).replay /\ \E n \in DOMAIN Links(x) : Alone(ClaimOf(x), n) = "missing"

\* A link's fault where inputs are bound already is its fault alone, unless it
\* gets as far as being bound and does not find its inputs free.
LEMMA FaultBesideOthers ==
  ASSUME NEW c, NEW ln, NEW bound
  PROVE  /\ Fault(c, ln, {}) # "overlap"
         /\ Fault(c, ln, bound) = IF /\ Fault(c, ln, {}) \notin BeforeBinding
                                     /\ bound \cap Cells(ln.dst, ln.length) # {}
                                  THEN "overlap" ELSE Fault(c, ln, {})
BY DEF Fault, BeforeBinding

\* The verdict kept while links are checked is the grade of the faults so far.
LEMMA GradeStep ==
  ASSUME NEW faults, NEW f
  PROVE  Judged(Grade(faults), f) = Grade(faults \cup {f})
<1>1. CASE f = "none"
  BY <1>1 DEF Judged, Grade
<1>2. CASE f # "none"
  <2>1. (faults \cup {f}) \ {"none"} = (faults \ {"none"}) \cup {f}
    BY <1>2
  <2>2. CASE f \in Softening
    BY <1>2, <2>1, <2>2 DEF Judged, Grade
  <2>3. CASE f \notin Softening
    BY <1>2, <2>1, <2>3 DEF Judged, Grade
  <2> QED
    BY <2>2, <2>3
<1> QED
  BY <1>1, <1>2

\* Once two links overlap, nothing makes the verdict any better.
LEMMA OverlapIsFalse ==
  ASSUME NEW faults, "overlap" \in faults, NEW f
  PROVE  Grade(faults) = "false" /\ Judged("false", f) = "false"
BY DEF Grade, Judged, Softening

\* Faults are facts about the index.
LEMMA SameFaults ==
  ASSUME Keys' = Keys, Claimed' = Claimed, strict' = strict
  PROVE  /\ \A c, ln, bound : Fault(c, ln, bound)' = Fault(c, ln, bound)
         /\ \A c, k : FaultsUpTo(c, k)' = FaultsUpTo(c, k)
         /\ \A faults : Grade(faults)' = Grade(faults)
         /\ \A x \in Keys : Links(x)' = Links(x)
         /\ \A x \in Keys : Deserved(x)' = Deserved(x)
         /\ \A x \in Keys : LacksChild(x)' <=> LacksChild(x)
<1>1. \A x \in Keys : node'[x].claim = node[x].claim
  BY DEF Claimed
<1>2. \A c, ln, bound : Fault(c, ln, bound)' = Fault(c, ln, bound)
  BY <1>1, SMTT(30) DEF Fault, ClaimOf
<1>3. \A c, n : Alone(c, n)' = Alone(c, n)
  BY <1>2 DEF Alone
<1>4. \A c, m, n : Clash(c, m, n)' <=> Clash(c, m, n)
  BY <1>3 DEF Clash, Binding, CellsOf
<1>5. \A c, k : FaultsUpTo(c, k)' = FaultsUpTo(c, k)
  BY <1>3, <1>4 DEF FaultsUpTo
<1>6. \A faults : Grade(faults)' = Grade(faults)
  BY DEF Grade, Softening
<1>7. \A x \in Keys : Links(x)' = Links(x)
  BY <1>1 DEF Links, HasReceipt, ClaimOf
<1>8. \A c : LinkFaults(c)' = LinkFaults(c)
  BY <1>2 DEF LinkFaults
<1>9. \A x \in Keys : Deserved(x)' = Deserved(x)
  <2> SUFFICES ASSUME NEW x \in Keys PROVE Deserved(x)' = Deserved(x)
    OBVIOUS
  <2>1. PICK c : c = ClaimOf(x) /\ c = node'[x].claim
    BY <1>1 DEF ClaimOf
  <2>2. LinkFaults(ClaimOf(x)) = LinkFaults(c) /\ LinkFaults(ClaimOf(x))' = LinkFaults(c)'
    BY <2>1 DEF ClaimOf
  <2> QED
    BY <1>1, <1>7, <1>8, <2>2 DEF Deserved, ClaimOf, Softening
<1>10. \A x \in Keys : LacksChild(x)' <=> LacksChild(x)
  <2> SUFFICES ASSUME NEW x \in Keys PROVE LacksChild(x)' <=> LacksChild(x)
    OBVIOUS
  <2>1. PICK c : c = ClaimOf(x) /\ c = node'[x].claim
    BY <1>1 DEF ClaimOf
  <2>2. \A n : Alone(ClaimOf(x), n) = Alone(c, n) /\ Alone(ClaimOf(x), n)' = Alone(c, n)'
    BY <2>1 DEF ClaimOf
  <2> QED
    BY <1>1, <1>3, <1>7, <2>2 DEF LacksChild, ClaimOf
<1> QED
  BY <1>2, <1>5, <1>6, <1>7, <1>9, <1>10

\* While a node's links are checked, what was bound is exactly what the links
\* that bind name, unless an overlap was found.
TakenSoFar(c) ==
  \/ "overlap" \in FaultsUpTo(c, link - 1)
  \/ \A i : i \in taken <=> \E n \in 1 .. link - 1 : Binding(c, n) /\ i \in CellsOf(c, n)

\* The verdict of a node that is before, at, or after the one being checked.
Judgement(n) ==
  IF n < at THEN Deserved(keys[n])
  ELSE IF n = at /\ link # 0 THEN Grade(FaultsUpTo(ClaimOf(keys[n]), link - 1))
  ELSE "none"

LinksInv ==
  /\ stage \in {"index", "ladder"} => link = 0 /\ taken = {} /\ missing = {}
  /\ stage \in {"index", "ladder"} /\ ~collision => \A x \in Keys : node[x].linksOk = "none"
  /\ stage = "links" =>
       /\ at <= Len(keys) + 1
       /\ link = 0 => taken = {}
       /\ link # 0 => /\ at <= Len(keys) /\ Links(Key) # <<>> /\ ClaimOf(Key).replay
                      /\ link <= Len(Links(Key)) + 1
                      /\ TakenSoFar(ClaimOf(Key))
       /\ ~collision => \A n \in DOMAIN keys : node[keys[n]].linksOk = Judgement(n)
  /\ stage \in {"walk", "done"} /\ ~collision /\ ~cycle =>
       \A x \in Keys : node[x].linksOk = Deserved(x)
  /\ \A m \in missing : \E x \in Keys : LacksChild(x)

\* While documents are indexed no link is judged.
LEMMA LinksInvIndex ==
  ASSUME TypeInv, IndexInv, LinksInv, Index
  PROVE  LinksInv'
<1>1. /\ stage = "index" /\ stage' \in {"index", "ladder"} /\ UNCHANGED <<link, taken, missing>>
      /\ link = 0 /\ taken = {} /\ missing = {}
  BY DEF Index, IndexPlaceholder, IndexNew, IndexCollision, IndexEnvelope, Indexing, NextDoc, LinksInv,
         Indexed
<1>2. node \in [Keys -> Node] /\ collision \in BOOLEAN
  BY DEF TypeInv
<1>3. ASSUME ~collision'
      PROVE  \A x \in Keys' : node'[x].linksOk = "none"
  <2>1. ~collision /\ ~IndexCollision
    BY <1>2, <1>3 DEF Index, IndexPlaceholder, IndexNew, IndexCollision, IndexEnvelope, Indexed, indexVars
  <2>2. \A x \in Keys : node[x].linksOk = "none"
    BY <1>1, <2>1 DEF LinksInv
  <2>3. ASSUME NEW key \in Int, NEW value, AddNode(key, value), value.linksOk = "none"
        PROVE  \A x \in Keys' : node'[x].linksOk = "none"
    <3>1. Keys' = Keys \cup {key}
      BY <2>3, AddedKeys
    <3> QED
      BY <2>2, <2>3, <3>1 DEF AddNode
  <2>4. CASE IndexPlaceholder
    <3> DEFINE value == [claim |-> NoList, envelopes |-> {Doc}, verified |-> FALSE, linksOk |-> "none"]
    <3>1. PlaceholderKey(at) \in Int
      BY DEF TypeInv, PlaceholderKey
    <3>2. AddNode(PlaceholderKey(at), value) /\ value.linksOk = "none"
      BY <2>4 DEF IndexPlaceholder
    <3> HIDE DEF value
    <3> QED
      BY <2>3, <3>1, <3>2
  <2>5. CASE IndexNew
    <3> DEFINE value == [claim |-> Doc.claim, envelopes |-> {Doc}, verified |-> FALSE, linksOk |-> "none"]
    <3>1. Doc.claim.digest \in Int
      BY <2>5, ReadOneMore, ClaimFields DEF IndexNew, Doc
    <3>2. AddNode(Doc.claim.digest, value) /\ value.linksOk = "none"
      BY <2>5 DEF IndexNew
    <3> HIDE DEF value
    <3> QED
      BY <2>3, <3>1, <3>2
  <2>6. CASE IndexEnvelope
    BY <1>2, <2>2, <2>6 DEF IndexEnvelope, Node, Keys
  <2>7. CASE Indexed
    BY <2>2, <2>7 DEF Indexed, indexVars, Keys
  <2> QED
    BY <2>1, <2>4, <2>5, <2>6, <2>7 DEF Index
<1> QED
  BY <1>1, <1>3 DEF LinksInv

\* Nor while they climb the ladder.
LEMMA LinksInvLadder ==
  ASSUME TypeInv, LinksInv, Ladder
  PROVE  LinksInv'
<1>1. /\ UNCHANGED <<link, taken, missing, keys, collision>> /\ Keys' = Keys
      /\ \A x \in Keys : node'[x].linksOk = node[x].linksOk
  <2>1. \A x \in Keys : node'[x].linksOk = node[x].linksOk
    BY KeptAll, Zenon
  <2> QED
    BY <2>1, TypeLater DEF Ladder, RunLadder, LaddersDone, indexVars
<1>2. /\ stage = "ladder" /\ stage' \in {"ladder", "links"} /\ link = 0 /\ taken = {} /\ missing = {}
      /\ ~collision => \A x \in Keys : node[x].linksOk = "none"
  BY DEF LinksInv, Ladder, RunLadder, LaddersDone, AtNode
<1>3. CASE RunLadder
  BY <1>1, <1>2, <1>3 DEF LinksInv, RunLadder
<1>4. CASE LaddersDone
  <2>1. at' = 1 /\ stage' = "links" /\ Len(keys) \in Nat /\ DOMAIN keys = 1 .. Len(keys)
    BY <1>4 DEF LaddersDone, TypeInv
  <2>2. \A n \in DOMAIN keys : keys[n] \in Keys /\ ~(n < 1)
    BY <2>1 DEF Keys
  <2>3. ~collision => \A n \in DOMAIN keys : node'[keys[n]].linksOk = "none"
    BY <1>1, <1>2, <2>2
  <2>4. \A n \in DOMAIN keys : Judgement(n)' = "none"
    BY <1>1, <1>2, <2>1, <2>2 DEF Judgement
  <2> QED
    BY <1>1, <1>2, <2>1, <2>3, <2>4 DEF LinksInv
<1> QED
  BY <1>3, <1>4 DEF Ladder

\* The walk leaves the verdicts alone, but for nodes on a cycle.
LEMMA LinksInvWalk ==
  ASSUME TypeInv, WalkInv, LinksInv, Walk
  PROVE  LinksInv'
<1>1. /\ stage \in {"walk"} /\ stage' \in {"walk", "done"}
      /\ UNCHANGED <<link, taken, missing, keys, collision, strict>>
  BY DEF Walk, NextRoot, FinishNode, FollowLink, WalkDone, Walking, AtNode, indexVars
<1>2. Keys' = Keys /\ Claimed' = Claimed
  BY TypeLater
<1>3. ~cycle' => ~cycle /\ \A x \in Keys : node'[x].linksOk = node[x].linksOk
  <2>1. ~cycle' => \A x \in Keys : node'[x].linksOk = node[x].linksOk
    BY KeptAll, Zenon
  <2>2. ~cycle' => ~cycle
    BY DEF Walk, NextRoot, FinishNode, FollowLink, WalkDone, walkVars
  <2> QED
    BY <2>1, <2>2
<1>4. \A x \in Keys : Deserved(x)' = Deserved(x)
  BY <1>1, <1>2, SameFaults
<1>5. ~collision' /\ ~cycle' => \A x \in Keys : node'[x].linksOk = Deserved(x)
  BY <1>1, <1>3 DEF LinksInv
<1>6. \A x \in Keys : LacksChild(x)' <=> LacksChild(x)
  BY <1>1, <1>2, SameFaults
<1> QED
  BY <1>1, <1>2, <1>4, <1>5, <1>6 DEF LinksInv

\* What checking a link leaves alone.
LEMMA LinkFrame ==
  ASSUME TypeInv, LinkStep
  PROVE  /\ stage = "links" /\ UNCHANGED <<docs, strict, keys, collision>> /\ Keys' = Keys /\ Claimed' = Claimed
         /\ keys \in Seq(Int) /\ Len(keys) \in Nat /\ DOMAIN keys = 1 .. Len(keys)
         /\ \A n \in DOMAIN keys : keys[n] \in Keys
         /\ at \in Nat \ {0} /\ link \in Nat /\ node \in [Keys -> Node]
         /\ at <= Len(keys) => at \in DOMAIN keys
<1>1. stage = "links" /\ UNCHANGED <<docs, strict, keys, collision>>
  BY DEF LinkStep, SkipLinks, BadParent, BeginLinks, CheckLink, EndLinks, LinksDone, AtNode, indexVars
<1>2. Len(keys) \in Nat /\ DOMAIN keys = 1 .. Len(keys) /\ keys \in Seq(Int)
      /\ at \in Nat \ {0} /\ link \in Nat /\ node \in [Keys -> Node]
  BY DEF TypeInv
<1>3. \A n \in DOMAIN keys : keys[n] \in Keys
  BY DEF Keys
<1> QED
  BY <1>1, <1>2, <1>3, TypeLater

\* A node all of whose links were judged.
LEMMA LinksInvNextNode ==
  ASSUME TypeInv, IndexInv, LinksInv, LinkStep, AtNode("links"), stage' = "links", NextLinks,
         missing' = missing, ~collision => node'[Key].linksOk = Deserved(Key),
         \A x \in Keys : x # Key => node'[x].linksOk = node[x].linksOk
  PROVE  LinksInv'
<1>1. at <= Len(keys) /\ at' = at + 1 /\ link' = 0 /\ taken' = {}
  BY DEF AtNode, NextLinks
<1>2. \A x \in Keys : Deserved(x)' = Deserved(x) /\ (LacksChild(x)' <=> LacksChild(x))
  BY LinkFrame, SameFaults
<1>3. ASSUME ~collision, NEW n \in DOMAIN keys
      PROVE  node'[keys[n]].linksOk = IF n < at + 1 THEN Deserved(keys[n]) ELSE "none"
  <2>1. node[keys[n]].linksOk = Judgement(n)
    BY <1>3, LinkFrame DEF LinksInv
  <2>2. n \in Nat /\ at \in Nat
    BY LinkFrame
  <2>3. CASE n = at
    BY <1>3, <2>2, <2>3 DEF Key
  <2>4. CASE n # at
    <3>1. keys[n] # Key
      BY <1>1, <2>4, LinkFrame DEF IndexInv, KeysOnce, Key
    <3>2. node'[keys[n]].linksOk = Judgement(n)
      BY <2>1, <3>1, LinkFrame
    <3>3. n < at + 1 <=> n < at
      BY <2>2, <2>4
    <3> QED
      BY <2>4, <3>2, <3>3 DEF Judgement
  <2> QED
    BY <2>3, <2>4
<1>4. ASSUME NEW n \in DOMAIN keys
      PROVE  Judgement(n)' = IF n < at + 1 THEN Deserved(keys[n]) ELSE "none"
  <2>1. Deserved(keys[n])' = Deserved(keys[n])
    <3>1. PICK x \in Keys : x = keys[n] /\ x = keys'[n]
      BY LinkFrame
    <3>2. Deserved(keys[n]) = Deserved(x) /\ Deserved(keys[n])' = Deserved(x)'
      BY <3>1
    <3> QED
      BY <1>2, <3>2
  <2> QED
    BY <1>1, <2>1 DEF Judgement
<1>5. at' <= Len(keys) + 1
  BY <1>1, LinkFrame
<1>6. \A m \in missing : \E x \in Keys : LacksChild(x)'
  BY <1>2 DEF LinksInv
<1>7. ~collision' => \A n \in DOMAIN keys' : node'[keys'[n]].linksOk = Judgement(n)'
  BY <1>3, <1>4, LinkFrame
<1>8. keys' = keys /\ Keys' = Keys
  BY LinkFrame
<1> QED
  BY <1>1, <1>5, <1>6, <1>7, <1>8 DEF LinksInv

\* The verdict a node deserves is the grade of the faults of all its links.
LEMMA DeservedIsGrade ==
  ASSUME TypeInv, NEW x \in Keys, Links(x) # <<>>, ClaimOf(x).replay
  PROVE  Deserved(x) = Grade(FaultsUpTo(ClaimOf(x), Len(Links(x))))
<1> DEFINE c == ClaimOf(x)
<1>1. Links(x) = c.links /\ DOMAIN Links(x) = 1 .. Len(Links(x))
  <2>1. Links(x) = c.links
    BY DEF Links
  <2>2. c.links \in Seq(AnyLink)
    BY <2>1, KeysAreDigests, ClaimFields DEF Links, ClaimOf
  <2> QED
    BY <2>1, <2>2
<1>2. \A m, n : {Fault(c, c.links[m], {}), Fault(c, c.links[n], {})} \cap BeforeBinding = {}
               <=> Binding(c, m) /\ Binding(c, n)
  BY DEF Binding, Alone
<1>3. LinkFaults(c) = FaultsUpTo(c, Len(Links(x)))
  <2>1. PICK k : k = Len(Links(x)) /\ DOMAIN c.links = 1 .. k
    BY <1>1
  <2>2. LinkFaults(c) = {Alone(c, n) : n \in DOMAIN c.links}
                          \cup {f \in {"overlap"} : \E m, n \in DOMAIN c.links : Clash(c, m, n)}
    <3> HIDE DEF c
    <3>1. \A m, n : Clash(c, m, n) <=>
                    /\ m # n
                    /\ {Fault(c, c.links[m], {}), Fault(c, c.links[n], {})} \cap BeforeBinding = {}
                    /\ Cells(c.links[m].dst, c.links[m].length)
                         \cap Cells(c.links[n].dst, c.links[n].length) # {}
      BY <1>2 DEF Clash, CellsOf
    <3>2. {Alone(c, n) : n \in DOMAIN c.links} = {Fault(c, c.links[n], {}) : n \in DOMAIN c.links}
      BY DEF Alone
    <3> QED
      BY <3>1, <3>2, ZenonT(40) DEF LinkFaults
  <2> QED
    BY <2>1, <2>2 DEF FaultsUpTo
<1> QED
  BY <1>3 DEF Deserved, Grade

\* The faults of one more link.
LEMMA OneMoreLink ==
  ASSUME NEW c, NEW k \in Nat \ {0}
  PROVE  FaultsUpTo(c, k) = FaultsUpTo(c, k - 1) \cup {Alone(c, k)}
                              \cup {f \in {"overlap"} : \E m \in 1 .. k - 1 : Clash(c, m, k)}
<1>1. \A n : n \in 1 .. k <=> n = k \/ n \in 1 .. k - 1
  OBVIOUS
<1>2. \A m, n : Clash(c, m, n) <=> Clash(c, n, m)
  BY DEF Clash
<1>3. ~Clash(c, k, k)
  BY DEF Clash
<1>4. (\E m, n \in 1 .. k : Clash(c, m, n))
        <=> (\E m, n \in 1 .. k - 1 : Clash(c, m, n)) \/ \E m \in 1 .. k - 1 : Clash(c, m, k)
  BY <1>1, <1>2, <1>3
<1>5. {Alone(c, n) : n \in 1 .. k} = {Alone(c, n) : n \in 1 .. k - 1} \cup {Alone(c, k)}
  BY <1>1
<1> QED
  BY <1>4, <1>5 DEF FaultsUpTo

\* A link's verdict adds its fault to those of the links before it.
LEMMA LinkChecked ==
  ASSUME NEW c, NEW k \in Nat \ {0}, link = k, TakenSoFar(c),
         NEW f, f = Fault(c, c.links[k], taken),
         link' = k + 1,
         taken' = IF f \in BeforeBinding THEN taken ELSE taken \cup CellsOf(c, k)
  PROVE  /\ Judged(Grade(FaultsUpTo(c, k - 1)), f) = Grade(FaultsUpTo(c, k))
         /\ \/ "overlap" \in FaultsUpTo(c, k)
            \/ \A i : i \in taken' <=> \E n \in 1 .. k : Binding(c, n) /\ i \in CellsOf(c, n)
         /\ f = "missing" => Alone(c, k) = "missing"
<1> DEFINE F == FaultsUpTo(c, k - 1)
           f0 == Alone(c, k)
           clashes == \E m \in 1 .. k - 1 : Clash(c, m, k)
<1>1. FaultsUpTo(c, k) = F \cup {f0} \cup {g \in {"overlap"} : clashes}
  BY OneMoreLink
<1>2. f0 # "overlap" /\ f = IF Binding(c, k) /\ taken \cap CellsOf(c, k) # {} THEN "overlap" ELSE f0
  BY FaultBesideOthers DEF Alone, Binding, CellsOf
<1>3. CASE "overlap" \in F
  BY <1>1, <1>2, <1>3, OverlapIsFalse
<1>4. CASE "overlap" \notin F
  <2>1. \A i : i \in taken <=> \E n \in 1 .. k - 1 : Binding(c, n) /\ i \in CellsOf(c, n)
    BY <1>4 DEF TakenSoFar
  <2>2. Binding(c, k) /\ taken \cap CellsOf(c, k) # {} <=> clashes
    <3>1. \A m \in 1 .. k - 1 : m # k
      OBVIOUS
    <3> QED
      BY <2>1, <3>1 DEF Clash
  <2>3. CASE clashes
    <3>1. f = "overlap" /\ "overlap" \in FaultsUpTo(c, k)
      BY <1>1, <1>2, <2>2, <2>3
    <3>2. Judged(Grade(F), f) = "false"
      BY <3>1 DEF Judged, Softening
    <3> QED
      BY <3>1, <3>2, OverlapIsFalse
  <2>4. CASE ~clashes
    <3>1. f = f0
      BY <1>2, <2>2, <2>4
    <3>2. FaultsUpTo(c, k) = F \cup {f0}
      BY <1>1, <2>4
    <3>3. Judged(Grade(F), f) = Grade(FaultsUpTo(c, k))
      BY <3>1, <3>2, GradeStep
    <3>4. \A n : n \in 1 .. k <=> n = k \/ n \in 1 .. k - 1
      OBVIOUS
    <3>5. \A i : i \in taken' <=> \E n \in 1 .. k : Binding(c, n) /\ i \in CellsOf(c, n)
      BY <2>1, <3>1, <3>4 DEF Binding
    <3> QED
      BY <3>1, <3>3, <3>5
  <2> QED
    BY <2>3, <2>4
<1> QED
  BY <1>3, <1>4

\* Checking a link of the node at hand.
LEMMA LinksStepChecked ==
  ASSUME TypeInv, IndexInv, LinksInv, CheckLink
  PROVE  LinksInv'
<1>1. /\ stage = "links" /\ stage' = "links" /\ at' = at /\ at <= Len(keys) /\ at \in DOMAIN keys
      /\ at \in Nat /\ Key \in Keys /\ Key = keys[at] /\ link' = link + 1
  BY LinkFrame DEF CheckLink, AtNode, Key, LinkStep
<1>2. PICK x \in Keys : x = Key
  BY <1>1
<1>3. PICK k \in Nat \ {0} : /\ k = link /\ k \in DOMAIN Links(x) /\ k <= Len(Links(x))
                             /\ Len(Links(x)) \in Nat /\ DOMAIN Links(x) = 1 .. Len(Links(x))
  <2>1. Links(x) \in Seq(AnyLink)
    <3>1. CASE HasReceipt(x)
      BY <3>1, KeysAreDigests, ClaimFields DEF Links, ClaimOf
    <3>2. CASE ~HasReceipt(x)
      BY <3>2 DEF Links
    <3> QED
      BY <3>1, <3>2
  <2>2. link \in DOMAIN Links(x)
    BY <1>2 DEF CheckLink
  <2>3. Len(Links(x)) \in Nat /\ DOMAIN Links(x) = 1 .. Len(Links(x))
    BY <2>1
  <2>4. link \in Nat \ {0} /\ link <= Len(Links(x))
    BY <2>2, <2>3
  <2> QED
    BY <2>2, <2>3, <2>4
<1>4. /\ Links(x) # <<>> /\ ClaimOf(x).replay /\ TakenSoFar(ClaimOf(x))
  BY <1>1, <1>2, <1>3 DEF LinksInv
<1>5. Links(x) = ClaimOf(x).links
  BY <1>4 DEF Links
<1>6. PICK f : f = Fault(ClaimOf(x), ClaimOf(x).links[k], taken)
  OBVIOUS
<1>7. /\ node' = [node EXCEPT ![x].linksOk = Judged(@, f)]
      /\ missing' = IF f = "missing" THEN missing \cup {ClaimOf(x).links[k].child} ELSE missing
      /\ taken' = IF f \in BeforeBinding THEN taken ELSE taken \cup CellsOf(ClaimOf(x), k)
  BY <1>2, <1>3, <1>5, <1>6 DEF CheckLink, CellsOf
<1>8. /\ Judged(Grade(FaultsUpTo(ClaimOf(x), k - 1)), f) = Grade(FaultsUpTo(ClaimOf(x), k))
      /\ \/ "overlap" \in FaultsUpTo(ClaimOf(x), k)
         \/ \A i : i \in taken' <=> \E n \in 1 .. k : Binding(ClaimOf(x), n) /\ i \in CellsOf(ClaimOf(x), n)
      /\ f = "missing" => Alone(ClaimOf(x), k) = "missing"
  <2>1. link = k /\ link' = k + 1
    BY <1>1, <1>3
  <2> QED
    BY <1>4, <1>6, <1>7, <2>1, LinkChecked
<1>9. /\ \A y \in Keys : y # x => node'[y].linksOk = node[y].linksOk
      /\ node'[x].linksOk = Judged(node[x].linksOk, f)
  <2>1. node[x].linksOk \in {"none", "true", "incomplete", "false"}
    BY DEF TypeInv, Node
  <2>2. PICK ok \in {"none", "true", "incomplete", "false"} : ok = Judged(node[x].linksOk, f)
    BY <2>1, JudgedIsAVerdict
  <2>3. node' = [node EXCEPT ![x].linksOk = ok]
    BY <1>7, <2>2
  <2>4. \A y \in Keys : node'[y].linksOk = IF y = x THEN ok ELSE node[y].linksOk
    <3>1. node \in [Keys -> Node]
      BY DEF TypeInv
    <3>2. \A y \in Keys : node'[y] = IF y = x THEN [node[y] EXCEPT !.linksOk = ok] ELSE node[y]
      BY <2>3, <3>1
    <3> QED
      BY <3>1, <3>2 DEF Node
  <2> QED
    BY <2>2, <2>4
<1>10. /\ keys' = keys /\ Keys' = Keys /\ collision' = collision
       /\ \A y \in Keys : /\ Links(y)' = Links(y) /\ Deserved(y)' = Deserved(y)
                          /\ LacksChild(y)' <=> LacksChild(y)
                          /\ node'[y].claim = node[y].claim
       /\ \A e, n : FaultsUpTo(e, n)' = FaultsUpTo(e, n)
       /\ \A faults : Grade(faults)' = Grade(faults)
       /\ \A e, n : Binding(e, n)' <=> Binding(e, n)
  <2>1. Keys' = Keys /\ Claimed' = Claimed /\ strict' = strict /\ keys' = keys /\ collision' = collision
    BY LinkFrame DEF LinkStep
  <2>2. \A y \in Keys : node'[y].claim = node[y].claim
    BY <2>1 DEF Claimed
  <2>3. \A e, n : Binding(e, n)' <=> Binding(e, n)
    BY <2>1, SameFaults DEF Binding, Alone
  <2> QED
    BY <2>1, <2>2, <2>3, SameFaults
<1>11. PICK e : e = ClaimOf(x) /\ e = node[x].claim /\ e = node'[x].claim
  BY <1>10 DEF ClaimOf
<1>12. link' # 0 /\ link' - 1 = k /\ link' <= Len(Links(x)) + 1
  BY <1>1, <1>3
<1>13. TakenSoFar(e)'
  <2>1. \/ "overlap" \in FaultsUpTo(e, k)
        \/ \A i : i \in taken' <=> \E n \in 1 .. k : Binding(e, n) /\ i \in CellsOf(e, n)
    BY <1>8, <1>11
  <2>2. FaultsUpTo(e, link - 1)' = FaultsUpTo(e, k)
    <3>1. FaultsUpTo(e, link - 1)' = FaultsUpTo(e, k)'
      BY <1>12
    <3> QED
      BY <1>10, <3>1
  <2> QED
    BY <1>10, <1>12, <2>1, <2>2 DEF TakenSoFar, CellsOf
<1>14. Key' = x /\ ClaimOf(Key)' = e /\ Links(Key)' = Links(x)
  <2>1. Key' = x
    BY <1>1, <1>2, <1>10 DEF Key
  <2>2. Links(Key)' = Links(x)'
    BY <2>1 DEF Links, ClaimOf, HasReceipt
  <2> QED
    BY <1>10, <1>11, <2>1, <2>2 DEF ClaimOf
<1>15. ASSUME ~collision, NEW n \in DOMAIN keys
       PROVE  node'[keys[n]].linksOk = Judgement(n)'
  <2>1. node[keys[n]].linksOk = Judgement(n)
    BY <1>1, <1>15 DEF LinksInv
  <2>2. keys[n] \in Keys /\ n \in Nat
    BY LinkFrame DEF LinkStep
  <2>3. CASE n = at
    <3>1. keys[n] = x
      BY <1>1, <1>2, <2>3
    <3>2. node[x].linksOk = Grade(FaultsUpTo(e, k - 1))
      <4>1. ~(n < at) /\ link = k /\ link # 0
        BY <1>1, <1>3, <2>3
      <4>2. Judgement(n) = Grade(FaultsUpTo(ClaimOf(keys[n]), link - 1))
        BY <2>3, <4>1 DEF Judgement
      <4> QED
        BY <1>11, <2>1, <3>1, <4>1, <4>2
    <3>3. node'[x].linksOk = Grade(FaultsUpTo(e, k))
      BY <1>8, <1>9, <1>11, <3>2
    <3>4. Judgement(n)' = Grade(FaultsUpTo(e, k))'
      <4>1. ClaimOf(keys[n])' = e
        BY <1>10, <1>11, <3>1 DEF ClaimOf
      <4>2. Judgement(n)' = Grade(FaultsUpTo(ClaimOf(keys[n]), link - 1))'
        BY <1>1, <1>12, <2>3 DEF Judgement
      <4> QED
        BY <1>12, <4>1, <4>2
    <3>5. Grade(FaultsUpTo(e, k))' = Grade(FaultsUpTo(e, k))
      <4>1. PICK g : g = FaultsUpTo(e, k) /\ g = FaultsUpTo(e, k)'
        BY <1>10
      <4>2. Grade(FaultsUpTo(e, k))' = Grade(g)'
        BY <4>1
      <4> QED
        BY <1>10, <4>1, <4>2
    <3> QED
      BY <3>1, <3>3, <3>4, <3>5
  <2>4. CASE n # at
    <3>1. keys[n] # x
      BY <1>1, <1>2, <2>4 DEF IndexInv, KeysOnce
    <3>2. node'[keys[n]].linksOk = Judgement(n)
      BY <1>9, <2>1, <2>2, <3>1
    <3>3. Judgement(n)' = IF n < at THEN Deserved(keys[n])' ELSE "none"
      BY <1>1, <2>4 DEF Judgement
    <3>4. Deserved(keys[n])' = Deserved(keys[n])
      <4>1. PICK y \in Keys : y = keys[n] /\ y = keys'[n]
        BY <1>10, <2>2
      <4>2. Deserved(keys[n]) = Deserved(y) /\ Deserved(keys[n])' = Deserved(y)'
        BY <4>1
      <4> QED
        BY <1>10, <4>2
    <3> QED
      BY <2>4, <3>2, <3>3, <3>4 DEF Judgement
  <2> QED
    BY <2>3, <2>4
<1>16. \A m \in missing' : \E y \in Keys : LacksChild(y)'
  <2>1. f = "missing" => LacksChild(x)
    BY <1>3, <1>4, <1>8 DEF LacksChild
  <2>2. missing' # missing => f = "missing"
    BY <1>7
  <2> QED
    BY <1>10, <2>1, <2>2 DEF LinksInv
<1>17. ~collision' => \A n \in DOMAIN keys' : node'[keys'[n]].linksOk = Judgement(n)'
  BY <1>10, <1>15
<1>18. Links(Key)' # <<>> /\ ClaimOf(Key).replay' /\ link' <= Len(Links(Key)') + 1 /\ TakenSoFar(ClaimOf(Key))'
  <2>1. TakenSoFar(ClaimOf(Key))' = TakenSoFar(e)'
    BY <1>14
  <2> QED
    BY <1>4, <1>11, <1>12, <1>13, <1>14, <2>1
<1>19. stage' = "links" /\ at' <= Len(keys') + 1 /\ link' # 0 /\ at' <= Len(keys')
  <2>1. Len(keys) \in Nat
    BY LinkFrame DEF LinkStep
  <2> QED
    BY <1>1, <1>10, <1>12, <2>1
<1> QED
  BY <1>10, <1>16, <1>17, <1>18, <1>19 DEF LinksInv

\* Beginning a node: without links, without a program, or with a first link.
LEMMA LinksStepBegun ==
  ASSUME TypeInv, IndexInv, LinksInv, BeginLinks
  PROVE  LinksInv'
<1>1. /\ stage = "links" /\ stage' = "links" /\ at' = at /\ at <= Len(keys) /\ at \in DOMAIN keys
      /\ at \in Nat /\ Key \in Keys /\ Key = keys[at] /\ link = 0 /\ link' = 1 /\ taken' = taken /\ missing' = missing
  BY LinkFrame DEF BeginLinks, AtNode, Key, LinkStep
<1>2. PICK x \in Keys : x = Key
  BY <1>1
<1>3. Links(x) # <<>> /\ ClaimOf(x).replay /\ node' = [node EXCEPT ![x].linksOk = "true"]
  BY <1>2 DEF BeginLinks
<1>4. \A y \in Keys : node'[y].linksOk = IF y = x THEN "true" ELSE node[y].linksOk
  BY <1>3, Rejudged
<1>5. /\ keys' = keys /\ Keys' = Keys /\ collision' = collision
      /\ \A y \in Keys : /\ Links(y)' = Links(y) /\ Deserved(y)' = Deserved(y)
                         /\ LacksChild(y)' <=> LacksChild(y)
                         /\ node'[y].claim = node[y].claim
      /\ \A e, n : FaultsUpTo(e, n)' = FaultsUpTo(e, n)
      /\ \A faults : Grade(faults)' = Grade(faults)
  <2>1. Keys' = Keys /\ Claimed' = Claimed /\ strict' = strict /\ keys' = keys /\ collision' = collision
    BY LinkFrame DEF LinkStep
  <2>2. \A y \in Keys : node'[y].claim = node[y].claim
    BY <2>1 DEF Claimed
  <2> QED
    BY <2>1, <2>2, SameFaults
<1>6. PICK e : e = ClaimOf(x) /\ e = node[x].claim /\ e = node'[x].claim
  BY <1>5 DEF ClaimOf
<1>7. FaultsUpTo(e, 0) = {} /\ Grade({}) = "true"
  BY DEF FaultsUpTo, Grade
<1>8. taken = {}
  BY <1>1 DEF LinksInv
<1>9. TakenSoFar(e)'
  BY <1>1, <1>8 DEF TakenSoFar
<1>10. Key' = x /\ ClaimOf(Key)' = e /\ Links(Key)' = Links(x)
  <2>1. Key' = x
    BY <1>1, <1>2, <1>5 DEF Key
  <2>2. Links(Key)' = Links(x)'
    BY <2>1 DEF Links, ClaimOf, HasReceipt
  <2> QED
    BY <1>5, <1>6, <2>1, <2>2 DEF ClaimOf
<1>11. link' <= Len(Links(x)) + 1
  <2>1. Links(x) = ClaimOf(x).links
    BY <1>3 DEF Links
  <2>2. ClaimOf(x).links \in Seq(AnyLink)
    BY <1>3, KeysAreDigests, ClaimFields DEF Links, ClaimOf
  <2>3. Len(Links(x)) \in Nat
    BY <2>1, <2>2
  <2> QED
    BY <1>1, <2>3
<1>12. ASSUME ~collision, NEW n \in DOMAIN keys
       PROVE  node'[keys[n]].linksOk = Judgement(n)'
  <2>1. node[keys[n]].linksOk = Judgement(n)
    BY <1>1, <1>12 DEF LinksInv
  <2>2. keys[n] \in Keys /\ n \in Nat
    BY LinkFrame DEF LinkStep
  <2>3. CASE n = at
    <3>1. keys[n] = x
      BY <1>1, <1>2, <2>3
    <3>2. Judgement(n)' = Grade(FaultsUpTo(e, 0))'
      <4>1. ClaimOf(keys[n])' = e
        BY <1>5, <1>6, <3>1 DEF ClaimOf
      <4>2. ~(n < at)' /\ link' - 1 = 0 /\ link' # 0 /\ n = at'
        BY <1>1, <2>3
      <4>3. Judgement(n)' = Grade(FaultsUpTo(ClaimOf(keys[n]), link - 1))'
        BY <4>2 DEF Judgement
      <4> QED
        BY <4>1, <4>2, <4>3
    <3>3. Grade(FaultsUpTo(e, 0))' = "true"
      <4>1. PICK g : g = {} /\ g = FaultsUpTo(e, 0)'
        BY <1>5, <1>7
      <4>2. Grade(FaultsUpTo(e, 0))' = Grade(g)'
        BY <4>1
      <4>3. Grade(g) = "true" /\ Grade(g)' = Grade(g)
        BY <1>5, <1>7, <4>1
      <4> QED
        BY <4>2, <4>3
    <3> QED
      BY <1>4, <3>1, <3>2, <3>3
  <2>4. CASE n # at
    <3>1. keys[n] # x
      BY <1>1, <1>2, <2>4 DEF IndexInv, KeysOnce
    <3>2. node'[keys[n]].linksOk = Judgement(n)
      BY <1>4, <2>1, <2>2, <3>1
    <3>3. Judgement(n)' = IF n < at THEN Deserved(keys[n])' ELSE "none"
      BY <1>1, <2>4 DEF Judgement
    <3>4. Deserved(keys[n])' = Deserved(keys[n])
      <4>1. PICK y \in Keys : y = keys[n] /\ y = keys'[n]
        BY <1>5, <2>2
      <4>2. Deserved(keys[n]) = Deserved(y) /\ Deserved(keys[n])' = Deserved(y)'
        BY <4>1
      <4> QED
        BY <1>5, <4>2
    <3> QED
      BY <2>4, <3>2, <3>3, <3>4 DEF Judgement
  <2> QED
    BY <2>3, <2>4
<1>13. \A m \in missing' : \E y \in Keys : LacksChild(y)'
  BY <1>1, <1>5 DEF LinksInv
<1>14. ~collision' => \A n \in DOMAIN keys' : node'[keys'[n]].linksOk = Judgement(n)'
  BY <1>5, <1>12
<1>15. Links(Key)' # <<>> /\ ClaimOf(Key).replay' /\ link' <= Len(Links(Key)') + 1 /\ TakenSoFar(ClaimOf(Key))'
  <2>1. TakenSoFar(ClaimOf(Key))' = TakenSoFar(e)'
    BY <1>10
  <2> QED
    BY <1>3, <1>6, <1>9, <1>10, <1>11, <2>1
<1>16. stage' = "links" /\ at' <= Len(keys') + 1 /\ link' # 0 /\ at' <= Len(keys')
  <2>1. Len(keys) \in Nat
    BY LinkFrame DEF LinkStep
  <2> QED
    BY <1>1, <1>5, <2>1
<1> QED
  BY <1>5, <1>13, <1>14, <1>15, <1>16 DEF LinksInv

\* The steps of check_links,
LEMMA LinksInvLinkStep ==
  ASSUME TypeInv, IndexInv, LinksInv, LinkStep
  PROVE  LinksInv'
<1>1. /\ UNCHANGED <<keys, collision>> /\ Keys' = Keys /\ node \in [Keys -> Node] /\ link \in Nat
      /\ \A n \in DOMAIN keys : keys[n] \in Keys
      /\ at <= Len(keys) => at \in DOMAIN keys /\ Key \in Keys
  <2>1. Key = keys[at]
    BY DEF Key
  <2> QED
    BY <2>1, LinkFrame
<1>2. AtNode("links") => /\ stage = "links" /\ at <= Len(keys) /\ at \in DOMAIN keys /\ Key \in Keys /\ Key = keys[at]
                         /\ ~collision => node[Key].linksOk = Judgement(at)
  <2> SUFFICES ASSUME AtNode("links")
               PROVE  /\ stage = "links" /\ at <= Len(keys) /\ at \in DOMAIN keys /\ Key \in Keys /\ Key = keys[at]
                      /\ ~collision => node[Key].linksOk = Judgement(at)
    OBVIOUS
  <2>1. stage = "links" /\ at <= Len(keys) /\ at \in DOMAIN keys /\ Key \in Keys /\ Key = keys[at]
    BY <1>1 DEF AtNode, Key
  <2>2. ~collision => node[keys[at]].linksOk = Judgement(at)
    BY <2>1 DEF LinksInv
  <2> QED
    BY <2>1, <2>2
<1>3. at \in Nat /\ ~(at < at)
  BY LinkFrame
<1>4. CASE SkipLinks
  <2>1. Deserved(Key) = "none" /\ Judgement(at) = "none"
    BY <1>3, <1>4 DEF SkipLinks, Deserved, Judgement
  <2>2. AtNode("links") /\ stage' = "links" /\ NextLinks /\ missing' = missing /\ node' = node
    BY <1>4 DEF SkipLinks, AtNode
  <2> QED
    BY <1>2, <2>1, <2>2, LinksInvNextNode
<1>5. CASE BadParent
  <2>1. Deserved(Key) = "false"
    BY <1>5 DEF BadParent, Deserved
  <2>2. AtNode("links") /\ stage' = "links" /\ NextLinks /\ missing' = missing
        /\ node' = [node EXCEPT ![Key].linksOk = "false"]
    BY <1>5 DEF BadParent, AtNode
  <2>3. \A x \in Keys : node'[x].linksOk = IF x = Key THEN "false" ELSE node[x].linksOk
    <3>1. PICK x \in Keys : x = Key
      BY <1>2, <2>2
    <3> QED
      BY <2>2, <3>1, Rejudged
  <2> QED
    BY <1>2, <2>1, <2>2, <2>3, LinksInvNextNode
<1>6. CASE EndLinks
  <2>1. AtNode("links") /\ stage' = "links" /\ NextLinks /\ missing' = missing /\ node' = node
        /\ link # 0 /\ link = Len(Links(Key)) + 1
    BY <1>6 DEF EndLinks, AtNode
  <2>2. PICK x \in Keys : x = Key
    BY <1>2, <2>1
  <2>3. Links(x) # <<>> /\ ClaimOf(x).replay
    BY <1>2, <2>1, <2>2 DEF LinksInv
  <2>4. Deserved(x) = Grade(FaultsUpTo(ClaimOf(x), Len(Links(x))))
    BY <2>3, DeservedIsGrade
  <2>5. Judgement(at) = Grade(FaultsUpTo(ClaimOf(x), link - 1))
    BY <1>2, <1>3, <2>1, <2>2 DEF Judgement
  <2>6. link - 1 = Len(Links(x))
    <3>1. Links(x) = ClaimOf(x).links
      BY <2>3 DEF Links
    <3>2. ClaimOf(x).links \in Seq(AnyLink)
      BY <2>3, KeysAreDigests, ClaimFields DEF Links, ClaimOf
    <3>3. Len(Links(x)) \in Nat
      BY <3>1, <3>2
    <3> QED
      BY <2>1, <2>2, <3>3
  <2>7. Deserved(Key) = Judgement(at)
    BY <2>2, <2>4, <2>5, <2>6
  <2> QED
    BY <1>2, <2>1, <2>7, LinksInvNextNode
<1>7. CASE CheckLink
  BY <1>7, LinksStepChecked
<1>8. CASE LinksDone
  <2>1. /\ stage = "links" /\ stage' = "walk" /\ node' = node /\ at = Len(keys) + 1 /\ UNCHANGED <<missing, cycle>>
    BY <1>8 DEF LinksDone
  <2>2. \A x \in Keys : Deserved(x)' = Deserved(x) /\ (LacksChild(x)' <=> LacksChild(x))
    BY LinkFrame, SameFaults
  <2>3. ~collision => \A x \in Keys : node[x].linksOk = Deserved(x)
    <3> SUFFICES ASSUME ~collision, NEW x \in Keys PROVE node[x].linksOk = Deserved(x)
      OBVIOUS
    <3>1. PICK n \in DOMAIN keys : keys[n] = x
      BY DEF Keys
    <3>2. n < at
      BY <2>1, LinkFrame
    <3>3. node[x].linksOk = Judgement(n)
      BY <2>1, <3>1 DEF LinksInv
    <3> QED
      BY <3>1, <3>2, <3>3 DEF Judgement
  <2>4. ~collision' => \A x \in Keys' : node'[x].linksOk = Deserved(x)'
    BY <1>1, <2>1, <2>2, <2>3
  <2>5. \A m \in missing' : \E x \in Keys' : LacksChild(x)'
    BY <1>1, <2>1, <2>2 DEF LinksInv
  <2> QED
    BY <2>1, <2>4, <2>5 DEF LinksInv
<1> QED
  BY <1>4, <1>5, <1>6, <1>7, <1>8, LinksStepBegun DEF LinkStep

\* and all others.
LEMMA LinksStep ==
  ASSUME TypeInv, WalkInv, IndexInv, LinksInv, [Next]_vars
  PROVE  LinksInv'
<1>1. CASE UNCHANGED vars
  <2>1. Keys' = Keys /\ Claimed' = Claimed /\ strict' = strict /\ node' = node /\ keys' = keys
        /\ UNCHANGED <<stage, at, link, taken, missing, collision, cycle>>
    BY <1>1 DEF vars, Keys, Claimed
  <2>2. /\ \A e, n : FaultsUpTo(e, n)' = FaultsUpTo(e, n)
        /\ \A faults : Grade(faults)' = Grade(faults)
        /\ \A e, n : Binding(e, n)' <=> Binding(e, n)
        /\ \A x \in Keys : /\ Links(x)' = Links(x) /\ Deserved(x)' = Deserved(x)
                           /\ LacksChild(x)' <=> LacksChild(x)
    <3>1. \A e, n : Binding(e, n)' <=> Binding(e, n)
      BY <2>1, SameFaults DEF Binding, Alone
    <3> QED
      BY <2>1, <3>1, SameFaults
  <2>3. ASSUME stage = "links", link # 0
        PROVE  TakenSoFar(ClaimOf(Key))' /\ Links(Key)' # <<>> /\ ClaimOf(Key)' = ClaimOf(Key) /\ Links(Key)' = Links(Key)
    <3>1. PICK e, ls : e = ClaimOf(Key) /\ e = ClaimOf(Key)' /\ ls = Links(Key) /\ ls = Links(Key)'
      BY <2>1 DEF ClaimOf, Links, HasReceipt, Key
    <3>2. TakenSoFar(e)
      BY <2>3, <3>1 DEF LinksInv
    <3>3. TakenSoFar(e)'
      <4>1. FaultsUpTo(e, link - 1)' = FaultsUpTo(e, link - 1)
        <5>1. PICK k : k = link - 1 /\ k = (link - 1)'
          BY <2>1
        <5>2. FaultsUpTo(e, link - 1)' = FaultsUpTo(e, k)' /\ FaultsUpTo(e, link - 1) = FaultsUpTo(e, k)
          BY <5>1
        <5> QED
          BY <2>2, <5>2
      <4> QED
        BY <2>1, <2>2, <3>2, <4>1 DEF TakenSoFar, CellsOf
    <3>4. TakenSoFar(ClaimOf(Key))' = TakenSoFar(e)'
      BY <3>1
    <3> QED
      BY <2>3, <3>1, <3>3, <3>4 DEF LinksInv
  <2>4. ASSUME ~collision, NEW n \in DOMAIN keys, stage = "links"
        PROVE  node[keys[n]].linksOk = Judgement(n)'
    <3>1. PICK x \in Keys : x = keys[n] /\ x = keys'[n]
      BY <2>1 DEF Keys
    <3>2. Deserved(keys[n])' = Deserved(keys[n])
      <4>1. Deserved(keys[n]) = Deserved(x) /\ Deserved(keys[n])' = Deserved(x)'
        BY <3>1
      <4> QED
        BY <2>2, <4>1
    <3>3. Grade(FaultsUpTo(ClaimOf(keys[n]), link - 1))' = Grade(FaultsUpTo(ClaimOf(keys[n]), link - 1))
      <4>1. PICK e, k : e = ClaimOf(keys[n]) /\ e = ClaimOf(keys[n])' /\ k = link - 1 /\ k = (link - 1)'
        BY <2>1 DEF ClaimOf
      <4>2. PICK g : g = FaultsUpTo(e, k) /\ g = FaultsUpTo(e, k)'
        BY <2>2
      <4>3. Grade(FaultsUpTo(ClaimOf(keys[n]), link - 1))' = Grade(g)'
        BY <4>1, <4>2
      <4> QED
        BY <2>2, <4>1, <4>2, <4>3
    <3> QED
      BY <2>1, <2>4, <3>2, <3>3 DEF LinksInv, Judgement
  <2>5. \A m \in missing' : \E x \in Keys' : LacksChild(x)'
    BY <2>1, <2>2 DEF LinksInv
  <2>6. stage' \in {"walk", "done"} /\ ~collision' /\ ~cycle' => \A x \in Keys' : node'[x].linksOk = Deserved(x)'
    BY <2>1, <2>2 DEF LinksInv
  <2>7. stage' = "links" =>
       /\ at' <= Len(keys') + 1
       /\ link' = 0 => taken' = {}
       /\ link' # 0 => /\ at' <= Len(keys') /\ Links(Key)' # <<>> /\ ClaimOf(Key)'.replay
                      /\ link' <= Len(Links(Key)') + 1
                      /\ TakenSoFar(ClaimOf(Key))'
    BY <2>1, <2>3 DEF LinksInv
  <2>8. stage' = "links" /\ ~collision' => \A n \in DOMAIN keys' : node'[keys'[n]].linksOk = Judgement(n)'
    BY <2>1, <2>4
  <2>9. /\ stage' \in {"index", "ladder"} => link' = 0 /\ taken' = {} /\ missing' = {}
        /\ stage' \in {"index", "ladder"} /\ ~collision' => \A x \in Keys' : node'[x].linksOk = "none"
    BY <2>1 DEF LinksInv
  <2> QED
    BY <2>5, <2>6, <2>7, <2>8, <2>9 DEF LinksInv
<1>2. CASE Index
  BY <1>2, LinksInvIndex
<1>3. CASE Ladder
  BY <1>3, LinksInvLadder
<1>4. CASE LinkStep
  BY <1>4, LinksInvLinkStep
<1>5. CASE Walk
  BY <1>5, LinksInvWalk
<1> QED
  BY <1>1, <1>2, <1>3, <1>4, <1>5 DEF Next

-----------------------------------------------------------------------------
(* The induction. *)

IInv == TypeInv /\ WalkInv /\ IndexInv /\ LadderInv /\ LinksInv

\* The invariant holds before the first document,
LEMMA InitIInv == Fresh => IInv
<1> SUFFICES ASSUME Fresh PROVE IInv
  OBVIOUS
<1>1. TypeInv /\ IndexInv
  BY TypeInit, IndexInit
<1>2. Keys = {} /\ stage = "index" /\ stack = <<>> /\ order = <<>> /\ cycle = FALSE
      /\ link = 0 /\ taken = {} /\ missing = {}
  BY DEF Fresh, Untouched, Keys
<1>3. WalkInv
  BY <1>2 DEF WalkInv
<1>4. LadderInv /\ LinksInv
  BY <1>2 DEF LadderInv, LinksInv
<1> QED
  BY <1>1, <1>3, <1>4 DEF IInv

\* and every step keeps it.
LEMMA StepIInv ==
  ASSUME IInv, [Next]_vars
  PROVE  IInv'
<1>1. TypeInv /\ WalkInv /\ IndexInv /\ LadderInv /\ LinksInv
  BY DEF IInv
<1>2. TypeInv' /\ WalkInv' /\ IndexInv' /\ LadderInv' /\ LinksInv'
  BY <1>1, TypeStep, WalkStep, IndexStep, LadderStep, LinksStep
<1> QED
  BY <1>2 DEF IInv

\* What verify_graph keeps from its first document to its verdict, through the
\* index, the ladders, check_links and dfs (graph.py:124 to 366): the conjunction
\* the properties below follow from.
THEOREM GraphIsKept == Spec => []IInv
<1>1. Init => IInv
  BY InitIsFresh, InitIInv
<1>2. IInv /\ [Next]_vars => IInv'
  BY StepIInv
<1> QED
  BY <1>1, <1>2, PTL DEF Spec

\* Whatever is supplied, and wherever dfs starts, a CYCLE note is made exactly
\* when some of the supplied claims each name another of them (graph.py:325).
THEOREM CyclesAreReported == Spec => []CycleReported
<1>1. IInv => CycleReported
  BY CycleIsReported DEF IInv
<1> QED
  BY <1>1, GraphIsKept, PTL

\* dfs finishes every node once, and where there is no cycle after every child
\* it names (graph.py:177).
THEOREM ChildrenAreFirst == Spec => []ChildrenFirst
<1>1. IInv => ChildrenFirst
  BY ChildrenComeFirst DEF IInv
<1> QED
  BY <1>1, GraphIsKept, PTL

\* A node's links are said false exactly when one of them is wrong, and only
\* incomplete when a child is missing or a slice unproven and nothing is worse,
\* however many links it has and in whatever order (graph.py:204, 301).
THEOREM MissingIsNotForged == Spec => []IncompleteIsNotForged
<1>1. IInv => IncompleteIsNotForged
  BY DEF IInv, LinksInv, IncompleteIsNotForged
<1> QED
  BY <1>1, GraphIsKept, PTL

-----------------------------------------------------------------------------
(* The verdict.  At the end the index says of the set supplied what GoodSet  *)
(* asks of it, part by part.                                                 *)

LEMMA AllRead ==
  ASSUME TypeInv, stage = "done"
  PROVE  /\ Read = Len(docs) /\ DOMAIN docs = 1 .. Read /\ Read \in Nat
         /\ \A d : d \in Elements(docs) <=> \E n \in 1 .. Read : d = docs[n]
         /\ \A c : c \in ClaimsOf(Elements(docs)) <=> \E n \in 1 .. Read : IsReceipt(docs[n]) /\ c = docs[n].claim
         /\ \A n \in 1 .. Read : IsReceipt(docs[n]) => /\ docs[n].claim \in AnyClaim
                                                       /\ docs[n].claim.digest > 0
<1>1. Read = Len(docs) /\ DOMAIN docs = 1 .. Read /\ Read \in Nat
  BY DEF Read, TypeInv
<1>2. \A d : d \in Elements(docs) <=> \E n \in 1 .. Read : d = docs[n]
  BY <1>1 DEF Elements
<1>3. \A c : c \in ClaimsOf(Elements(docs)) <=> \E n \in 1 .. Read : IsReceipt(docs[n]) /\ c = docs[n].claim
  BY <1>2 DEF ClaimsOf
<1>4. \A n \in 1 .. Read : IsReceipt(docs[n]) => docs[n].claim \in AnyClaim
  BY <1>1 DEF TypeInv
<1>5. \A n \in 1 .. Read : IsReceipt(docs[n]) => docs[n].claim.digest > 0
  BY <1>4, ClaimFields
<1> QED
  BY <1>1, <1>2, <1>3, <1>4, <1>5

\* A collision is noted exactly when two claims share a digest.
LEMMA CollisionIsOfTheSet ==
  ASSUME TypeInv, IndexInv, stage = "done"
  PROVE  ~collision <=> \A c, e \in ClaimsOf(Elements(docs)) : c.digest = e.digest => c = e
<1>1. collision <=> \E m, n \in 1 .. Read : Colliding(m, n)
  BY DEF IndexInv, CollisionNoted
<1> QED
  BY <1>1, AllRead DEF Colliding

\* Without one, a receipt's key holds that receipt's claim.
LEMMA KeyHoldsTheClaim ==
  ASSUME TypeInv, IndexInv, stage = "done", ~collision, NEW n \in 1 .. Read, IsReceipt(docs[n])
  PROVE  /\ docs[n].claim.digest \in Keys /\ HasReceipt(docs[n].claim.digest)
         /\ ClaimOf(docs[n].claim.digest) = docs[n].claim
<1> DEFINE x == docs[n].claim.digest
<1>1. x \in Keys /\ HasReceipt(x)
  BY AllRead DEF IndexInv, EachKeyed, HasReceipt
<1>2. PICK m \in 1 .. Read : IsReceipt(docs[m]) /\ docs[m].claim = ClaimOf(x)
  BY <1>1 DEF IndexInv, KeyedByClaim
<1>3. ClaimOf(x).digest = x
  BY <1>1, KeysAreDigests DEF ClaimOf
<1>4. ~Colliding(m, n)
  BY DEF IndexInv, CollisionNoted
<1> QED
  BY <1>1, <1>2, <1>3, <1>4 DEF Colliding

\* Without a collision the claims supplied are those of the nodes.
LEMMA ClaimsAreKeyed ==
  ASSUME TypeInv, IndexInv, stage = "done", ~collision
  PROVE  ClaimsOf(Elements(docs)) = {ClaimOf(x) : x \in {y \in Keys : HasReceipt(y)}}
<1>1. ASSUME NEW c \in ClaimsOf(Elements(docs))
      PROVE  \E x \in Keys : HasReceipt(x) /\ c = ClaimOf(x)
  BY <1>1, AllRead, KeyHoldsTheClaim
<1>2. ASSUME NEW x \in Keys, HasReceipt(x)
      PROVE  ClaimOf(x) \in ClaimsOf(Elements(docs))
  BY <1>2, AllRead DEF IndexInv, KeyedByClaim
<1> QED
  BY <1>1, <1>2

\* Every item supplied is a receipt exactly if every key is a digest.
LEMMA KeysAreOfTheSet ==
  ASSUME TypeInv, IndexInv, stage = "done"
  PROVE  Keys # {} <=> Elements(docs) # {}
<1>1. ASSUME NEW x \in Keys
      PROVE  Elements(docs) # {}
  BY <1>1, AllRead DEF IndexInv, KeyedByClaim
<1>2. ASSUME NEW d \in Elements(docs)
      PROVE  Keys # {}
  BY <1>2, AllRead DEF IndexInv, EachKeyed
<1> QED
  BY <1>1, <1>2

\* Every node is verified exactly when every document is.
LEMMA LaddersAreOfTheSet ==
  ASSUME TypeInv, IndexInv, LadderInv, stage = "done", ~collision
  PROVE  (\A x \in Keys : node[x].verified) <=> \A d \in Elements(docs) : IsReceipt(d) /\ d.verified
<1>1. \A x \in Keys : node[x].verified <=> Standing(x)
  BY DEF LadderInv
<1>2. ASSUME \A x \in Keys : node[x].verified, NEW n \in 1 .. Read
      PROVE  IsReceipt(docs[n]) /\ docs[n].verified
  <2>1. IsReceipt(docs[n])
    <3> SUFFICES ASSUME ~IsReceipt(docs[n]) PROVE FALSE
      OBVIOUS
    <3>1. PlaceholderKey(n) \in Keys
      BY DEF IndexInv, EachKeyed
    <3>2. ~HasReceipt(PlaceholderKey(n))
      BY AllRead DEF HasReceipt, PlaceholderKey
    <3> QED
      BY <1>1, <1>2, <3>1, <3>2 DEF Standing
  <2>2. PICK x \in Keys : HasReceipt(x) /\ ClaimOf(x) = docs[n].claim
    BY <2>1, KeyHoldsTheClaim
  <2>3. docs[n] \in node[x].envelopes
    BY <2>1, <2>2 DEF IndexInv, EnvelopesKept
  <2> QED
    BY <1>1, <1>2, <2>1, <2>2, <2>3 DEF Standing
<1>3. ASSUME \A n \in 1 .. Read : IsReceipt(docs[n]) /\ docs[n].verified, NEW x \in Keys
      PROVE  node[x].verified
  <2>1. HasReceipt(x)
    BY <1>3 DEF IndexInv, KeyedByClaim
  <2>2. \A d \in node[x].envelopes : d.verified
    BY <1>3, <2>1 DEF IndexInv, EnvelopesKept
  <2> QED
    BY <1>1, <2>1, <2>2 DEF Standing
<1> QED
  BY <1>2, <1>3, AllRead

\* A stretch of a list.
LEMMA SliceOf ==
  ASSUME NEW S, NEW list \in Seq(S), NEW from \in Nat, NEW length \in Nat \ {0}, from + length <= Len(list)
  PROVE  /\ DOMAIN Slice(list, from, length) = 1 .. length
         /\ Slice(list, from, length) \in Seq(S)
         /\ \A n \in 1 .. length : Slice(list, from, length)[n] = list[from + n]
<1> DEFINE part == SubSeq(list, from + 1, from + length)
<1>1. Slice(list, from, length) = part
  BY DEF Slice
<1>2. \A i \in from + 1 .. from + length : list[i] \in S
  OBVIOUS
<1>3. /\ part \in Seq(S)
      /\ Len(part) = IF from + 1 <= from + length THEN from + length - (from + 1) + 1 ELSE 0
      /\ \A i \in 1 .. from + length - (from + 1) + 1 : part[i] = list[from + 1 + i - 1]
  BY <1>2, SubSeqProperties
<1>4. from + length - (from + 1) + 1 = length /\ from + 1 <= from + length /\ \A i \in 1 .. length : from + 1 + i - 1 = from + i
  OBVIOUS
<1>5. Len(part) = length
  BY <1>3, <1>4
<1>6. \A i \in 1 .. length : part[i] = list[from + i]
  BY <1>3, <1>4
<1>7. DOMAIN part = 1 .. length
  BY <1>3, <1>5
<1> QED
  BY <1>1, <1>3, <1>6, <1>7

Agree(a, da, b, db, length) == \A n \in 1 .. length : a[da + n] = b[db + n]

\* Two slices are the same sequence if they agree item by item.
LEMMA SameSlice ==
  ASSUME NEW S, NEW a \in Seq(S), NEW b \in Seq(S), NEW da \in Nat, NEW db \in Nat, NEW length \in Nat \ {0},
         da + length <= Len(a), db + length <= Len(b)
  PROVE  Slice(a, da, length) = Slice(b, db, length) <=> Agree(a, da, b, db, length)
<1>1. PICK s, t : s = Slice(a, da, length) /\ t = Slice(b, db, length)
  OBVIOUS
<1>2. /\ s \in Seq(S) /\ DOMAIN s = 1 .. length /\ \A n \in 1 .. length : s[n] = a[da + n]
      /\ t \in Seq(S) /\ DOMAIN t = 1 .. length /\ \A n \in 1 .. length : t[n] = b[db + n]
  BY <1>1, SliceOf
<1>3. s \in [1 .. length -> S] /\ t \in [1 .. length -> S]
  BY <1>2
<1>4. s = t <=> \A n \in 1 .. length : s[n] = t[n]
  BY <1>3
<1> QED
  BY <1>1, <1>2, <1>4 DEF Agree

\* What a link's cells are.
LEMMA LiveSlice ==
  ASSUME NEW cells \in Seq({"live", "dead", "indeterminate"}), NEW from \in Nat, NEW length \in Nat \ {0},
         from + length <= Len(cells)
  PROVE  LET states == Slice(cells, from, length)
         IN  /\ (\E n \in 1 .. length : cells[from + n] = "live") <=> ~\A n \in DOMAIN states : states[n] # "live"
             /\ (\A n \in DOMAIN states : states[n] = "dead") => \A n \in DOMAIN states : states[n] # "live"
<1>1. PICK s : s = Slice(cells, from, length)
  OBVIOUS
<1>2. DOMAIN s = 1 .. length /\ \A n \in 1 .. length : s[n] = cells[from + n]
  BY <1>1, SliceOf
<1>3. (\E n \in 1 .. length : cells[from + n] = "live") <=> ~\A n \in DOMAIN s : s[n] # "live"
  BY <1>2
<1>4. (\A n \in DOMAIN s : s[n] = "dead") => \A n \in DOMAIN s : s[n] # "live"
  OBVIOUS
<1> QED
  BY <1>1, <1>3, <1>4

\* A link alone has no fault exactly when it is good, if its claim may have links
\* and the claims are those under the keys.
LEMMA FaultlessIsGood ==
  ASSUME TypeInv, NEW c \in AnyClaim, c.replay, NEW ln \in AnyLink,
         NEW claims, claims = {ClaimOf(x) : x \in {y \in Keys : HasReceipt(y)}}
  PROVE  Fault(c, ln, {}) = "none" <=> GoodLink(c, ln, claims)
<1>1. \A x \in Keys : HasReceipt(x) => ClaimOf(x) \in AnyClaim /\ ClaimOf(x).digest = x
  BY KeysAreDigests DEF ClaimOf
<1>2. /\ ln.child \in Nat /\ ln.src \in Nat /\ ln.dst \in Nat /\ ln.length \in Nat \ {0}
      /\ ln.wellFormed \in BOOLEAN /\ ln.output \in AnyList
  BY LinkFields
<1>3. c.inputs \in AnyList /\ c.replay \in BOOLEAN
  BY ClaimFields
<1>4. CASE ln.child \notin Keys
  <2>1. Fault(c, ln, {}) # "none"
    BY <1>4 DEF Fault
  <2>2. ~GoodLink(c, ln, claims)
    BY <1>1, <1>4 DEF GoodLink
  <2> QED
    BY <2>1, <2>2
<1>5. CASE ln.child \in Keys
  <2>1. HasReceipt(ln.child)
    BY <1>2, <1>5 DEF TypeInv, HasReceipt
  <2>2. PICK child : child = ClaimOf(ln.child)
    OBVIOUS
  <2>3. child \in AnyClaim /\ child \in claims /\ child.digest = ln.child
    BY <1>1, <1>5, <2>1, <2>2
  <2>4. \A e \in claims : e.digest = ln.child => e = child
    BY <1>1, <2>2
  <2>5. /\ child.output \in AnyList /\ child.cells \in Seq({"live", "dead", "indeterminate"})
        /\ child.replay \in BOOLEAN
    BY <2>3, ClaimFields
  <2> DEFINE Right == /\ ln.wellFormed /\ child.replay
                      /\ child.output # NoList /\ child.output = ln.output
                      /\ c.inputs # NoList
                      /\ ln.src + ln.length <= Len(child.output)
                      /\ ln.dst + ln.length <= Len(c.inputs)
                      /\ ln.src + ln.length <= Len(child.cells)
                      /\ \A n \in 1 .. ln.length : c.inputs[ln.dst + n] = child.output[ln.src + n]
                      /\ \E n \in 1 .. ln.length : child.cells[ln.src + n] = "live"
  <2>6. GoodLink(c, ln, claims) <=> Right
    BY <2>3, <2>4 DEF GoodLink
  <2> DEFINE sound == /\ ln.wellFormed /\ child.replay
                      /\ child.output # NoList /\ child.output = ln.output
                      /\ c.inputs # NoList
                      /\ ~(ln.src + ln.length > Len(child.output))
                      /\ ~(ln.dst + ln.length > Len(c.inputs))
                      /\ ~(Len(child.cells) < ln.src + ln.length)
                      /\ Slice(c.inputs, ln.dst, ln.length) = Slice(child.output, ln.src, ln.length)
             states == Slice(child.cells, ln.src, ln.length)
  <2>7. Fault(c, ln, {}) = "none" <=>
          sound /\ ~(\A n \in DOMAIN states : states[n] = "dead") /\ ~(\A n \in DOMAIN states : states[n] # "live")
    BY <1>5, <2>2, Zenon DEF Fault
  <2>8. CASE /\ child.output # NoList /\ c.inputs # NoList
             /\ ln.src + ln.length <= Len(child.output)
             /\ ln.dst + ln.length <= Len(c.inputs)
             /\ ln.src + ln.length <= Len(child.cells)
    <3>1. child.output \in Seq(Int) /\ c.inputs \in Seq(Int)
      BY <1>3, <2>5, <2>8 DEF AnyList
    <3>2. Len(child.output) \in Nat /\ Len(c.inputs) \in Nat /\ Len(child.cells) \in Nat
      BY <2>5, <3>1
    <3>3. Slice(c.inputs, ln.dst, ln.length) = Slice(child.output, ln.src, ln.length)
            <=> \A n \in 1 .. ln.length : c.inputs[ln.dst + n] = child.output[ln.src + n]
      <4>1. PICK S : S = Int
        OBVIOUS
      <4>2. PICK a \in Seq(S) : a = c.inputs
        BY <3>1, <4>1
      <4>3. PICK b \in Seq(S) : b = child.output
        BY <3>1, <4>1
      <4>4. PICK da \in Nat : da = ln.dst
        BY <1>2
      <4>5. PICK db \in Nat : db = ln.src
        BY <1>2
      <4>6. PICK length \in Nat \ {0} : length = ln.length
        BY <1>2
      <4>7. da + length <= Len(a) /\ db + length <= Len(b)
        BY <2>8, <4>2, <4>3, <4>4, <4>5, <4>6, Zenon
      <4>8. Slice(a, da, length) = Slice(b, db, length) <=> Agree(a, da, b, db, length)
        BY <4>7, SameSlice, Zenon
      <4> QED
        BY <4>2, <4>3, <4>4, <4>5, <4>6, <4>8 DEF Agree
    <3>4. /\ (\E n \in 1 .. ln.length : child.cells[ln.src + n] = "live") <=> ~\A n \in DOMAIN states : states[n] # "live"
          /\ (\A n \in DOMAIN states : states[n] = "dead") => \A n \in DOMAIN states : states[n] # "live"
      BY <1>2, <2>5, <2>8, LiveSlice
    <3>5. /\ ~(ln.src + ln.length > Len(child.output)) /\ ~(ln.dst + ln.length > Len(c.inputs))
          /\ ~(Len(child.cells) < ln.src + ln.length)
      BY <1>2, <2>8, <3>2
    <3> HIDE DEF states
    <3> QED
      BY <2>6, <2>7, <2>8, <3>3, <3>4, <3>5
  <2>9. CASE ~(/\ child.output # NoList /\ c.inputs # NoList
                /\ ln.src + ln.length <= Len(child.output)
                /\ ln.dst + ln.length <= Len(c.inputs)
                /\ ln.src + ln.length <= Len(child.cells))
    <3>1. ~Right
      BY <2>9
    <3>2. ASSUME sound
          PROVE  FALSE
      <4>1. child.output \in Seq(Int) /\ c.inputs \in Seq(Int)
        BY <1>3, <2>5, <3>2 DEF AnyList
      <4>2. Len(child.output) \in Nat /\ Len(c.inputs) \in Nat /\ Len(child.cells) \in Nat
        BY <2>5, <4>1
      <4> QED
        BY <1>2, <2>9, <3>2, <4>2
    <3> HIDE DEF sound, states
    <3> QED
      BY <2>6, <2>7, <3>1, <3>2
  <2> QED
    BY <2>8, <2>9
<1> QED
  BY <1>4, <1>5

\* So the links of a node are said right exactly when those of its claim are.
LEMMA LinksAreOfTheSet ==
  ASSUME TypeInv, NEW x \in Keys, HasReceipt(x),
         NEW claims, claims = {ClaimOf(y) : y \in {z \in Keys : HasReceipt(z)}}
  PROVE  Deserved(x) \in {"none", "true"} <=>
           /\ \A n \in DOMAIN ClaimOf(x).links : GoodLink(ClaimOf(x), ClaimOf(x).links[n], claims)
           /\ Disjoint(ClaimOf(x))
<1>1. PICK c \in AnyClaim : c = ClaimOf(x) /\ c.links = Links(x)
  BY KeysAreDigests DEF ClaimOf, Links
<1>2. c.links \in Seq(AnyLink) /\ c.replay \in BOOLEAN
  BY ClaimFields
<1>3. PICK k \in Nat : k = Len(c.links) /\ DOMAIN c.links = 1 .. k /\ \A n \in 1 .. k : c.links[n] \in AnyLink
  BY <1>2
<1>4. CASE Links(x) = <<>>
  <2>1. DOMAIN c.links = {}
    BY <1>1, <1>4
  <2>2. Deserved(x) = "none"
    BY <1>4 DEF Deserved
  <2> QED
    BY <1>1, <2>1, <2>2 DEF Disjoint
<1>5. CASE Links(x) # <<>> /\ ~c.replay
  <2>1. 1 \in DOMAIN c.links
    BY <1>1, <1>2, <1>3, <1>5
  <2>2. ~GoodLink(c, c.links[1], claims)
    BY <1>5 DEF GoodLink
  <2>3. Deserved(x) = "false"
    BY <1>1, <1>5 DEF Deserved
  <2> QED
    BY <1>1, <2>1, <2>2, <2>3
<1>6. CASE Links(x) # <<>> /\ c.replay
  <2>1. Deserved(x) = Grade(FaultsUpTo(c, k))
    <3>1. Deserved(x) = Grade(FaultsUpTo(ClaimOf(x), Len(Links(x))))
      BY <1>1, <1>6, DeservedIsGrade
    <3> QED
      BY <1>1, <1>3, <3>1
  <2>2. Deserved(x) \in {"none", "true"} <=> \A f \in FaultsUpTo(c, k) : f = "none"
    <3>1. FaultsUpTo(c, k) \ {"none"} = {} <=> \A f \in FaultsUpTo(c, k) : f = "none"
      OBVIOUS
    <3> QED
      BY <2>1, <3>1 DEF Grade
  <2>3. (\A f \in FaultsUpTo(c, k) : f = "none")
          <=> (\A n \in 1 .. k : Alone(c, n) = "none") /\ ~\E m, n \in 1 .. k : Clash(c, m, n)
    BY DEF FaultsUpTo
  <2>4. \A n \in 1 .. k : Alone(c, n) = "none" <=> GoodLink(c, c.links[n], claims)
    BY <1>3, <1>6, FaultlessIsGood DEF Alone
  <2>5. ASSUME \A n \in 1 .. k : Alone(c, n) = "none"
        PROVE  Disjoint(c) <=> ~\E m, n \in 1 .. k : Clash(c, m, n)
    <3>1. \A n \in 1 .. k : Binding(c, n)
      BY <2>5 DEF Binding, BeforeBinding
    <3> QED
      BY <1>3, <3>1 DEF Disjoint, Clash, CellsOf
  <2> QED
    BY <1>1, <1>3, <2>2, <2>3, <2>4, <2>5
<1> QED
  BY <1>4, <1>5, <1>6

\* A node that names an absent child does not have its links said right.
LEMMA MissingIsSeen ==
  ASSUME TypeInv, NEW x \in Keys, LacksChild(x)
  PROVE  Deserved(x) \notin {"none", "true"}
<1>1. PICK n \in DOMAIN Links(x) : Alone(ClaimOf(x), n) = "missing"
  BY DEF LacksChild
<1>2. Links(x) # <<>> /\ ClaimOf(x).replay /\ Links(x) = ClaimOf(x).links
  BY DEF LacksChild, Links
<1>3. "missing" \in LinkFaults(ClaimOf(x)) \ {"none"}
  BY <1>1, <1>2 DEF LinkFaults, Alone
<1> QED
  BY <1>2, <1>3 DEF Deserved

\* The parts together.
LEMMA VerdictIsTheSets ==
  ASSUME IInv
  PROVE  VerdictIsOfTheSet
<1> SUFFICES ASSUME stage = "done"
             PROVE  GraphVerified <=> GoodSet(Elements(docs))
  BY DEF VerdictIsOfTheSet
<1>1. TypeInv /\ WalkInv /\ IndexInv /\ LadderInv /\ LinksInv
  BY DEF IInv
<1>2. PICK ds, claims : ds = Elements(docs) /\ claims = ClaimsOf(ds)
  OBVIOUS
<1>3. ~collision <=> \A c, e \in claims : c.digest = e.digest => c = e
  BY <1>1, <1>2, CollisionIsOfTheSet
<1>4. CASE collision
  <2>1. ~GoodSet(ds)
    BY <1>2, <1>3, <1>4 DEF GoodSet
  <2> QED
    BY <1>2, <1>4, <2>1 DEF GraphVerified
<1>5. CASE ~collision
  <2>1. claims = {ClaimOf(x) : x \in {y \in Keys : HasReceipt(y)}}
    BY <1>1, <1>2, <1>5, ClaimsAreKeyed
  <2>2. cycle <=> Cyclic(claims)
    BY <1>1, <2>1, CycleIsReported DEF CycleReported
  <2>3. CASE cycle
    <3>1. ~GoodSet(ds)
      BY <1>2, <2>2, <2>3 DEF GoodSet
    <3> QED
      BY <1>2, <2>3, <3>1 DEF GraphVerified
  <2>4. CASE ~cycle
    <3>1. \A x \in Keys : node[x].linksOk = Deserved(x)
      BY <1>1, <1>5, <2>4 DEF LinksInv
    <3>2. \A x \in Keys : ~HasReceipt(x) => Deserved(x) = "none"
      BY DEF Deserved, Links
    <3>3. (\A x \in Keys : Deserved(x) \in {"none", "true"}) <=>
            \A c \in claims : /\ \A n \in DOMAIN c.links : GoodLink(c, c.links[n], claims)
                              /\ Disjoint(c)
      <4>1. \A x \in Keys : HasReceipt(x) =>
              (Deserved(x) \in {"none", "true"} <=>
                 /\ \A n \in DOMAIN ClaimOf(x).links : GoodLink(ClaimOf(x), ClaimOf(x).links[n], claims)
                 /\ Disjoint(ClaimOf(x)))
        BY <1>1, <2>1, LinksAreOfTheSet
      <4> QED
        BY <2>1, <3>2, <4>1
    <3>4. (\A x \in Keys : Deserved(x) \in {"none", "true"}) => missing = {}
      BY <1>1, MissingIsSeen DEF LinksInv
    <3>5. (\A x \in Keys : node[x].verified) <=> \A d \in ds : IsReceipt(d) /\ d.verified
      BY <1>1, <1>2, <1>5, LaddersAreOfTheSet
    <3>6. Keys # {} <=> ds # {}
      BY <1>1, <1>2, KeysAreOfTheSet
    <3>7. GraphVerified <=> /\ Keys # {} /\ (\A x \in Keys : node[x].verified)
                            /\ \A x \in Keys : Deserved(x) \in {"none", "true"}
      BY <1>5, <2>4, <3>1, <3>4 DEF GraphVerified, Complete
    <3>8. GoodSet(ds) <=> /\ ds # {} /\ (\A d \in ds : IsReceipt(d) /\ d.verified)
                          /\ \A c \in claims : /\ \A n \in DOMAIN c.links : GoodLink(c, c.links[n], claims)
                                               /\ Disjoint(c)
      BY <1>2, <1>3, <1>5, <2>2, <2>4 DEF GoodSet
    <3> QED
      BY <1>2, <3>3, <3>5, <3>6, <3>7, <3>8
  <2> QED
    BY <2>3, <2>4
<1> QED
  BY <1>4, <1>5

\* The verdict on any supply is a fact about the set of documents supplied: it
\* is green exactly when every document verifies alone, every link of every
\* claim binds, and nothing is missing, cyclic or colliding, whatever the order
\* and the copies (graph.py:16, 124, 366).
THEOREM TheVerdictIsOfTheSet == Spec => []VerdictIsOfTheSet
<1>1. IInv => VerdictIsOfTheSet
  BY VerdictIsTheSets
<1> QED
  BY <1>1, GraphIsKept, PTL

-----------------------------------------------------------------------------
(* The author.  What is minted is what was run, under the digest of the first *)
(* receipt of the same claim; links name receipts minted before.              *)

\* The claim of a run.
RunClaim(prog, inputs, links, digest) ==
  [id |-> prog.id, digest |-> digest, replay |-> TRUE, inputs |-> inputs,
   output |-> prog.output[inputs], cells |-> prog.cells, links |-> links]

Minted(e) ==
  /\ e.prog \in Progs /\ e.claim \in AnyClaim
  /\ e.claim.inputs \in DOMAIN e.prog.output /\ e.prog.output[e.claim.inputs] # NoList
  /\ e.claim = RunClaim(e.prog, e.claim.inputs, e.claim.links, e.claim.digest)

\* A link into what was minted with digests up to top.
IntoWallet(ln, top) ==
  /\ ln.wellFormed /\ ln.child \in 1 .. top /\ ln.src \in Nat /\ ln.length \in Nat \ {0}
  /\ wallet[ln.child].claim.digest = ln.child
  /\ wallet[ln.child].claim.output = ln.output
  /\ ln.src + ln.length <= Len(ln.output)

\* Inputs that hold what each link carries, where it says.
HoldsLink(inputs, ln) ==
  /\ ln.dst \in Nat /\ ln.dst + ln.length <= Len(inputs)
  /\ Agree(inputs, ln.dst, ln.output, ln.src, ln.length)

HoldsLinks(inputs, links) ==
  /\ \A n \in DOMAIN links : HoldsLink(inputs, links[n])
  /\ \A m, n \in DOMAIN links :
       m # n => Cells(links[m].dst, links[m].length) \cap Cells(links[n].dst, links[n].length) = {}

Entry == [prog : Progs, careful : BOOLEAN, claim : AnyClaim]

\* A claim in its n-th place.
InItsPlace(c, n) ==
  /\ c.digest \in 1 .. n /\ wallet[c.digest].claim = c
  /\ \A k \in DOMAIN c.links : IntoWallet(c.links[k], c.digest - 1)

WalletInv ==
  /\ wallet \in Seq(Entry)
  /\ \A n \in DOMAIN wallet :
       /\ Minted(wallet[n]) /\ InItsPlace(wallet[n].claim, n)
       /\ wallet[n].careful => HoldsLinks(wallet[n].claim.inputs, wallet[n].claim.links)

IntList == Seq(Int)

Block == [wellFormed : {TRUE}, child : Nat, src : Nat, dst : Int, length : Nat \ {0}, output : IntList]

LinkedInv ==
  /\ linked \in Seq(Block \X IntList)
  /\ \A n \in DOMAIN linked :
       LET ln == linked[n][1]
       IN  IntoWallet(ln, Len(wallet)) /\ linked[n][2] = Slice(ln.output, ln.src, ln.length)

ComposedInv ==
  composed # NoList => /\ composed.inputs \in IntList
                       /\ HoldsLinks(composed.inputs, Blocks(composed.from))

Authored ==
  /\ stage = "author" /\ strict \in BOOLEAN /\ Untouched
  /\ LinkedInv /\ ComposedInv

\* What was handed over is the author's.
Handed ==
  wallet # <<>> =>
    \A n \in DOMAIN docs : IsReceipt(docs[n]) /\ \E m \in DOMAIN wallet : docs[n].claim = wallet[m].claim

\* A missing child is noted as soon as the link that names it is looked at.
LookedAt(n, k) == stage \in {"walk", "done"} \/ (stage = "links" /\ (n < at \/ (n = at /\ k < link)))

MissingNoted ==
  \A n \in DOMAIN keys : \A k \in DOMAIN Links(keys[n]) :
    LookedAt(n, k) /\ ClaimOf(keys[n]).replay /\ Alone(ClaimOf(keys[n]), k) = "missing" =>
      Links(keys[n])[k].child \in missing

Judging == IInv /\ MissingNoted /\ Handed

ChainInv == WalletInv /\ (Authored \/ Judging)

-----------------------------------------------------------------------------
(* Minting. *)

\* An author's lists.
LEMMA WalletIsASequence ==
  ASSUME WalletInv
  PROVE  /\ Len(wallet) \in Nat /\ DOMAIN wallet = 1 .. Len(wallet)
         /\ \A n \in DOMAIN wallet : /\ n \in Nat \ {0}
                                     /\ wallet[n].claim \in AnyClaim /\ wallet[n].claim.links \in Seq(AnyLink)
<1>1. PICK S : S = Entry /\ wallet \in Seq(S)
  BY DEF WalletInv
<1>2. Len(wallet) \in Nat /\ DOMAIN wallet = 1 .. Len(wallet) /\ \A n \in 1 .. Len(wallet) : wallet[n] \in S
  BY <1>1, Positions
<1>3. \A n \in DOMAIN wallet : n \in Nat \ {0} /\ wallet[n].claim \in AnyClaim
  BY <1>1, <1>2 DEF Entry
<1> QED
  BY <1>2, <1>3, ClaimFields

\* What a receipt attests was run.
LEMMA MintedRuns ==
  ASSUME NEW e, Minted(e)
  PROVE  /\ e.claim.replay = TRUE /\ e.claim.cells = e.prog.cells
         /\ e.claim.output = e.prog.output[e.claim.inputs]
         /\ e.claim.inputs \in Seq(Int)
         /\ e.claim.output # NoList /\ e.claim.output \in Seq(Int)
         /\ Len(e.claim.cells) = Len(e.claim.output)
<1>1. PICK inputs, links, digest : e.claim = RunClaim(e.prog, inputs, links, digest) /\ inputs = e.claim.inputs
  BY DEF Minted
<1>2. e.claim.replay = TRUE /\ e.claim.cells = e.prog.cells /\ e.claim.output = e.prog.output[inputs]
  BY <1>1 DEF RunClaim
<1>3. e.prog \in Progs /\ inputs \in DOMAIN e.prog.output /\ e.prog.output[inputs] # NoList
  BY <1>1 DEF Minted
<1>4. /\ inputs \in Seq(Int) /\ e.prog.output[inputs] \in Seq(Int)
      /\ Len(e.prog.output[inputs]) = Len(e.prog.cells)
  BY <1>3, MintAssumption, Zenon
<1> QED
  BY <1>1, <1>2, <1>3, <1>4, Zenon

\* The digest of a claim minted before, or a new one.
LEMMA DigestIsOfTheClaim ==
  ASSUME NEW prog, NEW inputs, NEW links
  PROVE  \/ DigestOf(prog, inputs, links) = Len(wallet) + 1
         \/ \E m \in DOMAIN wallet :
              /\ wallet[m].prog = prog /\ wallet[m].claim.inputs = inputs /\ wallet[m].claim.links = links
              /\ DigestOf(prog, inputs, links) = wallet[m].claim.digest
<1> DEFINE same == {n \in DOMAIN wallet : /\ wallet[n].prog = prog
                                          /\ wallet[n].claim.inputs = inputs
                                          /\ wallet[n].claim.links = links}
<1>1. CASE same = {}
  BY <1>1 DEF DigestOf
<1>2. CASE same # {}
  <2>1. PICK m : m = (CHOOSE n \in same : TRUE) /\ m \in same
    BY <1>2
  <2>2. DigestOf(prog, inputs, links) = wallet[m].claim.digest
    BY <1>2, <2>1 DEF DigestOf
  <2> QED
    BY <2>1, <2>2
<1> QED
  BY <1>1, <1>2

\* A link stays one into the wallet when more is minted.
LEMMA StillIntoWallet ==
  ASSUME WalletInv, NEW e, wallet' = Append(wallet, e), NEW ln, NEW top, IntoWallet(ln, top),
         top \in Nat, top <= Len(wallet)
  PROVE  IntoWallet(ln, top)'
<1>1. \A n \in 1 .. Len(wallet) : wallet'[n] = wallet[n]
  BY DEF WalletInv
<1>2. ln.child \in 1 .. Len(wallet)
  BY WalletIsASequence DEF IntoWallet
<1> QED
  BY <1>1, <1>2 DEF IntoWallet

\* The fields of a link block.
LEMMA BlockFields ==
  ASSUME NEW ln \in Block
  PROVE  /\ ln.wellFormed = TRUE /\ ln.child \in Nat /\ ln.src \in Nat /\ ln.dst \in Int
         /\ ln.length \in Nat \ {0} /\ ln.output \in AnyList
         /\ ln = [wellFormed |-> ln.wellFormed, child |-> ln.child, src |-> ln.src, dst |-> ln.dst,
                  length |-> ln.length, output |-> ln.output]
<1>1. ln.output \in AnyList
  BY DEF Block, IntList, AnyList
<1>2. /\ ln.wellFormed = TRUE /\ ln.child \in Nat /\ ln.src \in Nat /\ ln.dst \in Int
      /\ ln.length \in Nat \ {0}
  BY DEF Block
<1>3. ln = [wellFormed |-> ln.wellFormed, child |-> ln.child, src |-> ln.src, dst |-> ln.dst,
            length |-> ln.length, output |-> ln.output]
  BY DEF Block
<1> QED
  BY <1>1, <1>2, <1>3

\* A block whose destination is an index is a link.
LEMMA BlockIsALink ==
  ASSUME NEW ln \in Block, ln.dst >= 0
  PROVE  ln \in AnyLink
<1>1. /\ ln.wellFormed = TRUE /\ ln.child \in Nat /\ ln.src \in Nat /\ ln.dst \in Int
      /\ ln.length \in Nat \ {0} /\ ln.output \in AnyList
      /\ ln = [wellFormed |-> ln.wellFormed, child |-> ln.child, src |-> ln.src, dst |-> ln.dst,
               length |-> ln.length, output |-> ln.output]
  BY BlockFields, Zenon
<1>2. PICK dst \in Nat : dst = ln.dst
  <2>1. ln.dst \in Int
    BY <1>1, Zenon
  <2> QED
    BY <2>1
<1>3. ASSUME NEW child \in Nat, NEW src \in Nat, NEW length \in Nat \ {0}, NEW output \in AnyList
      PROVE  [wellFormed |-> TRUE, child |-> child, src |-> src, dst |-> dst,
              length |-> length, output |-> output] \in AnyLink
  BY DEF AnyLink
<1> QED
  BY <1>1, <1>2, <1>3, Zenon

\* The links made for a receipt, once their shapes were checked.
LEMMA LinksOfLinked ==
  ASSUME LinkedInv
  PROVE  /\ Len(linked) \in Nat /\ DOMAIN linked = 1 .. Len(linked)
         /\ DOMAIN Blocks(linked) = DOMAIN linked
         /\ \A n \in DOMAIN linked : Blocks(linked)[n] = linked[n][1] /\ linked[n][1] \in Block
         /\ (\A n \in DOMAIN linked : linked[n][1].dst >= 0) => Blocks(linked) \in Seq(AnyLink)
<1>1. PICK S : S = Block \X IntList /\ linked \in Seq(S)
  BY DEF LinkedInv
<1>2. Len(linked) \in Nat /\ DOMAIN linked = 1 .. Len(linked) /\ \A n \in 1 .. Len(linked) : linked[n] \in S
  BY <1>1, Positions
<1>3. PICK k \in Nat : k = Len(linked) /\ DOMAIN linked = 1 .. k
  BY <1>2
<1>4. \A n \in 1 .. k : linked[n][1] \in Block
  BY <1>1, <1>2, <1>3
<1>5. Blocks(linked) = [n \in 1 .. k |-> linked[n][1]]
  BY <1>3 DEF Blocks
<1>6. ASSUME \A n \in 1 .. k : linked[n][1].dst >= 0
      PROVE  \A n \in 1 .. k : linked[n][1] \in AnyLink
  BY <1>4, <1>6, BlockIsALink
<1>7. (\A n \in 1 .. k : linked[n][1].dst >= 0) => Blocks(linked) \in Seq(AnyLink)
  BY <1>5, <1>6
<1> QED
  BY <1>3, <1>4, <1>5, <1>7

\* A receipt that may be minted: it is new, or its claim was minted before.
LEMMA NewReceipt ==
  ASSUME WalletInv, Authored, NEW prog \in Progs, NEW inputs \in DOMAIN prog.output,
         prog.output[inputs] # NoList, \A n \in DOMAIN linked : linked[n][1].dst >= 0,
         NEW c, c = RunClaim(prog, inputs, Blocks(linked), DigestOf(prog, inputs, Blocks(linked)))
  PROVE  /\ c \in AnyClaim /\ c.inputs = inputs /\ c.links = Blocks(linked)
         /\ c.digest \in 1 .. Len(wallet) + 1
         /\ c.digest # Len(wallet) + 1 => wallet[c.digest].claim = c
         /\ \A k \in DOMAIN c.links : IntoWallet(c.links[k], c.digest - 1)
<1>1. PICK links, digest : links = Blocks(linked) /\ digest = DigestOf(prog, inputs, Blocks(linked))
  OBVIOUS
<1>2. c = RunClaim(prog, inputs, links, digest)
  BY <1>1
<1>3. /\ c.inputs = inputs /\ c.links = links /\ c.digest = digest
  BY <1>2 DEF RunClaim
<1>4. Len(wallet) \in Nat /\ DOMAIN wallet = 1 .. Len(wallet)
  BY WalletIsASequence
<1>5. LinkedInv
  BY DEF Authored
<1>6. links \in Seq(AnyLink) /\ DOMAIN links = DOMAIN linked /\ \A n \in DOMAIN linked : links[n] = linked[n][1]
  BY <1>1, <1>5, LinksOfLinked
<1> DEFINE Fits == /\ digest \in 1 .. Len(wallet) + 1
                   /\ digest # Len(wallet) + 1 => wallet[digest].claim = c
                   /\ \A k \in DOMAIN links : IntoWallet(links[k], digest - 1)
<1>7. ASSUME digest = Len(wallet) + 1
      PROVE  Fits
  <2>1. digest - 1 = Len(wallet) /\ digest \in Nat \ {0}
    BY <1>4, <1>7
  <2>2. \A k \in DOMAIN links : IntoWallet(links[k], digest - 1)
    BY <1>5, <1>6, <2>1 DEF LinkedInv
  <2> QED
    BY <1>3, <1>4, <1>7, <2>1, <2>2
<1>8. ASSUME digest # Len(wallet) + 1
      PROVE  Fits
  <2>1. PICK m \in DOMAIN wallet : /\ wallet[m].prog = prog /\ wallet[m].claim.inputs = inputs
                                   /\ wallet[m].claim.links = links /\ digest = wallet[m].claim.digest
    BY <1>1, <1>8, DigestIsOfTheClaim
  <2>2. wallet[m].claim = RunClaim(prog, inputs, links, digest)
    <3>1. Minted(wallet[m])
      BY DEF WalletInv
    <3> QED
      BY <2>1, <3>1 DEF Minted
  <2>3. wallet[m].claim = c
    BY <1>2, <2>2
  <2>4. /\ c.digest \in 1 .. m /\ wallet[c.digest].claim = c
        /\ \A k \in DOMAIN c.links : IntoWallet(c.links[k], c.digest - 1)
    BY <2>3 DEF WalletInv, InItsPlace
  <2>5. digest \in 1 .. Len(wallet) + 1
    BY <1>3, <1>4, <2>4
  <2> QED
    BY <1>3, <2>4, <2>5
<1>9. Fits /\ digest \in Nat \ {0}
  BY <1>4, <1>7, <1>8
<1>10. c \in AnyClaim
  <2>1. prog.id \in Nat /\ prog.cells \in Seq({"live", "dead", "indeterminate"})
        /\ inputs \in AnyList /\ prog.output[inputs] \in AnyList
    BY MintAssumption DEF AnyList
  <2> QED
    BY <1>2, <1>6, <1>9, <2>1 DEF RunClaim, AnyClaim
<1> QED
  BY <1>1, <1>3, <1>9, <1>10

\* replay_receipt adds what was run; composed inputs hold what the links carry.
LEMMA ReplayReceiptStep ==
  ASSUME WalletInv, Authored, ReplayReceipt
  PROVE  WalletInv' /\ Authored'
<1>1. /\ stage = "author" /\ UNCHANGED <<docs, strict, stage, at, keys, node, missing, link,
                                         taken, color, stack, order, collision, cycle>>
      /\ linked' = <<>> /\ composed' = NoList
  BY DEF ReplayReceipt, Authoring
<1>2. Authored'
  <2>1. LinkedInv' /\ ComposedInv'
    BY <1>1 DEF LinkedInv, ComposedInv
  <2>2. Untouched' /\ stage' = "author" /\ strict' \in BOOLEAN
    BY <1>1 DEF Authored, Untouched
  <2> QED
    BY <2>1, <2>2 DEF Authored
<1>3. PICK prog \in Progs,
           inputs \in RawInputs \cup (IF composed = NoList THEN {} ELSE {composed.inputs}) :
        /\ inputs \in DOMAIN prog.output /\ prog.output[inputs] # NoList
        /\ \A n \in DOMAIN linked : ShapeOK(linked[n][1], Len(inputs))
        /\ wallet' = Append(wallet,
             [prog |-> prog, careful |-> composed # NoList /\ composed = [inputs |-> inputs, from |-> linked],
              claim |-> RunClaim(prog, inputs, Blocks(linked), DigestOf(prog, inputs, Blocks(linked)))])
  BY DEF ReplayReceipt, RunClaim
<1>4. PICK c, careful : /\ c = RunClaim(prog, inputs, Blocks(linked), DigestOf(prog, inputs, Blocks(linked)))
                        /\ careful = (composed # NoList /\ composed = [inputs |-> inputs, from |-> linked])
  OBVIOUS
<1>5. /\ c \in AnyClaim /\ c.inputs = inputs /\ c.links = Blocks(linked)
      /\ c.digest \in 1 .. Len(wallet) + 1
      /\ c.digest # Len(wallet) + 1 => wallet[c.digest].claim = c
      /\ \A k \in DOMAIN c.links : IntoWallet(c.links[k], c.digest - 1)
  <2>1. \A n \in DOMAIN linked : linked[n][1].dst >= 0
    BY <1>3 DEF ShapeOK
  <2>2. inputs \in DOMAIN prog.output /\ prog.output[inputs] # NoList
    BY <1>3
  <2> QED
    BY <1>4, <2>1, <2>2, NewReceipt
<1>6. PICK e : e = [prog |-> prog, careful |-> careful, claim |-> c] /\ wallet' = Append(wallet, e)
  BY <1>3, <1>4
<1>7. /\ careful \in BOOLEAN
      /\ careful => HoldsLinks(c.inputs, c.links)
  <2>1. careful \in BOOLEAN
    BY <1>4
  <2>2. ASSUME composed # NoList, composed = [inputs |-> inputs, from |-> linked]
        PROVE  HoldsLinks(c.inputs, c.links)
    <3>1. composed.inputs = inputs /\ composed.from = linked
      BY <2>2
    <3>2. HoldsLinks(composed.inputs, Blocks(composed.from))
      BY <2>2 DEF Authored, ComposedInv
    <3> QED
      BY <1>5, <3>1, <3>2
  <2> QED
    BY <1>4, <2>1, <2>2
<1>8. PICK k \in Nat : k = Len(wallet) /\ DOMAIN wallet = 1 .. k
  BY WalletIsASequence
<1>9. /\ wallet' \in Seq(Entry)
      /\ DOMAIN wallet' = 1 .. k + 1 /\ wallet'[k + 1] = e
      /\ \A n \in 1 .. k : wallet'[n] = wallet[n]
  <2>1. PICK S : S = Entry
    OBVIOUS
  <2>2. e \in S /\ wallet \in Seq(S)
    <3>1. ASSUME NEW p \in Progs, NEW b \in BOOLEAN, NEW d \in AnyClaim
          PROVE  [prog |-> p, careful |-> b, claim |-> d] \in Entry
      BY DEF Entry
    <3>2. e \in Entry
      <4>1. c \in AnyClaim
        BY <1>5, Zenon
      <4>2. careful \in BOOLEAN
        BY <1>7, Zenon
      <4>3. [prog |-> prog, careful |-> careful, claim |-> c] \in Entry
        BY <3>1, <4>1, <4>2, Zenon
      <4> QED
        BY <1>6, <4>3, Zenon
    <3> QED
      BY <2>1, <3>2 DEF WalletInv
  <2>3. /\ wallet' \in Seq(S) /\ Len(wallet') = k + 1 /\ wallet'[k + 1] = e
        /\ \A n \in 1 .. k : wallet'[n] = wallet[n]
    BY <1>6, <1>8, <2>2, Appended
  <2>4. DOMAIN wallet' = 1 .. k + 1
    BY <2>3, Positions
  <2> QED
    BY <2>1, <2>3, <2>4
<1>10. e.prog = prog /\ e.claim = c /\ e.careful = careful
  BY <1>6
<1>11. Minted(e)
  <2>1. c = RunClaim(prog, inputs, c.links, c.digest)
    BY <1>4, <1>5 DEF RunClaim
  <2> QED
    BY <1>3, <1>5, <1>10, <2>1 DEF Minted
<1>12. InItsPlace(c, k + 1)'
  <2>1. c.digest \in Nat \ {0} /\ c.digest - 1 \in Nat /\ c.digest - 1 <= k /\ c.digest \in 1 .. k + 1
    BY <1>5, <1>8
  <2>2. \A j \in DOMAIN c.links : IntoWallet(c.links[j], c.digest - 1)'
    <3>1. PICK top \in Nat : top = c.digest - 1 /\ top <= Len(wallet)
      BY <1>8, <2>1
    <3>2. \A j \in DOMAIN c.links : IntoWallet(c.links[j], top)
      BY <1>5, <3>1
    <3>3. \A j \in DOMAIN c.links : IntoWallet(c.links[j], top)'
      BY <1>6, <3>1, <3>2, StillIntoWallet
    <3> QED
      BY <3>1, <3>3
  <2>3. wallet'[c.digest].claim = c
    <3>1. CASE c.digest = k + 1
      BY <1>9, <1>10, <3>1
    <3>2. CASE c.digest # k + 1
      BY <1>5, <1>8, <1>9, <2>1, <3>2
    <3> QED
      BY <3>1, <3>2
  <2> QED
    BY <2>1, <2>2, <2>3 DEF InItsPlace
<1>13. ASSUME NEW n \in 1 .. k
       PROVE  InItsPlace(wallet[n].claim, n)'
  <2>1. PICK d : d = wallet[n].claim /\ d = wallet'[n].claim
    BY <1>9
  <2>2. /\ d.digest \in 1 .. n /\ wallet[d.digest].claim = d
        /\ \A j \in DOMAIN d.links : IntoWallet(d.links[j], d.digest - 1)
    BY <1>8, <2>1 DEF WalletInv, InItsPlace
  <2>3. d.digest \in 1 .. k /\ d.digest - 1 \in Nat /\ d.digest - 1 <= k
    BY <1>8, <2>2
  <2>4. \A j \in DOMAIN d.links : IntoWallet(d.links[j], d.digest - 1)'
    <3>1. PICK top \in Nat : top = d.digest - 1 /\ top <= Len(wallet)
      BY <1>8, <2>3
    <3>2. \A j \in DOMAIN d.links : IntoWallet(d.links[j], top)
      BY <2>2, <3>1
    <3>3. \A j \in DOMAIN d.links : IntoWallet(d.links[j], top)'
      BY <1>6, <3>1, <3>2, StillIntoWallet
    <3> QED
      BY <3>1, <3>3
  <2>5. wallet'[d.digest].claim = d
    BY <1>9, <2>2, <2>3
  <2>6. InItsPlace(d, n)'
    BY <2>2, <2>4, <2>5 DEF InItsPlace
  <2> QED
    BY <2>1, <2>6
<1>14. ASSUME NEW n \in DOMAIN wallet'
       PROVE  /\ Minted(wallet'[n]) /\ InItsPlace(wallet[n].claim, n)'
              /\ wallet'[n].careful => HoldsLinks(wallet'[n].claim.inputs, wallet'[n].claim.links)
  <2>1. CASE n = k + 1
    <3>1. PICK d : d = wallet'[n] /\ d = e
      BY <1>9, <2>1
    <3>2. InItsPlace(wallet[n].claim, n)'
      <4>1. InItsPlace(wallet[n].claim, n)' = InItsPlace(c, k + 1)'
        BY <1>10, <2>1, <3>1
      <4> QED
        BY <1>12, <4>1
    <3> QED
      BY <1>7, <1>10, <1>11, <3>1, <3>2
  <2>2. CASE n \in 1 .. k
    <3>1. PICK d : d = wallet'[n] /\ d = wallet[n]
      BY <1>9, <2>2
    <3>2. Minted(d) /\ (d.careful => HoldsLinks(d.claim.inputs, d.claim.links))
      BY <1>8, <2>2, <3>1 DEF WalletInv
    <3> QED
      BY <1>13, <2>2, <3>1, <3>2
  <2> QED
    BY <1>8, <1>9, <2>1, <2>2
<1> QED
  BY <1>2, <1>9, <1>14 DEF WalletInv

\* The facts of a wallet that stays.
LEMMA SameWallet ==
  ASSUME WalletInv, wallet' = wallet
  PROVE  WalletInv' /\ \A ln, top : IntoWallet(ln, top) => IntoWallet(ln, top)'
<1>1. \A ln, top : IntoWallet(ln, top)' <=> IntoWallet(ln, top)
  BY DEF IntoWallet
<1>2. \A c, n : InItsPlace(c, n)' <=> InItsPlace(c, n)
  BY <1>1 DEF InItsPlace
<1>3. ASSUME NEW n \in DOMAIN wallet
      PROVE  InItsPlace(wallet[n].claim, n)'
  <2>1. PICK c : c = wallet[n].claim /\ c = wallet'[n].claim
    OBVIOUS
  <2>2. InItsPlace(c, n)
    BY <2>1 DEF WalletInv
  <2>3. InItsPlace(wallet[n].claim, n)' = InItsPlace(c, n)'
    BY <2>1
  <2> QED
    BY <1>2, <2>2, <2>3
<1>4. WalletInv'
  BY <1>3 DEF WalletInv
<1> QED
  BY <1>1, <1>4

\* link makes a link to a receipt of the wallet.
LEMMA LinkToStep ==
  ASSUME WalletInv, Authored, LinkTo
  PROVE  WalletInv' /\ Authored'
<1>1. /\ stage = "author" /\ UNCHANGED <<docs, strict, stage, at, keys, node, missing, link,
                                         taken, color, stack, order, collision, cycle>>
      /\ wallet' = wallet /\ composed' = composed
  BY DEF LinkTo, Authoring
<1>2. PICK n \in DOMAIN wallet, src \in Offsets, length \in Lengths, dst \in Offsets :
        \E child, block :
          /\ child = wallet[n].claim
          /\ block = [wellFormed |-> TRUE, child |-> child.digest, src |-> src, dst |-> dst,
                      length |-> length, output |-> child.output]
          /\ src >= 0 /\ length > 0 /\ src + length <= Len(child.output)
          /\ linked' = Append(linked, <<block, Slice(child.output, src, length)>>)
  BY DEF LinkTo
<1>3. PICK child, block :
        /\ child = wallet[n].claim
        /\ block = [wellFormed |-> TRUE, child |-> child.digest, src |-> src, dst |-> dst,
                    length |-> length, output |-> child.output]
        /\ src >= 0 /\ length > 0 /\ src + length <= Len(child.output)
        /\ linked' = Append(linked, <<block, Slice(child.output, src, length)>>)
  BY <1>2
<1>4. src \in Nat /\ dst \in Int /\ length \in Nat \ {0}
  <2>1. src \in Int /\ dst \in Int /\ length \in Int
    BY MintAssumption
  <2> QED
    BY <1>3, <2>1
<1>5. /\ block.wellFormed = TRUE /\ block.child = child.digest /\ block.src = src /\ block.dst = dst
      /\ block.length = length /\ block.output = child.output
  BY <1>3
<1>6. child.output \in Seq(Int) /\ child.digest \in 1 .. n /\ wallet[child.digest].claim = child
  <2>1. Minted(wallet[n]) /\ InItsPlace(child, n)
    BY <1>3 DEF WalletInv
  <2> QED
    BY <1>3, <2>1, MintedRuns DEF InItsPlace
<1>7. Len(wallet) \in Nat /\ n \in 1 .. Len(wallet)
  BY WalletIsASequence
<1>8. IntoWallet(block, Len(wallet))
  <2>1. child.digest \in 1 .. Len(wallet)
    BY <1>6, <1>7
  <2>2. wallet[block.child].claim = child /\ wallet[block.child].claim.digest = block.child
    BY <1>5, <1>6
  <2>3. block.src + block.length <= Len(block.output)
    BY <1>3, <1>5
  <2> QED
    BY <1>4, <1>5, <2>1, <2>2, <2>3 DEF IntoWallet
<1>9. block \in Block
  <2>1. ASSUME NEW c \in Nat, NEW out \in IntList
        PROVE  [wellFormed |-> TRUE, child |-> c, src |-> src, dst |-> dst,
                length |-> length, output |-> out] \in Block
    BY <1>4 DEF Block
  <2>2. child.digest \in Nat /\ child.output \in IntList
    BY <1>6, <1>7 DEF IntList
  <2> QED
    BY <1>3, <2>1, <2>2, Zenon
<1>10. PICK values \in IntList : values = Slice(child.output, src, length)
  <2>1. PICK S : S = Int
    OBVIOUS
  <2>2. PICK list \in Seq(S) : list = child.output
    BY <1>6, <2>1
  <2>3. src + length <= Len(list)
    BY <1>3, <2>2
  <2>4. Slice(list, src, length) \in Seq(S)
    BY <1>4, <2>3, SliceOf
  <2> QED
    BY <2>1, <2>2, <2>4 DEF IntList
<1>11. PICK e : e = <<block, values>> /\ e \in Block \X IntList
  <2>1. PICK b \in Block : b = block
    BY <1>9
  <2>2. <<b, values>> \in Block \X IntList
    OBVIOUS
  <2> QED
    BY <2>1, <2>2
<1>12. PICK k \in Nat : k = Len(linked) /\ DOMAIN linked = 1 .. k
  BY LinksOfLinked DEF Authored
<1>13. /\ linked' \in Seq(Block \X IntList) /\ DOMAIN linked' = 1 .. k + 1 /\ linked'[k + 1] = e
       /\ \A m \in 1 .. k : linked'[m] = linked[m]
  <2>1. PICK S : S = Block \X IntList
    OBVIOUS
  <2>2. e \in S /\ linked \in Seq(S)
    BY <1>11, <2>1 DEF Authored, LinkedInv
  <2>3. linked' = Append(linked, e)
    BY <1>3, <1>10, <1>11
  <2>4. /\ linked' \in Seq(S) /\ Len(linked') = k + 1 /\ linked'[k + 1] = e
        /\ \A m \in 1 .. k : linked'[m] = linked[m]
    BY <1>12, <2>2, <2>3, Appended
  <2>5. DOMAIN linked' = 1 .. k + 1
    BY <2>4, Positions
  <2> QED
    BY <2>1, <2>4, <2>5
<1>14. WalletInv' /\ \A ln, top : IntoWallet(ln, top) => IntoWallet(ln, top)'
  BY <1>1, SameWallet
<1>15. ASSUME NEW m \in DOMAIN linked'
       PROVE  /\ IntoWallet(linked[m][1], Len(wallet))'
              /\ linked'[m][2] = Slice(linked'[m][1].output, linked'[m][1].src, linked'[m][1].length)
  <2>1. PICK d, w : d = linked'[m] /\ w = Len(wallet) /\ w = Len(wallet')
    BY <1>1
  <2>2. IntoWallet(d[1], w) /\ d[2] = Slice(d[1].output, d[1].src, d[1].length)
    <3>1. CASE m = k + 1
      <4>1. d = e /\ e[1] = block /\ e[2] = values
        BY <1>11, <1>13, <2>1, <3>1
      <4> QED
        BY <1>5, <1>8, <1>10, <2>1, <4>1
    <3>2. CASE m \in 1 .. k
      <4>1. d = linked[m] /\ m \in DOMAIN linked
        BY <1>12, <1>13, <2>1, <3>2
      <4> QED
        BY <2>1, <4>1 DEF Authored, LinkedInv
    <3> QED
      BY <1>13, <3>1, <3>2
  <2>3. IntoWallet(d[1], w)'
    BY <1>14, <2>2
  <2>4. IntoWallet(linked[m][1], Len(wallet))' = IntoWallet(d[1], w)'
    BY <2>1
  <2> QED
    BY <2>1, <2>2, <2>3, <2>4
<1>16. LinkedInv'
  BY <1>13, <1>15 DEF LinkedInv
<1>17. ComposedInv'
  BY <1>1 DEF Authored, ComposedInv
<1>18. Untouched' /\ stage' = "author" /\ strict' \in BOOLEAN
  BY <1>1 DEF Authored, Untouched
<1> QED
  BY <1>14, <1>16, <1>17, <1>18 DEF Authored

\* What a link made carries.
LEMMA LinkCarries ==
  ASSUME LinkedInv, NEW n \in DOMAIN linked
  PROVE  /\ linked[n][1].src \in Nat /\ linked[n][1].length \in Nat \ {0} /\ linked[n][1].dst \in Int
         /\ \A j \in 1 .. linked[n][1].length :
              linked[n][2][j] = linked[n][1].output[linked[n][1].src + j] /\ linked[n][2][j] \in Int
<1>1. PICK ln \in Block : ln = linked[n][1]
  BY LinksOfLinked
<1>2. linked[n][2] = Slice(ln.output, ln.src, ln.length) /\ IntoWallet(ln, Len(wallet))
  BY <1>1 DEF LinkedInv
<1>3. PICK src \in Nat, length \in Nat \ {0} :
        src = ln.src /\ length = ln.length /\ src + length <= Len(ln.output)
  BY <1>2 DEF IntoWallet
<1>4. ln.dst \in Int
  BY BlockFields
<1>5. PICK S : S = Int
  OBVIOUS
<1>6. PICK list \in Seq(S) : list = ln.output
  BY <1>5 DEF Block, IntList
<1>7. /\ Slice(list, src, length) \in Seq(S) /\ DOMAIN Slice(list, src, length) = 1 .. length
      /\ \A j \in 1 .. length : Slice(list, src, length)[j] = list[src + j]
  BY <1>3, <1>6, SliceOf, SMTT(30)
<1>8. \A j \in 1 .. length : Slice(list, src, length)[j] \in S
  BY <1>7
<1> QED
  BY <1>1, <1>2, <1>3, <1>4, <1>5, <1>6, <1>7, <1>8

\* An input covered by a link holds what the link carries there: no other link
\* covers it.
LEMMA CoveredInput ==
  ASSUME LinkedInv, NEW base \in IntList, Placeable(Len(base)),
         NEW k \in DOMAIN base, NEW n \in DOMAIN linked, k - 1 \in Bound(n)
  PROVE  Placed(base)[k] = linked[n][2][k - linked[n][1].dst]
<1> DEFINE over == {m \in DOMAIN linked : k - 1 \in Bound(m)}
<1>1. \A m, p \in over : m = p
  BY DEF Placeable
<1>2. n \in over /\ n <= n
  BY LinksOfLinked
<1>3. over = {n}
  BY <1>1, <1>2
<1>4. (CHOOSE p \in over : \A m \in over : m <= p) = n
  <2>1. \E p \in over : \A m \in over : m <= p
    BY <1>2, <1>3
  <2>2. (CHOOSE p \in over : \A m \in over : m <= p) \in over
    BY <2>1
  <2> QED
    BY <1>3, <2>2
<1>5. Placed(base)[k] = LET last == CHOOSE p \in over : \A m \in over : m <= p
                        IN  IF over = {} THEN base[k] ELSE linked[last][2][k - linked[last][1].dst]
  BY DEF Placed
<1> HIDE DEF over
<1> QED
  BY <1>2, <1>4, <1>5

\* compose_inputs puts what every link carries where the link says.
LEMMA PlacedHolds ==
  ASSUME LinkedInv, NEW base \in IntList, Placeable(Len(base))
  PROVE  Placed(base) \in IntList /\ HoldsLinks(Placed(base), Blocks(linked))
<1>1. PICK k \in Nat : k = Len(base) /\ DOMAIN base = 1 .. k /\ \A i \in 1 .. k : base[i] \in Int
  <2>1. PICK S : S = Int /\ base \in Seq(S)
    BY DEF IntList
  <2> QED
    BY <2>1, Positions
<1>2. \A n \in DOMAIN linked : linked[n][1].dst \in Nat /\ linked[n][1].dst + linked[n][1].length <= k
  BY <1>1, LinkCarries DEF Placeable, InRange
<1>3. DOMAIN Placed(base) = 1 .. k
  BY <1>1 DEF Placed
<1>4. ASSUME NEW i \in 1 .. k, NEW n \in DOMAIN linked, i - 1 \in Bound(n)
      PROVE  /\ i - linked[n][1].dst \in 1 .. linked[n][1].length
             /\ Placed(base)[i] = linked[n][2][i - linked[n][1].dst]
  <2>1. i - linked[n][1].dst \in 1 .. linked[n][1].length
    BY <1>2, <1>4, LinkCarries, SMTT(30) DEF Bound, Cells
  <2> QED
    BY <1>1, <1>4, <2>1, CoveredInput
<1>5. ASSUME NEW i \in 1 .. k
      PROVE  Placed(base)[i] \in Int
  <2>1. CASE \E n \in DOMAIN linked : i - 1 \in Bound(n)
    BY <1>4, <2>1, LinkCarries
  <2>2. CASE ~\E n \in DOMAIN linked : i - 1 \in Bound(n)
    <3>1. {n \in DOMAIN linked : i - 1 \in Bound(n)} = {}
      BY <2>2
    <3>2. Placed(base)[i] = base[i]
      BY <1>1, <3>1 DEF Placed
    <3> QED
      BY <1>1, <3>2
  <2> QED
    BY <2>1, <2>2
<1>6. Placed(base) \in IntList /\ Len(Placed(base)) = k
  <2>1. PICK f : f = Placed(base) /\ DOMAIN f = 1 .. k /\ \A i \in 1 .. k : f[i] \in Int
    BY <1>3, <1>5
  <2>2. f = [i \in 1 .. k |-> f[i]]
    BY <2>1 DEF Placed
  <2>3. f \in [1 .. k -> Int]
    BY <2>1, <2>2
  <2>4. f \in Seq(Int) /\ Len(f) = k
    BY <2>3
  <2> QED
    BY <2>1, <2>4 DEF IntList
<1>7. ASSUME NEW n \in DOMAIN linked
      PROVE  HoldsLink(Placed(base), linked[n][1])
  <2>1. PICK dst \in Nat, src \in Nat, length \in Nat \ {0} :
             dst = linked[n][1].dst /\ src = linked[n][1].src /\ length = linked[n][1].length
    BY <1>2, LinkCarries
  <2>2. dst + length <= k /\ dst + length <= Len(Placed(base)) /\ Bound(n) = dst .. dst + length - 1
    BY <1>2, <1>6, <2>1 DEF Bound, Cells
  <2>3. ASSUME NEW j \in 1 .. length
        PROVE  Placed(base)[dst + j] = linked[n][1].output[src + j]
    <3>1. dst + j \in 1 .. k /\ (dst + j) - 1 \in Bound(n) /\ (dst + j) - dst = j
      BY <2>2
    <3>2. Placed(base)[dst + j] = linked[n][2][j]
      <4>1. PICK i \in 1 .. k : i = dst + j /\ i - 1 \in Bound(n) /\ i - dst = j
        BY <3>1
      <4>2. Placed(base)[i] = linked[n][2][i - linked[n][1].dst]
        BY <1>4, <4>1
      <4>3. i - linked[n][1].dst = j
        BY <2>1, <4>1, Zenon
      <4> QED
        BY <4>1, <4>2, <4>3, Zenon
    <3> QED
      BY <2>1, <3>2, LinkCarries
  <2> QED
    BY <2>1, <2>2, <2>3 DEF HoldsLink, Agree
<1>8. HoldsLinks(Placed(base), Blocks(linked))
  <2>1. DOMAIN Blocks(linked) = DOMAIN linked /\ \A n \in DOMAIN linked : Blocks(linked)[n] = linked[n][1]
    BY LinksOfLinked
  <2>2. \A m, n \in DOMAIN linked : m # n => Bound(m) \cap Bound(n) = {}
    BY DEF Placeable
  <2> QED
    BY <1>7, <2>1, <2>2, ZenonT(30) DEF HoldsLinks, Bound
<1> QED
  BY <1>6, <1>8

\* compose_inputs leaves what was minted and linked alone.
LEMMA ComposeStep ==
  ASSUME WalletInv, Authored, ComposeInputs
  PROVE  WalletInv' /\ Authored'
<1>1. /\ stage = "author" /\ UNCHANGED <<docs, strict, stage, at, keys, node, missing, link,
                                         taken, color, stack, order, collision, cycle>>
      /\ wallet' = wallet /\ linked' = linked
  BY DEF ComposeInputs, Authoring
<1>2. PICK base \in IntList : /\ Placeable(Len(base))
                              /\ composed' = [inputs |-> Placed(base), from |-> linked]
  BY MintAssumption DEF ComposeInputs, IntList
<1>3. LinkedInv
  BY DEF Authored
<1>4. composed'.inputs \in IntList /\ HoldsLinks(composed'.inputs, Blocks(composed'.from))
  <2>1. Placed(base) \in IntList /\ HoldsLinks(Placed(base), Blocks(linked))
    BY <1>2, <1>3, PlacedHolds
  <2>2. composed'.inputs = Placed(base) /\ composed'.from = linked
    BY <1>2
  <2> QED
    BY <2>1, <2>2
<1>5. WalletInv' /\ \A ln, top : IntoWallet(ln, top) => IntoWallet(ln, top)'
  BY <1>1, SameWallet
<1>6. LinkedInv'
  <2>1. \A n \in DOMAIN linked : IntoWallet(linked[n][1], Len(wallet))'
    <3> SUFFICES ASSUME NEW n \in DOMAIN linked PROVE IntoWallet(linked[n][1], Len(wallet))'
      OBVIOUS
    <3>1. PICK ln, top : ln = linked[n][1] /\ ln = linked'[n][1] /\ top = Len(wallet) /\ top = Len(wallet')
      BY <1>1
    <3>2. IntoWallet(ln, top)'
      BY <1>3, <1>5, <3>1 DEF LinkedInv
    <3>3. IntoWallet(linked[n][1], Len(wallet))' = IntoWallet(ln, top)'
      BY <3>1
    <3> QED
      BY <3>2, <3>3
  <2> QED
    BY <1>1, <1>3, <2>1 DEF LinkedInv
<1>7. ComposedInv'
  BY <1>4 DEF ComposedInv
<1>8. Untouched' /\ stage' = "author" /\ strict' \in BOOLEAN
  BY <1>1 DEF Authored, Untouched
<1> QED
  BY <1>5, <1>6, <1>7, <1>8 DEF Authored

\* What is handed over are receipts of the wallet, none of them read yet.
LEMMA HandOverStep ==
  ASSUME WalletInv, Authored, HandOver
  PROVE  WalletInv' /\ Fresh' /\ Handed' /\ MissingNoted'
<1>1. /\ stage' = "index" /\ wallet' = wallet
      /\ UNCHANGED <<strict, at, keys, node, missing, link, taken, color, stack, order, collision, cycle>>
  BY DEF HandOver
<1>2. PICK some \in {Reverse(wallet), Tail(wallet)} : docs' = [n \in DOMAIN some |-> Document(some[n])]
  BY DEF HandOver
<1>3. PICK k \in Nat : k = Len(wallet) /\ DOMAIN wallet = 1 .. k
  BY WalletIsASequence
<1>4. PICK w \in Nat : DOMAIN some = 1 .. w /\ \A n \in 1 .. w : \E m \in DOMAIN wallet : some[n] = wallet[m]
  <2>1. CASE some = Reverse(wallet)
    <3>1. some = [i \in 1 .. k |-> wallet[(k - i) + 1]]
      BY <1>3, <2>1 DEF Reverse
    <3>2. DOMAIN some = 1 .. k /\ \A n \in 1 .. k : (k - n) + 1 \in DOMAIN wallet /\ some[n] = wallet[(k - n) + 1]
      BY <1>3, <3>1
    <3> QED
      BY <3>2
  <2>2. CASE some = Tail(wallet)
    <3>1. PICK S : S = Entry /\ wallet \in Seq(S)
      BY DEF WalletInv
    <3>2. wallet # <<>>
      BY DEF HandOver
    <3>3. k >= 1 /\ k - 1 \in Nat
      BY <1>3, <3>1, <3>2
    <3>4. DOMAIN some = 1 .. k - 1 /\ \A n \in 1 .. k - 1 : n + 1 \in DOMAIN wallet /\ some[n] = wallet[n + 1]
      BY <1>3, <2>2, <3>1, <3>2, <3>3
    <3> QED
      BY <3>3, <3>4
  <2> QED
    BY <2>1, <2>2
<1>5. DOMAIN docs' = 1 .. w /\ \A n \in 1 .. w : docs'[n] = Document(some[n])
  BY <1>2, <1>4
<1>6. ASSUME NEW e, e.claim \in AnyClaim
      PROVE  Document(e) \in AnyDocument /\ IsReceipt(Document(e)) /\ Document(e).claim = e.claim
  <2>1. Verifies(e.prog, strict) \in BOOLEAN
    BY DEF Verifies
  <2>2. PICK v \in BOOLEAN, c \in AnyClaim : v = Verifies(e.prog, strict) /\ c = e.claim
    BY <1>6, <2>1
  <2>3. PICK d : d = Document(e) /\ d = [object |-> TRUE, canonical |-> TRUE, claim |-> c, envelope |-> 1, verified |-> v]
    BY <2>2 DEF Document
  <2>4. d \in AnyDocument
    BY <2>3 DEF AnyDocument
  <2>5. IsReceipt(d) /\ d.claim = c
    BY <2>3 DEF IsReceipt
  <2> QED
    BY <2>2, <2>3, <2>4, <2>5
<1>7. \A n \in 1 .. w : /\ docs'[n] \in AnyDocument /\ IsReceipt(docs'[n]) /\ docs'[n].claim \in AnyClaim
                        /\ \E m \in DOMAIN wallet : docs'[n].claim = wallet[m].claim
  <2> SUFFICES ASSUME NEW n \in 1 .. w
               PROVE  /\ docs'[n] \in AnyDocument /\ IsReceipt(docs'[n]) /\ docs'[n].claim \in AnyClaim
                      /\ \E m \in DOMAIN wallet : docs'[n].claim = wallet[m].claim
    OBVIOUS
  <2>1. PICK m \in DOMAIN wallet : some[n] = wallet[m]
    BY <1>4
  <2>2. PICK e : e = wallet[m] /\ docs'[n] = Document(e)
    BY <1>5, <2>1
  <2>3. e.claim \in AnyClaim
    BY <2>2, WalletIsASequence
  <2> QED
    BY <1>6, <2>2, <2>3
<1>8. docs' \in Seq(AnyDocument)
  <2>1. PICK f : f = docs' /\ DOMAIN f = 1 .. w /\ \A n \in 1 .. w : f[n] \in AnyDocument
    BY <1>5, <1>7
  <2>2. f = [n \in 1 .. w |-> f[n]]
    BY <1>2, <2>1
  <2>3. f \in [1 .. w -> AnyDocument]
    BY <2>1, <2>2
  <2> QED
    BY <2>1, <2>3
<1>9. Fresh'
  <2>1. Untouched' /\ strict' \in BOOLEAN
    BY <1>1 DEF Authored, Untouched
  <2>2. \A n \in DOMAIN docs' : docs'[n].claim \in AnyClaim
    BY <1>5, <1>7
  <2> QED
    BY <1>1, <1>8, <2>1, <2>2 DEF Fresh
<1>10. Handed'
  BY <1>1, <1>5, <1>7 DEF Handed
<1>11. MissingNoted'
  <2>1. DOMAIN keys' = {}
    BY <1>1 DEF Authored, Untouched
  <2> QED
    BY <2>1 DEF MissingNoted
<1> QED
  BY <1>1, <1>9, <1>10, <1>11, SameWallet

-----------------------------------------------------------------------------
(* What is noted as missing. *)

\* The links looked at, as check_links goes on.
LEMMA LookedAtNext ==
  ASSUME TypeInv, IndexInv, LinksInv, [Next]_vars, NEW n \in DOMAIN keys, NEW k \in DOMAIN Links(keys[n]),
         LookedAt(n, k)', ClaimOf(keys[n]).replay
  PROVE  LookedAt(n, k) \/ (CheckLink /\ n = at /\ k = link /\ keys[n] = Key)
<1>1. k \in Nat \ {0} /\ k <= Len(Links(keys[n])) /\ Len(Links(keys[n])) \in Nat
  <2>1. PICK x \in Keys : x = keys[n]
    BY DEF Keys
  <2>2. Links(x) \in Seq(AnyLink)
    <3>1. CASE HasReceipt(x)
      BY <3>1, KeysAreDigests, ClaimFields DEF Links, ClaimOf
    <3>2. CASE ~HasReceipt(x)
      BY <3>2 DEF Links
    <3> QED
      BY <3>1, <3>2
  <2>3. PICK ls \in Seq(AnyLink) : ls = Links(keys[n])
    BY <2>1, <2>2
  <2> QED
    BY <2>3
<1>2. n \in Nat \ {0} /\ n <= Len(keys) /\ Len(keys) \in Nat /\ at \in Nat /\ link \in Nat
  BY DEF TypeInv
<1>3. CASE UNCHANGED vars
  BY <1>3 DEF vars, LookedAt
<1>4. CASE Index
  <2>1. stage' \in {"index", "ladder"}
    BY <1>4 DEF Index, IndexPlaceholder, IndexNew, IndexCollision, IndexEnvelope, Indexing, NextDoc, Indexed
  <2> QED
    BY <2>1 DEF LookedAt
<1>5. CASE Ladder
  <2>1. CASE RunLadder
    BY <2>1 DEF RunLadder, AtNode, LookedAt
  <2>2. CASE LaddersDone
    <3>1. stage' = "links" /\ at' = 1 /\ link' = link /\ link = 0
      BY <2>2 DEF LaddersDone, LinksInv
    <3> QED
      BY <1>1, <1>2, <3>1 DEF LookedAt
  <2> QED
    BY <1>5, <2>1, <2>2 DEF Ladder
<1>6. CASE Walk
  <2>1. stage = "walk"
    BY <1>6 DEF Walk, NextRoot, FinishNode, FollowLink, WalkDone, Walking, AtNode
  <2> QED
    BY <2>1 DEF LookedAt
<1>7. CASE SkipLinks
  <2>1. stage = "links" /\ stage' = "links" /\ at' = at + 1 /\ link' = 0 /\ Links(Key) = <<>>
    BY <1>7 DEF SkipLinks, AtNode, NextLinks
  <2>2. n = at => FALSE
    BY <1>1, <2>1 DEF Key
  <2> QED
    BY <1>1, <1>2, <2>1, <2>2 DEF LookedAt
<1>8. CASE BadParent
  <2>1. stage = "links" /\ stage' = "links" /\ at' = at + 1 /\ link' = 0 /\ ~ClaimOf(Key).replay
    BY <1>8 DEF BadParent, AtNode, NextLinks
  <2>2. n = at => FALSE
    BY <2>1 DEF Key
  <2> QED
    BY <1>1, <1>2, <2>1, <2>2 DEF LookedAt
<1>9. CASE BeginLinks
  <2>1. stage = "links" /\ stage' = "links" /\ at' = at /\ link' = 1
    BY <1>9 DEF BeginLinks, AtNode
  <2> QED
    BY <1>1, <1>2, <2>1 DEF LookedAt
<1>10. CASE CheckLink
  <2>1. stage = "links" /\ stage' = "links" /\ at' = at /\ link' = link + 1
    BY <1>10 DEF CheckLink, AtNode
  <2> QED
    BY <1>1, <1>2, <1>10, <2>1 DEF LookedAt, Key
<1>11. CASE EndLinks
  <2>1. stage = "links" /\ stage' = "links" /\ at' = at + 1 /\ link' = 0 /\ link = Len(Links(Key)) + 1
    BY <1>11 DEF EndLinks, AtNode, NextLinks
  <2>2. n = at => k < link
    BY <1>1, <2>1 DEF Key
  <2> QED
    BY <1>1, <1>2, <2>1, <2>2 DEF LookedAt
<1>12. CASE LinksDone
  BY <1>2, <1>12 DEF LinksDone, LookedAt
<1> QED
  BY <1>3, <1>4, <1>5, <1>6, <1>7, <1>8, <1>9, <1>10, <1>11, <1>12 DEF Next, LinkStep

\* Nothing noted is forgotten, and a missing child is noted by the check that
\* finds it missing.
LEMMA MissingNotedStep ==
  ASSUME IInv, MissingNoted, [Next]_vars
  PROVE  MissingNoted'
<1>1. TypeInv /\ WalkInv /\ IndexInv /\ LadderInv /\ LinksInv
  BY DEF IInv
<1>2. CASE Index
  <2>1. stage' \in {"index", "ladder"}
    BY <1>2 DEF Index, IndexPlaceholder, IndexNew, IndexCollision, IndexEnvelope, Indexing, NextDoc, Indexed
  <2> QED
    BY <2>1 DEF MissingNoted, LookedAt
<1>3. CASE Ladder \/ LinkStep \/ Walk \/ UNCHANGED vars
  <2>1. keys' = keys /\ Keys' = Keys /\ Claimed' = Claimed /\ strict' = strict
    <3>1. CASE UNCHANGED vars
      BY <3>1 DEF vars, Keys, Claimed
    <3>2. CASE Ladder \/ LinkStep \/ Walk
      BY <1>1, <3>2, Kept, TypeLater
    <3> QED
      BY <1>3, <3>1, <3>2
  <2>2. /\ \A x \in Keys : Links(x)' = Links(x) /\ ClaimOf(x)' = ClaimOf(x)
        /\ \A c, ln, bound : Fault(c, ln, bound)' = Fault(c, ln, bound)
    BY <2>1, SameFaults DEF Claimed, ClaimOf
  <2>3. \A c, k : Alone(c, k)' = Alone(c, k)
    BY <2>2 DEF Alone
  <2>4. missing \subseteq missing'
    BY <1>3 DEF Ladder, RunLadder, LaddersDone, LinkStep, SkipLinks, BadParent, BeginLinks, CheckLink,
                EndLinks, LinksDone, Walk, NextRoot, FinishNode, FollowLink, WalkDone, Walking, vars
  <2>5. ASSUME NEW n \in DOMAIN keys, NEW x \in Keys, x = keys[n], NEW k \in DOMAIN Links(x),
               LookedAt(n, k)', ClaimOf(x).replay, Alone(ClaimOf(x), k) = "missing"
        PROVE  Links(x)[k].child \in missing'
    <3>1. LookedAt(n, k) \/ (CheckLink /\ n = at /\ k = link /\ x = Key)
      BY <1>1, <2>5, LookedAtNext
    <3>2. CASE LookedAt(n, k)
      BY <2>4, <2>5, <3>2 DEF MissingNoted
    <3>3. CASE CheckLink /\ k = link /\ x = Key
      <4>1. PICK c, ln : c = ClaimOf(x) /\ ln = Links(x)[k] /\ ln = c.links[k]
        <5>1. Links(x) = ClaimOf(x).links
          BY <2>5 DEF Links
        <5> QED
          BY <5>1
      <4>2. Fault(c, ln, {}) = "missing"
        BY <2>5, <4>1 DEF Alone
      <4>3. Fault(c, ln, taken) = "missing"
        BY <4>2, FaultBesideOthers DEF BeforeBinding
      <4>4. missing' = IF Fault(c, ln, taken) = "missing" THEN missing \cup {ln.child} ELSE missing
        BY <3>3, <4>1 DEF CheckLink
      <4> QED
        BY <4>1, <4>3, <4>4
    <3> QED
      BY <3>1, <3>2, <3>3
  <2>6. \A n \in DOMAIN keys : keys[n] \in Keys
    BY DEF Keys
  <2> QED
    <3> SUFFICES ASSUME NEW n \in DOMAIN keys', NEW k \in DOMAIN Links(keys[n])', LookedAt(n, k)',
                        ClaimOf(keys[n])'.replay, Alone(ClaimOf(keys[n]), k)' = "missing"
                 PROVE  Links(keys[n])'[k].child \in missing'
      BY DEF MissingNoted
    <3>1. PICK x \in Keys : x = keys[n] /\ x = keys'[n] /\ n \in DOMAIN keys
      BY <2>1, <2>6
    <3>2. Links(keys[n])' = Links(x)' /\ ClaimOf(keys[n])' = ClaimOf(x)'
      BY <3>1 DEF Links, ClaimOf, HasReceipt
    <3>3. PICK c : c = ClaimOf(x) /\ c = ClaimOf(keys[n])'
      BY <2>2, <3>2
    <3>4. Alone(ClaimOf(keys[n]), k)' = Alone(c, k)'
      BY <3>3 DEF ClaimOf
    <3>5. Alone(ClaimOf(x), k) = Alone(c, k)
      BY <3>3
    <3> QED
      BY <2>2, <2>3, <2>5, <3>1, <3>2, <3>3, <3>4, <3>5
<1> QED
  BY <1>2, <1>3 DEF Next

-----------------------------------------------------------------------------
(* The author, then the verifier. *)

\* verify_graph reads, and never changes, what it was given.
LEMMA NextJudges ==
  ASSUME Next
  PROVE  stage \in {"index", "ladder", "links", "walk"} /\ docs' = docs
<1>1. CASE Index
  BY <1>1 DEF Index, IndexPlaceholder, IndexNew, IndexCollision, IndexEnvelope, Indexing, NextDoc, Indexed, indexVars
<1>2. CASE Ladder
  BY <1>2 DEF Ladder, RunLadder, LaddersDone, AtNode, indexVars
<1>3. CASE LinkStep
  BY <1>3 DEF LinkStep, SkipLinks, BadParent, BeginLinks, CheckLink, EndLinks, LinksDone, AtNode, indexVars
<1>4. CASE Walk
  BY <1>4 DEF Walk, NextRoot, FinishNode, FollowLink, WalkDone, Walking, AtNode, indexVars
<1> QED
  BY <1>1, <1>2, <1>3, <1>4 DEF Next

\* Every step keeps the chain.
LEMMA ChainStep ==
  ASSUME ChainInv, [ChainNext]_<<vars, mintVars>>
  PROVE  ChainInv'
<1>1. WalletInv
  BY DEF ChainInv
<1>2. ASSUME wallet' = wallet, docs' = docs, Judging, [Next]_vars
      PROVE  ChainInv'
  <2>1. IInv' /\ MissingNoted'
    BY <1>2, StepIInv, MissingNotedStep DEF Judging
  <2>2. Handed'
    BY <1>2 DEF Judging, Handed
  <2> QED
    BY <1>1, <1>2, <2>1, <2>2, SameWallet DEF ChainInv, Judging
<1>3. CASE Authored
  <2>1. stage = "author"
    BY <1>3 DEF Authored
  <2>2. ~Next
    BY <2>1, NextJudges
  <2>3. CASE ReplayReceipt \/ LinkTo \/ ComposeInputs
    BY <1>1, <1>3, <2>3, ReplayReceiptStep, LinkToStep, ComposeStep DEF ChainInv
  <2>4. CASE HandOver
    <3>1. WalletInv' /\ Fresh' /\ Handed' /\ MissingNoted'
      BY <1>1, <1>3, <2>4, HandOverStep
    <3>2. Fresh' => IInv'
      BY InitIInv, PTL
    <3> QED
      BY <3>1, <3>2 DEF ChainInv, Judging
  <2>5. CASE UNCHANGED <<vars, mintVars>>
    <3>1. UNCHANGED <<docs, strict, stage, at, keys, node, missing, link, taken, color, stack, order,
                      collision, cycle, wallet, linked, composed>>
      BY <2>5 DEF vars, mintVars
    <3>2. WalletInv' /\ \A ln, top : IntoWallet(ln, top) => IntoWallet(ln, top)'
      BY <1>1, <3>1, SameWallet
    <3>3. Untouched' /\ ComposedInv' /\ stage' = "author" /\ strict' \in BOOLEAN
      BY <1>3, <3>1 DEF Authored, Untouched, ComposedInv
    <3>4. LinkedInv'
      <4>1. LinkedInv
        BY <1>3 DEF Authored
      <4>2. \A ln, top : IntoWallet(ln, top)' <=> IntoWallet(ln, top)
        BY <3>1 DEF IntoWallet
      <4> QED
        BY <3>1, <4>1, <4>2 DEF LinkedInv, IntoWallet
    <3> QED
      BY <3>2, <3>3, <3>4 DEF ChainInv, Authored
  <2> QED
    BY <2>2, <2>3, <2>4, <2>5 DEF ChainNext, Author
<1>4. CASE Judging
  <2>1. stage # "author"
    BY <1>4 DEF Judging, IInv, TypeInv
  <2>2. ~Author
    BY <2>1 DEF Author, ReplayReceipt, LinkTo, ComposeInputs, HandOver, Authoring
  <2>3. CASE Next /\ UNCHANGED mintVars
    <3>1. wallet' = wallet /\ docs' = docs
      BY <2>3, NextJudges DEF mintVars
    <3> QED
      BY <1>2, <1>4, <2>3, <3>1
  <2>4. CASE UNCHANGED <<vars, mintVars>>
    BY <1>2, <1>4, <2>4 DEF vars, mintVars
  <2> QED
    BY <2>2, <2>3, <2>4 DEF ChainNext
<1> QED
  BY <1>3, <1>4 DEF ChainInv

\* Whoever made the documents, and whatever an author mints, links, composes and
\* hands over: the wallet holds what was run under the digests of its claims,
\* every link names a receipt minted before it, and verify_graph keeps IInv
\* (mint.py:32, 64, 95; graph.py:124 to 366).
THEOREM ChainsAreKept == ChainSpec => []ChainInv
<1>1. ChainInit => ChainInv
  <2>1. CASE Init /\ wallet = <<>> /\ linked = <<>> /\ composed = NoList
    <3>1. WalletInv /\ Handed
      BY <2>1 DEF WalletInv, Handed
    <3>2. IInv
      BY <2>1, InitIsFresh, InitIInv
    <3>3. MissingNoted
      <4>1. DOMAIN keys = {}
        BY <2>1 DEF Init
      <4> QED
        BY <4>1 DEF MissingNoted
    <3> QED
      BY <3>1, <3>2, <3>3 DEF ChainInv, Judging
  <2>2. CASE MintInit
    <3>1. WalletInv /\ LinkedInv /\ ComposedInv
      BY <2>2 DEF MintInit, WalletInv, LinkedInv, ComposedInv
    <3>2. stage = "author" /\ strict \in BOOLEAN /\ Untouched
      BY <2>2 DEF MintInit, Untouched
    <3> QED
      BY <3>1, <3>2 DEF ChainInv, Authored
  <2> QED
    BY <2>1, <2>2 DEF ChainInit
<1>2. ChainInv /\ [ChainNext]_<<vars, mintVars>> => ChainInv'
  BY ChainStep
<1> QED
  BY <1>1, <1>2, PTL DEF ChainSpec

-----------------------------------------------------------------------------
(* What verify_graph says of an author's chain. *)

AtTheEnd == WalletInv /\ Judging /\ stage = "done" /\ wallet # <<>>

\* Equal digests are of equal claims.
LEMMA NoCollisionInWallet ==
  ASSUME AtTheEnd
  PROVE  ~collision
<1>1. TypeInv /\ IndexInv /\ WalletInv /\ Handed /\ stage = "done" /\ wallet # <<>>
  BY DEF AtTheEnd, Judging, IInv
<1>2. DOMAIN docs = 1 .. Read
  BY <1>1, AllRead
<1>3. ASSUME NEW m \in 1 .. Read, NEW n \in 1 .. Read, Colliding(m, n)
      PROVE  FALSE
  <2>1. PICK i \in DOMAIN wallet, j \in DOMAIN wallet :
          docs[m].claim = wallet[i].claim /\ docs[n].claim = wallet[j].claim
    BY <1>1, <1>2 DEF Handed
  <2>2. InItsPlace(wallet[i].claim, i) /\ InItsPlace(wallet[j].claim, j)
    BY <1>1 DEF WalletInv
  <2> QED
    BY <1>3, <2>1, <2>2 DEF Colliding, InItsPlace
<1> QED
  BY <1>1, <1>3 DEF IndexInv, CollisionNoted

\* The nodes are receipts of the wallet, each under its own digest.
LEMMA NodesAreMinted ==
  ASSUME AtTheEnd, NEW x \in Keys
  PROVE  /\ HasReceipt(x) /\ x \in 1 .. Len(wallet) /\ x \in DOMAIN wallet
         /\ ClaimOf(x) = wallet[x].claim /\ ClaimOf(x).digest = x
<1>1. TypeInv /\ IndexInv /\ WalletInv /\ Handed /\ stage = "done" /\ wallet # <<>>
  BY DEF AtTheEnd, Judging, IInv
<1>2. DOMAIN docs = 1 .. Read
  BY <1>1, AllRead
<1>3. HasReceipt(x)
  BY <1>1, <1>2 DEF IndexInv, KeyedByClaim, Handed
<1>4. PICK n \in 1 .. Read : docs[n].claim = ClaimOf(x)
  BY <1>1, <1>3 DEF IndexInv, KeyedByClaim
<1>5. PICK m \in DOMAIN wallet : ClaimOf(x) = wallet[m].claim
  BY <1>1, <1>2, <1>4 DEF Handed
<1>6. ClaimOf(x).digest = x
  BY <1>1, <1>3, KeysAreDigests DEF ClaimOf
<1>7. x \in 1 .. m /\ wallet[x].claim = ClaimOf(x)
  <2>1. InItsPlace(wallet[m].claim, m)
    BY <1>1 DEF WalletInv
  <2> QED
    BY <1>5, <1>6, <2>1 DEF InItsPlace
<1>8. m \in 1 .. Len(wallet) /\ Len(wallet) \in Nat /\ DOMAIN wallet = 1 .. Len(wallet)
  BY <1>1, WalletIsASequence
<1>9. x \in 1 .. Len(wallet)
  BY <1>7, <1>8
<1> QED
  BY <1>3, <1>6, <1>7, <1>8, <1>9

\* A set of numbers has a least.
LEMMA LeastKey ==
  ASSUME NEW some \in SUBSET Nat, some # {}
  PROVE  \E x \in some : \A y \in some : ~(y < x)
<1>1. IsWellFoundedOn(OpToRel(<, Nat), Nat)
  BY NatLessThanWellFounded
<1>2. PICK x \in some : \A y \in some : <<y, x>> \notin OpToRel(<, Nat)
  BY <1>1, WFMin
<1> QED
  BY <1>2 DEF OpToRel

\* Links name what was minted before: no order of minting makes a cycle.
LEMMA NoCycleInWallet ==
  ASSUME AtTheEnd
  PROVE  ~cycle
<1>1. TypeInv /\ WalkInv /\ WalletInv /\ stage = "done"
  BY DEF AtTheEnd, Judging, IInv
<1> SUFFICES ASSUME cycle PROVE FALSE
  OBVIOUS
<1>2. PICK some \in SUBSET Keys : Circular(some)
  BY <1>1 DEF WalkInv, Walked, Met
<1>3. some \in SUBSET Nat /\ some # {}
  BY <1>2, NodesAreMinted DEF Circular
<1>4. PICK x \in some : \A y \in some : ~(y < x)
  BY <1>3, LeastKey
<1>5. PICK y \in some : y \in Kids(x)
  BY <1>2 DEF Circular
<1>6. x \in DOMAIN wallet /\ ClaimOf(x) = wallet[x].claim /\ ClaimOf(x).digest = x /\ HasReceipt(x)
  BY NodesAreMinted
<1>7. y \in NamedBy(ClaimOf(x))
  BY <1>1, <1>5, <1>6, KidsAreNamed
<1>8. PICK k \in DOMAIN ClaimOf(x).links : y = ClaimOf(x).links[k].child
  BY <1>7 DEF NamedBy
<1>9. IntoWallet(ClaimOf(x).links[k], x - 1)
  BY <1>1, <1>6 DEF WalletInv, InItsPlace
<1>10. y \in 1 .. x - 1 /\ x \in Nat
  BY <1>3, <1>8, <1>9 DEF IntoWallet
<1> QED
  BY <1>4, <1>10

\* What a link carries is what its child says of those cells.
LEMMA CarriedCells ==
  ASSUME WalletInv, NEW ln, NEW child, ln.child \in DOMAIN wallet, child = wallet[ln.child].claim,
         child.digest = ln.child
  PROVE  Carried(ln) = {child.cells[ln.src + n] : n \in 1 .. ln.length}
<1>1. PICK m : m = (CHOOSE n \in DOMAIN wallet : wallet[n].claim.digest = ln.child)
  OBVIOUS
<1>2. m \in DOMAIN wallet /\ wallet[m].claim.digest = ln.child
  BY <1>1
<1>3. wallet[m].claim = child
  <2>1. InItsPlace(wallet[m].claim, m)
    BY <1>2 DEF WalletInv
  <2> QED
    BY <1>2, <2>1 DEF InItsPlace
<1>4. Carried(ln) = {wallet[m].claim.cells[ln.src + n] : n \in 1 .. ln.length}
  BY <1>1 DEF Carried
<1> QED
  BY <1>3, <1>4

\* A link whose child was handed over, next to inputs composed from it, has no
\* fault but in what the probe says of the cells.
LEMMA HandedLink ==
  ASSUME AtTheEnd, NEW n \in DOMAIN wallet, wallet[n].careful, NEW c, c = wallet[n].claim,
         NEW ln \in AnyLink, IntoWallet(ln, c.digest - 1), HoldsLink(c.inputs, ln),
         ln.child \in Keys
  PROVE  /\ Fault(c, ln, {}) \in {"none", "constant", "unproven"}
         /\ Fault(c, ln, {}) = "constant" => Carried(ln) = {"dead"}
         /\ Fault(c, ln, {}) = "unproven" => "live" \notin Carried(ln)
<1>1. WalletInv
  BY DEF AtTheEnd
<1>2. c.inputs \in Seq(Int) /\ c.inputs # NoList
  BY <1>1, MintedRuns, SupplyAssumption DEF WalletInv
<1>3. PICK child : child = ClaimOf(ln.child)
  OBVIOUS
<1>4. ln.child \in DOMAIN wallet /\ child = wallet[ln.child].claim /\ child.digest = ln.child
  BY <1>3, NodesAreMinted
<1>5. /\ child.replay = TRUE /\ child.output \in Seq(Int) /\ child.output # NoList
      /\ Len(child.cells) = Len(child.output) /\ child.cells \in Seq({"live", "dead", "indeterminate"})
  <2>1. Minted(wallet[ln.child]) /\ child \in AnyClaim
    BY <1>1, <1>4, WalletIsASequence DEF WalletInv
  <2> QED
    BY <1>4, <2>1, MintedRuns, ClaimFields
<1>6. /\ ln.child \in Nat /\ ln.src \in Nat /\ ln.dst \in Nat /\ ln.length \in Nat \ {0}
  BY LinkFields
<1>7. /\ ln.wellFormed /\ child.output = ln.output /\ ln.src + ln.length <= Len(child.output)
  BY <1>4 DEF IntoWallet
<1>8. ln.dst + ln.length <= Len(c.inputs) /\ Agree(c.inputs, ln.dst, child.output, ln.src, ln.length)
  BY <1>7 DEF HoldsLink
<1>9. Slice(c.inputs, ln.dst, ln.length) = Slice(child.output, ln.src, ln.length)
  <2>1. PICK S : S = Int
    OBVIOUS
  <2>2. PICK a \in Seq(S) : a = c.inputs
    BY <1>2, <2>1
  <2>3. PICK b \in Seq(S) : b = child.output
    BY <1>5, <2>1
  <2>4. PICK da \in Nat : da = ln.dst
    BY <1>6
  <2>5. PICK db \in Nat : db = ln.src
    BY <1>6
  <2>6. PICK length \in Nat \ {0} : length = ln.length
    BY <1>6
  <2>7. da + length <= Len(a) /\ db + length <= Len(b)
    BY <1>7, <1>8, <2>2, <2>3, <2>4, <2>5, <2>6, Zenon
  <2>8. Slice(a, da, length) = Slice(b, db, length) <=> Agree(a, da, b, db, length)
    BY <2>7, SameSlice, Zenon
  <2>9. Agree(a, da, b, db, length)
    BY <1>8, <2>2, <2>3, <2>4, <2>5, <2>6
  <2> QED
    BY <2>2, <2>3, <2>4, <2>5, <2>6, <2>8, <2>9
<1>10. PICK states : states = Slice(child.cells, ln.src, ln.length)
  OBVIOUS
<1>11. Fault(c, ln, {}) = IF \A i \in DOMAIN states : states[i] = "dead" THEN "constant"
                          ELSE IF \A i \in DOMAIN states : states[i] # "live" THEN "unproven"
                          ELSE "none"
  <2>1. /\ ~(ln.dst + ln.length > Len(c.inputs)) /\ ~(ln.src + ln.length > Len(child.output))
        /\ ~(Len(child.cells) < ln.src + ln.length)
    <3>1. Len(c.inputs) \in Nat /\ Len(child.output) \in Nat /\ Len(child.cells) \in Nat
      BY <1>2, <1>5
    <3> QED
      BY <1>5, <1>6, <1>7, <1>8, <3>1
  <2>2. {} \cap Cells(ln.dst, ln.length) = {}
    OBVIOUS
  <2> QED
    BY <1>2, <1>3, <1>5, <1>7, <1>9, <1>10, <2>1, <2>2, Zenon DEF Fault
<1>12. DOMAIN states = 1 .. ln.length /\ \A i \in 1 .. ln.length : states[i] = child.cells[ln.src + i]
  <2>1. PICK S : S = {"live", "dead", "indeterminate"}
    OBVIOUS
  <2>2. child.cells \in Seq(S) /\ ln.src + ln.length <= Len(child.cells)
    BY <1>5, <1>7, <2>1
  <2> QED
    BY <1>6, <1>10, <2>2, SliceOf
<1>13. Carried(ln) = {states[i] : i \in 1 .. ln.length}
  <2>1. Carried(ln) = {child.cells[ln.src + i] : i \in 1 .. ln.length}
    BY <1>1, <1>4, CarriedCells
  <2> QED
    BY <1>12, <2>1
<1>14. 1 \in 1 .. ln.length
  BY <1>6
<1>15. (\A i \in DOMAIN states : states[i] = "dead") => Carried(ln) = {"dead"}
  BY <1>12, <1>13, <1>14
<1>16. (\A i \in DOMAIN states : states[i] # "live") => "live" \notin Carried(ln)
  BY <1>12, <1>13
<1> QED
  BY <1>11, <1>15, <1>16

\* What may be wrong with the links of a receipt whose inputs were composed from
\* them.
LEMMA ComposedFaults ==
  ASSUME AtTheEnd, NEW n \in DOMAIN wallet, wallet[n].careful, NEW c, c = wallet[n].claim,
         NEW f \in LinkFaults(c) \ {"none"}
  PROVE  \E m \in DOMAIN c.links :
           \/ f = "missing" /\ Alone(c, m) = "missing"
           \/ f = "constant" /\ Carried(c.links[m]) = {"dead"}
           \/ f = "unproven" /\ "live" \notin Carried(c.links[m])
<1>1. /\ HoldsLinks(c.inputs, c.links) /\ InItsPlace(c, n)
  BY DEF AtTheEnd, WalletInv
<1>2. c.links \in Seq(AnyLink) /\ \A m \in DOMAIN c.links : c.links[m] \in AnyLink
  BY WalletIsASequence DEF AtTheEnd
<1>3. ASSUME NEW m \in DOMAIN c.links, NEW k \in DOMAIN c.links, m # k
      PROVE  Cells(c.links[m].dst, c.links[m].length) \cap Cells(c.links[k].dst, c.links[k].length) = {}
  BY <1>1, <1>3 DEF HoldsLinks
<1>4. PICK m \in DOMAIN c.links : f = Fault(c, c.links[m], {})
  BY <1>3 DEF LinkFaults
<1>5. PICK ln \in AnyLink : ln = c.links[m] /\ IntoWallet(ln, c.digest - 1) /\ HoldsLink(c.inputs, ln)
  BY <1>1, <1>2 DEF InItsPlace, HoldsLinks
<1>6. CASE ln.child \notin Keys
  <2>1. Fault(c, ln, {}) = "missing"
    BY <1>5, <1>6 DEF Fault, IntoWallet
  <2> QED
    BY <1>4, <1>5, <2>1 DEF Alone
<1>7. CASE ln.child \in Keys
  BY <1>4, <1>5, <1>7, HandedLink
<1> QED
  BY <1>6, <1>7

\* The verdict on those links.
LEMMA ComposedLinks ==
  ASSUME AtTheEnd, NEW n \in DOMAIN wallet, wallet[n].careful, NEW c, c = wallet[n].claim,
         c.digest \in Keys
  PROVE  /\ ~cycle
         /\ node[c.digest].linksOk = "false" =>
              \E m \in DOMAIN c.links : \/ Carried(c.links[m]) = {"dead"}
                                        \/ strict /\ "live" \notin Carried(c.links[m])
         /\ node[c.digest].linksOk = "incomplete" =>
              \/ NamedBy(c) \cap missing # {}
              \/ \E m \in DOMAIN c.links : "live" \notin Carried(c.links[m])
<1>1. ~cycle /\ ~collision
  BY NoCycleInWallet, NoCollisionInWallet
<1>2. TypeInv /\ LinksInv /\ MissingNoted /\ WalletInv /\ stage = "done"
  BY DEF AtTheEnd, Judging, IInv
<1>3. PICK x \in Keys : x = c.digest
  OBVIOUS
<1>4. node[x].linksOk = Deserved(x)
  BY <1>1, <1>2 DEF LinksInv
<1>5. ClaimOf(x) = c /\ Links(x) = c.links /\ c.replay = TRUE
  <2>1. ClaimOf(x) = c
    BY <1>2, <1>3, NodesAreMinted DEF WalletInv, InItsPlace
  <2> QED
    BY <1>2, <2>1, NodesAreMinted, MintedRuns DEF WalletInv, Links
<1>6. PICK faults : faults = LinkFaults(c) \ {"none"}
  OBVIOUS
<1>7. Deserved(x) = IF c.links = <<>> THEN "none"
                    ELSE IF faults = {} THEN "true"
                    ELSE IF faults \subseteq Softening THEN "incomplete" ELSE "false"
  BY <1>5, <1>6 DEF Deserved
<1>8. \A f \in faults : \E m \in DOMAIN c.links :
        \/ f = "missing" /\ Alone(c, m) = "missing"
        \/ f = "constant" /\ Carried(c.links[m]) = {"dead"}
        \/ f = "unproven" /\ "live" \notin Carried(c.links[m])
  BY <1>6, ComposedFaults
<1>9. ASSUME node[x].linksOk = "false"
      PROVE  \E m \in DOMAIN c.links : \/ Carried(c.links[m]) = {"dead"}
                                       \/ strict /\ "live" \notin Carried(c.links[m])
  <2>1. PICK f \in faults : f \notin Softening
    BY <1>4, <1>7, <1>9
  <2>2. f # "missing" /\ (f = "unproven" => strict)
    BY <2>1 DEF Softening
  <2> QED
    BY <1>8, <2>2
<1>10. ASSUME node[x].linksOk = "incomplete"
       PROVE  \/ NamedBy(c) \cap missing # {}
              \/ \E m \in DOMAIN c.links : "live" \notin Carried(c.links[m])
  <2>1. PICK f \in faults : f \in Softening
    BY <1>4, <1>7, <1>10
  <2>2. PICK m \in DOMAIN c.links : \/ f = "missing" /\ Alone(c, m) = "missing"
                                    \/ f = "unproven" /\ "live" \notin Carried(c.links[m])
    BY <1>8, <2>1 DEF Softening
  <2>3. ASSUME Alone(c, m) = "missing"
        PROVE  NamedBy(c) \cap missing # {}
    <3>1. PICK i \in DOMAIN keys : keys[i] = x
      BY DEF Keys
    <3>2. LookedAt(i, m)
      BY <1>2 DEF LookedAt
    <3>3. c.links[m].child \in missing
      BY <1>2, <1>5, <2>3, <3>1, <3>2 DEF MissingNoted
    <3> QED
      BY <3>3 DEF NamedBy
  <2> QED
    BY <2>2, <2>3
<1> QED
  BY <1>1, <1>3, <1>9, <1>10

\* Whatever an author mints, in any order, and hands over: verify_graph finds
\* nothing wrong with the links of a receipt whose inputs were composed from
\* them but cells that do not depend on the child's inputs and children that
\* were not handed over, and no cycle (mint.py:64, 95, 99).
THEOREM ComposedChainsBind == ChainSpec => []ComposedLinksBind
<1>1. ASSUME ChainInv
      PROVE  ComposedLinksBind
  <2> SUFFICES ASSUME stage = "done", NEW n \in DOMAIN wallet, wallet[n].careful,
                      NEW c, c = wallet[n].claim, c.digest \in Keys,
                      NEW carried, carried = {Carried(c.links[m]) : m \in DOMAIN c.links}
               PROVE  /\ ~cycle
                      /\ node[c.digest].linksOk = "false" =>
                           \E cells \in carried : cells = {"dead"} \/ (strict /\ "live" \notin cells)
                      /\ node[c.digest].linksOk = "incomplete" =>
                           \/ NamedBy(c) \cap missing # {}
                           \/ \E cells \in carried : "live" \notin cells
    BY DEF ComposedLinksBind
  <2>1. WalletInv /\ Judging
    BY <1>1 DEF ChainInv, Authored
  <2>2. wallet # <<>>
    OBVIOUS
  <2>3. AtTheEnd
    BY <2>1, <2>2 DEF AtTheEnd
  <2> QED
    BY <2>3, ComposedLinks
<1> QED
  BY <1>1, ChainsAreKept, PTL

\* What the theorems above say of any documents holds of an author's too.
THEOREM ChainsAreJudged ==
  ChainSpec => [](VerdictIsOfTheSet /\ CycleReported /\ ChildrenFirst /\ IncompleteIsNotForged)
<1>1. ASSUME ChainInv
      PROVE  VerdictIsOfTheSet /\ CycleReported /\ ChildrenFirst /\ IncompleteIsNotForged
  <2>1. CASE stage # "done"
    BY <2>1 DEF VerdictIsOfTheSet, CycleReported, ChildrenFirst, IncompleteIsNotForged
  <2>2. CASE stage = "done"
    <3>1. IInv
      BY <1>1, <2>2 DEF ChainInv, Authored, Judging
    <3>2. IncompleteIsNotForged
      BY <3>1 DEF IInv, LinksInv, IncompleteIsNotForged
    <3> QED
      BY <3>1, <3>2, VerdictIsTheSets, CycleIsReported, ChildrenComeFirst DEF IInv
  <2> QED
    BY <2>1, <2>2
<1> QED
  BY <1>1, ChainsAreKept, PTL

=============================================================================
