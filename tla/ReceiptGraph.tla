---------------------------- MODULE ReceiptGraph ----------------------------
(***************************************************************************)
(* verify_graph of src/obsign_verify/graph.py: a supply chain of receipts, *)
(* every node re-derived, every link compared with the child's own output. *)
(*                                                                         *)
(* A document is [object, canonical, claim, envelope, verified]: whether   *)
(* it is a JSON object, whether its claim canonicalises, the claim, what   *)
(* surrounds it, and what verify() says of it alone.  A claim is           *)
(*   id       which claim it is                                            *)
(*   digest   its claim hash, a positive number; two claims may collide    *)
(*   replay   its kernel is obsign/replay/1                                *)
(*   inputs   params.inputs, or NoList                                     *)
(*   output   what its program outputs, or NoList when it cannot be run    *)
(*   cells    the probe's answer for each output cell                      *)
(*   links    params.links, each [wellFormed, child, src, dst, length,     *)
(*            output]: child is the digest it names (NoChild if it names   *)
(*            none) and output the output whose hash it states.            *)
(***************************************************************************)
EXTENDS Integers, Sequences, FiniteSets, SequencesExt

CONSTANTS
  Supplies,    \* the lists of documents verify_graph may be given
  NoList

NoChild == 0

\* What a supply may hold.  Nothing is asked of the claim of a document that is
\* no receipt, nor of how a program's outputs, its cells and its links' outputs
\* are related.
AnyList == {NoList} \cup Seq(Int)

AnyLink ==
  [wellFormed : BOOLEAN, child : Nat, src : Nat, dst : Nat, length : Nat \ {0}, output : AnyList]

AnyClaim ==
  [id : Nat, digest : Nat \ {0}, replay : BOOLEAN, inputs : AnyList, output : AnyList,
   cells : Seq({"live", "dead", "indeterminate"}), links : Seq(AnyLink)]

AnyDocument ==
  [object : BOOLEAN, canonical : BOOLEAN, claim : {NoList} \cup AnyClaim, envelope : Nat,
   verified : BOOLEAN]

IsReceipt(d) == d.object /\ d.canonical

ASSUME SupplyAssumption ==
  /\ \A supply \in Supplies :
       /\ supply \in Seq(AnyDocument)
       /\ \A n \in DOMAIN supply : IsReceipt(supply[n]) => supply[n].claim \in AnyClaim
  /\ NoList \notin AnyClaim /\ NoList \notin Seq(Int)

\* A supplied item that never became a receipt has a key of its own.
PlaceholderKey(n) == -n

VARIABLES
  docs, strict,          \* the arguments
  stage,                 \* "index", "ladder", "links", "walk" or "done"
  at,                    \* position in docs, or in keys
  keys,                  \* the keys of `nodes` in insertion order
  node,                  \* `nodes`: key -> [claims, envelopes, verified, linksOk]
  missing,
  link, taken,           \* check_links: position in the links; inputs already bound
  color, stack, order,   \* dfs
  collision, cycle       \* a COLLISION or a CYCLE note was made

indexVars == <<docs, strict, keys, collision>>
walkVars == <<color, stack, order, cycle>>
vars == <<docs, strict, stage, at, keys, node, missing, link, taken,
          color, stack, order, collision, cycle>>

Keys == {keys[n] : n \in DOMAIN keys}

\* The receipt of a node; a placeholder has none.
HasReceipt(key) == key > 0
ClaimOf(key) == node[key].claim
Links(key) == IF HasReceipt(key) THEN ClaimOf(key).links ELSE <<>>

Init ==
  /\ docs \in Supplies
  /\ strict \in BOOLEAN
  /\ stage = "index" /\ at = 1
  /\ keys = <<>> /\ node = <<>>
  /\ missing = {}
  /\ link = 0 /\ taken = {}
  /\ color = <<>> /\ stack = <<>> /\ order = <<>>
  /\ collision = FALSE /\ cycle = FALSE

-----------------------------------------------------------------------------
(* Index by recomputed claim hash. *)

Indexing == stage = "index" /\ at <= Len(docs)

Doc == docs[at]

AddNode(key, value) ==
  /\ keys' = Append(keys, key)
  /\ node' = [x \in Keys \cup {key} |-> IF x = key THEN value ELSE node[x]]

NextDoc == at' = at + 1 /\ UNCHANGED <<docs, strict, stage, missing, link, taken, walkVars>>

IndexPlaceholder ==
  /\ Indexing
  /\ ~IsReceipt(Doc)
  /\ AddNode(PlaceholderKey(at), [claim |-> NoList, envelopes |-> {Doc},
                                  verified |-> FALSE, linksOk |-> "none"])
  /\ NextDoc /\ UNCHANGED collision

IndexNew ==
  /\ Indexing
  /\ IsReceipt(Doc)
  /\ Doc.claim.digest \notin Keys
  /\ AddNode(Doc.claim.digest, [claim |-> Doc.claim, envelopes |-> {Doc},
                                verified |-> FALSE, linksOk |-> "none"])
  /\ NextDoc /\ UNCHANGED collision

IndexCollision ==
  /\ Indexing
  /\ IsReceipt(Doc)
  /\ Doc.claim.digest \in Keys /\ ClaimOf(Doc.claim.digest) # Doc.claim
  /\ collision' = TRUE
  /\ node' = [node EXCEPT ![Doc.claim.digest].linksOk = "false"]
  /\ NextDoc /\ UNCHANGED keys

\* Mutant: a second document of a claim is dropped.
DropEnvelope ==
  /\ Indexing
  /\ IsReceipt(Doc)
  /\ Doc.claim.digest \in Keys /\ ClaimOf(Doc.claim.digest) = Doc.claim
  /\ NextDoc /\ UNCHANGED <<keys, collision, node>>

\* The same claim in another document: kept beside the first, never dropped.
IndexEnvelope ==
  /\ Indexing
  /\ IsReceipt(Doc)
  /\ Doc.claim.digest \in Keys /\ ClaimOf(Doc.claim.digest) = Doc.claim
  /\ node' = [node EXCEPT ![Doc.claim.digest].envelopes = @ \cup {Doc}]
  /\ NextDoc /\ UNCHANGED <<keys, collision>>

Indexed ==
  /\ stage = "index" /\ at = Len(docs) + 1
  /\ stage' = "ladder" /\ at' = 1
  /\ UNCHANGED <<indexVars, node, missing, link, taken, walkVars>>

-----------------------------------------------------------------------------
(* Every envelope of every node runs the standalone ladder. *)

AtNode(s) == stage = s /\ at <= Len(keys)
Key == keys[at]

RunLadder ==
  /\ AtNode("ladder")
  /\ node' = IF HasReceipt(Key)
             THEN [node EXCEPT ![Key].verified = \A d \in node[Key].envelopes : d.verified]
             ELSE node
  /\ at' = at + 1
  /\ UNCHANGED <<indexVars, stage, missing, link, taken, walkVars>>

LaddersDone ==
  /\ stage = "ladder" /\ at = Len(keys) + 1
  /\ stage' = "links" /\ at' = 1
  /\ UNCHANGED <<indexVars, node, missing, link, taken, walkVars>>

-----------------------------------------------------------------------------
(* check_links, one link a step. *)

Cells(from, length) == from .. from + length - 1

Slice(list, from, length) == SubSeq(list, from + 1, from + length)

\* The first check a link fails, in the order the code makes them.
Fault(parent, ln, bound) ==
  IF ~ln.wellFormed THEN "malformed"
  ELSE IF ln.child \notin Keys THEN "missing"
  ELSE LET child == ClaimOf(ln.child)
           states == Slice(child.cells, ln.src, ln.length)
       IN  IF ~child.replay THEN "unsupported"
           ELSE IF parent.inputs = NoList THEN "destination"
           ELSE IF ln.dst + ln.length > Len(parent.inputs) THEN "destination"
           ELSE IF bound \cap Cells(ln.dst, ln.length) # {} THEN "overlap"
           ELSE IF child.output = NoList THEN "unrunnable"
           ELSE IF ln.src + ln.length > Len(child.output) THEN "source"
           ELSE IF child.output # ln.output THEN "output"
           ELSE IF Slice(parent.inputs, ln.dst, ln.length)
                     # Slice(child.output, ln.src, ln.length) THEN "value"
           ELSE IF Len(child.cells) < ln.src + ln.length THEN "unproven"
           ELSE IF \A n \in DOMAIN states : states[n] = "dead" THEN "constant"
           ELSE IF \A n \in DOMAIN states : states[n] # "live" THEN "unproven"
           ELSE "none"

BeforeBinding == {"malformed", "missing", "unsupported", "destination", "overlap"}

Softening == {"missing"} \cup (IF strict THEN {} ELSE {"unproven"})

\* Mutant: a missing child softens links already found false.
JudgedSoftly(linksOk, fault) ==
  IF fault = "none" THEN linksOk
  ELSE IF fault \in Softening THEN "incomplete" ELSE "false"

Judged(linksOk, fault) ==
  IF fault = "none" THEN linksOk
  ELSE IF fault \in Softening
       THEN (IF linksOk = "true" THEN "incomplete" ELSE linksOk)
       ELSE "false"

NextLinks == at' = at + 1 /\ link' = 0 /\ taken' = {}

SkipLinks ==
  /\ AtNode("links") /\ link = 0
  /\ Links(Key) = <<>>
  /\ NextLinks
  /\ UNCHANGED <<indexVars, stage, node, missing, walkVars>>

BadParent ==
  /\ AtNode("links") /\ link = 0
  /\ Links(Key) # <<>> /\ ~ClaimOf(Key).replay
  /\ node' = [node EXCEPT ![Key].linksOk = "false"]
  /\ NextLinks
  /\ UNCHANGED <<indexVars, stage, missing, walkVars>>

BeginLinks ==
  /\ AtNode("links") /\ link = 0
  /\ Links(Key) # <<>> /\ ClaimOf(Key).replay
  /\ node' = [node EXCEPT ![Key].linksOk = "true"]
  /\ link' = 1
  /\ UNCHANGED <<indexVars, stage, at, missing, taken, walkVars>>

CheckLink ==
  /\ AtNode("links") /\ link \in DOMAIN Links(Key)
  /\ LET ln == Links(Key)[link]
         fault == Fault(ClaimOf(Key), ln, taken)
     IN  /\ node' = [node EXCEPT ![Key].linksOk = Judged(@, fault)]
         /\ missing' = IF fault = "missing" THEN missing \cup {ln.child} ELSE missing
         /\ taken' = IF fault \in BeforeBinding THEN taken
                     ELSE taken \cup Cells(ln.dst, ln.length)
  /\ link' = link + 1
  /\ UNCHANGED <<indexVars, stage, at, walkVars>>

EndLinks ==
  /\ AtNode("links") /\ link # 0 /\ link = Len(Links(Key)) + 1
  /\ NextLinks
  /\ UNCHANGED <<indexVars, stage, node, missing, walkVars>>

LinksDone ==
  /\ stage = "links" /\ at = Len(keys) + 1
  /\ stage' = "walk" /\ at' = 1
  /\ color' = [x \in Keys |-> "white"]
  /\ UNCHANGED <<indexVars, node, missing, link, taken, stack, order, cycle>>

-----------------------------------------------------------------------------
(* dfs: an explicit stack of <<key, links followed>>. *)

Walking == AtNode("walk") /\ UNCHANGED <<indexVars, stage, missing, link, taken>>

Push(key) == color' = [color EXCEPT ![key] = "grey"]

NextRoot ==
  /\ Walking /\ stack = <<>>
  /\ IF color[Key] = "white"
     THEN Push(Key) /\ stack' = <<<<Key, 0>>>> /\ UNCHANGED at
     ELSE at' = at + 1 /\ UNCHANGED <<color, stack>>
  /\ UNCHANGED <<node, order, cycle>>

Top == stack[Len(stack)]

\* Mutant: a finished node stays grey.
FinishGrey ==
  /\ Walking /\ stack # <<>>
  /\ Top[2] >= Len(Links(Top[1]))
  /\ order' = Append(order, Top[1])
  /\ stack' = Front(stack)
  /\ UNCHANGED <<at, node, cycle, color>>

\* Mutant: the finish order is built from the front.
FinishReversed ==
  /\ Walking /\ stack # <<>>
  /\ Top[2] >= Len(Links(Top[1]))
  /\ color' = [color EXCEPT ![Top[1]] = "black"]
  /\ order' = <<Top[1]>> \o order
  /\ stack' = Front(stack)
  /\ UNCHANGED <<at, node, cycle>>

FinishNode ==
  /\ Walking /\ stack # <<>>
  /\ Top[2] >= Len(Links(Top[1]))
  /\ color' = [color EXCEPT ![Top[1]] = "black"]
  /\ order' = Append(order, Top[1])
  /\ stack' = Front(stack)
  /\ UNCHANGED <<at, node, cycle>>

\* Mutant: the position among a node's links is not advanced.
FollowInPlace ==
  /\ Walking /\ stack # <<>>
  /\ Top[2] < Len(Links(Top[1]))
  /\ LET child == Links(Top[1])[Top[2] + 1].child
     IN  IF child \in Keys /\ color[child] = "white"
         THEN Push(child) /\ stack' = Append(stack, <<child, 0>>)
         ELSE UNCHANGED <<color, stack>>
  /\ UNCHANGED <<at, order, node, cycle>>

FollowLink ==
  /\ Walking /\ stack # <<>>
  /\ Top[2] < Len(Links(Top[1]))
  /\ LET child == Links(Top[1])[Top[2] + 1].child
         rest == Append(Front(stack), <<Top[1], Top[2] + 1>>)
         found == IF child \in Keys THEN color[child] ELSE "none"
     IN  /\ IF found = "white"
            THEN Push(child) /\ stack' = Append(rest, <<child, 0>>)
            ELSE stack' = rest /\ UNCHANGED color
         /\ IF found = "grey"
            THEN /\ cycle' = TRUE
                 /\ node' = [x \in Keys |-> IF x \in {Top[1], child}
                                            THEN [node[x] EXCEPT !.linksOk = "false"]
                                            ELSE node[x]]
            ELSE UNCHANGED <<cycle, node>>
  /\ UNCHANGED <<at, order>>

WalkDone ==
  /\ stage = "walk" /\ at = Len(keys) + 1
  /\ stage' = "done"
  /\ UNCHANGED <<indexVars, at, node, missing, link, taken, walkVars>>

Index == IndexPlaceholder \/ IndexNew \/ IndexCollision \/ IndexEnvelope \/ Indexed
Ladder == RunLadder \/ LaddersDone
LinkStep == SkipLinks \/ BadParent \/ BeginLinks \/ CheckLink \/ EndLinks \/ LinksDone
Walk == NextRoot \/ FinishNode \/ FollowLink \/ WalkDone

Next == Index \/ Ladder \/ LinkStep \/ Walk

Spec == Init /\ [][Next]_vars /\ WF_vars(Next)

-----------------------------------------------------------------------------
(* What is returned. *)

Complete == missing = {}

GraphVerified ==
  /\ Keys # {}
  /\ Complete
  /\ \A x \in Keys : node[x].verified /\ node[x].linksOk \in {"none", "true"}
  /\ ~collision /\ ~cycle

-----------------------------------------------------------------------------
(* Properties. *)

Elements(list) == {list[n] : n \in DOMAIN list}

\* The claims in a set of documents, and what makes one link of a claim good
\* among them: docs/GRAPHS.md's rules 1 to 6 as the code enforces them, with no
\* order on documents or links.
ClaimsOf(ds) == {d.claim : d \in {e \in ds : IsReceipt(e)}}

GoodLink(c, ln, claims) ==
  /\ ln.wellFormed /\ c.replay
  /\ \E child \in claims :
       /\ child.digest = ln.child /\ child.replay
       /\ child.output # NoList /\ child.output = ln.output
       /\ c.inputs # NoList
       /\ ln.src + ln.length <= Len(child.output)
       /\ ln.dst + ln.length <= Len(c.inputs)
       /\ ln.src + ln.length <= Len(child.cells)
       /\ \A n \in 1 .. ln.length : c.inputs[ln.dst + n] = child.output[ln.src + n]
       /\ \E n \in 1 .. ln.length : child.cells[ln.src + n] = "live"

Disjoint(c) ==
  \A m, n \in DOMAIN c.links :
    m # n => Cells(c.links[m].dst, c.links[m].length)
               \cap Cells(c.links[n].dst, c.links[n].length) = {}

NamedBy(c) == {c.links[n].child : n \in DOMAIN c.links}

\* Some claims each name another of them: then, and only then, there is a cycle.
Cyclic(claims) ==
  \E some \in (SUBSET claims) \ {{}} :
    \A c \in some : \E e \in some : e.digest \in NamedBy(c)

GoodSet(ds) ==
  LET claims == ClaimsOf(ds)
  IN  /\ ds # {}
      /\ \A d \in ds : IsReceipt(d) /\ d.verified
      /\ \A c, e \in claims : c.digest = e.digest => c = e
      /\ \A c \in claims : /\ \A n \in DOMAIN c.links : GoodLink(c, c.links[n], claims)
                           /\ Disjoint(c)
      /\ ~Cyclic(claims)

\* The verdict on a supply of receipts is a fact about the set supplied: it is
\* green exactly when every document verifies alone, every link of every claim
\* binds, and nothing is missing, cyclic or colliding, in whatever order the
\* documents and links come and however often a document is repeated
\* (graph.py:16, and the comment at graph.py:124 on a copy dropped unseen).
VerdictIsOfTheSet == stage = "done" => (GraphVerified <=> GoodSet(Elements(docs)))

\* A cycle is reported exactly when the supplied receipts have one, although the
\* walk starts wherever the list does and shares finished nodes (graph.py:325).
CycleReported ==
  stage = "done" => (cycle <=> Cyclic({ClaimOf(x) : x \in {y \in Keys : HasReceipt(y)}}))

\* Every node is finished once, and after all its children where there is no
\* cycle (graph.py:177).
ChildrenFirst ==
  stage = "done" =>
    /\ Len(order) = Cardinality(Keys) /\ Elements(order) = Keys
    /\ ~cycle => \A m, n \in DOMAIN order :
                   HasReceipt(order[m]) /\ order[n] \in NamedBy(ClaimOf(order[m])) => n < m

\* What the links of a claim deserve, whatever their order: the faults of each
\* taken alone, and an overlap between two that name supplied children.
LinkFaults(c) ==
  {Fault(c, c.links[n], {}) : n \in DOMAIN c.links}
    \cup {f \in {"overlap"} :
            \E m, n \in DOMAIN c.links :
              /\ m # n
              /\ {Fault(c, c.links[m], {}), Fault(c, c.links[n], {})} \cap BeforeBinding = {}
              /\ Cells(c.links[m].dst, c.links[m].length)
                   \cap Cells(c.links[n].dst, c.links[n].length) # {}}

Deserved(key) ==
  IF Links(key) = <<>> THEN "none"
  ELSE IF ~ClaimOf(key).replay THEN "false"
  ELSE LET faults == LinkFaults(ClaimOf(key)) \ {"none"}
       IN  IF faults = {} THEN "true"
           ELSE IF faults \subseteq Softening THEN "incomplete" ELSE "false"

\* "Could not be checked" is spelled differently from "false", in both
\* directions: a node's links are incomplete exactly when nothing worse than a
\* missing child or an unproven slice is wrong with any of them, in any order
\* (graph.py:16, 204, 301).
IncompleteIsNotForged ==
  stage = "done" /\ ~collision /\ ~cycle => \A x \in Keys : node[x].linksOk = Deserved(x)

\* Once called, verify_graph returns, whatever the receipts name.
Terminates == stage = "index" ~> stage = "done"
=============================================================================
