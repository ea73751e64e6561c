-------------------------------- MODULE Mint --------------------------------
(***************************************************************************)
(* The producer's side of a supply chain (src/obsign_verify/mint.py): an   *)
(* author mints receipts, links new ones to the outputs of those minted    *)
(* before, and hands some over, in any order, to verify_graph (module      *)
(* ReceiptGraph).  Each call of the library is one step.  A call that      *)
(* traps returns nothing, so it is a step that cannot be taken.            *)
(*                                                                         *)
(* A program is [id, output, cells, liveness]: what it outputs on each     *)
(* list of inputs it takes (NoList if it traps), and what the probe says   *)
(* of its output cells, one by one, and of its inputs.                     *)
(***************************************************************************)
EXTENDS ReceiptGraph

CONSTANTS
  Progs,
  RawInputs,     \* the lists of inputs, and the bases, an author may write down
  Offsets,       \* the offsets an author may ask for
  Lengths,       \* the lengths of slices
  MaxReceipts, MaxLinks

ASSUME MintAssumption ==
  /\ \A prog \in Progs :
       /\ prog.id \in Nat /\ prog.cells \in Seq({"live", "dead", "indeterminate"})
       /\ \A inputs \in DOMAIN prog.output :
            /\ inputs \in Seq(Int)
            /\ prog.output[inputs] # NoList =>
                 prog.output[inputs] \in Seq(Int) /\ Len(prog.output[inputs]) = Len(prog.cells)
  /\ RawInputs \subseteq Seq(Int) /\ Offsets \subseteq Int /\ Lengths \subseteq Int

VARIABLES
  wallet,        \* [claim, prog, careful]: what was minted; careful records that
                 \* the inputs were composed from exactly the links in it
  linked,        \* <<block, values>> of each link made for the next receipt
  composed       \* [inputs, from]: what compose_inputs returned, from which
                 \* links; or NoList

mintVars == <<wallet, linked, composed>>

Authoring == stage = "author" /\ UNCHANGED <<docs, strict, stage, at, keys, node, missing, link,
                                             taken, color, stack, order, collision, cycle>>

MintInit ==
  /\ docs = <<>> /\ strict \in BOOLEAN
  /\ stage = "author" /\ at = 1
  /\ keys = <<>> /\ node = <<>> /\ missing = {}
  /\ link = 0 /\ taken = {}
  /\ color = <<>> /\ stack = <<>> /\ order = <<>>
  /\ collision = FALSE /\ cycle = FALSE
  /\ wallet = <<>> /\ linked = <<>> /\ composed = NoList

-----------------------------------------------------------------------------

\* What verify() says of a receipt just minted: its hashes are right, so its
\* inputs' liveness decides.
Verifies(prog, strictly) ==
  IF strictly THEN prog.liveness = "live" ELSE prog.liveness \notin {"dead", "guarded"}

\* Equal claims have equal hashes, others different ones.
DigestOf(prog, inputs, links) ==
  LET same == {n \in DOMAIN wallet : /\ wallet[n].prog = prog
                                     /\ wallet[n].claim.inputs = inputs
                                     /\ wallet[n].claim.links = links}
  IN  IF same = {} THEN Len(wallet) + 1 ELSE wallet[CHOOSE n \in same : TRUE].claim.digest

\* The shape replay_receipt asks of a link; the offsets are integers.
ShapeOK(ln, n) == ln.src >= 0 /\ ln.length > 0 /\ ln.dst >= 0 /\ ln.dst + ln.length <= n

Blocks(list) == [n \in DOMAIN list |-> list[n][1]]

\* replay_receipt: what is attested is what was run.  Links are taken as they
\* are given: next to inputs composed from them, or to others.
ReplayReceipt ==
  /\ Authoring /\ Len(wallet) < MaxReceipts
  /\ \E prog \in Progs, inputs \in RawInputs \cup (IF composed = NoList THEN {} ELSE {composed.inputs}) :
       /\ inputs \in DOMAIN prog.output /\ prog.output[inputs] # NoList
       /\ \A n \in DOMAIN linked : ShapeOK(linked[n][1], Len(inputs))
       /\ wallet' = Append(wallet,
            [prog |-> prog,
             careful |-> composed # NoList /\ composed = [inputs |-> inputs, from |-> linked],
             claim |-> [id |-> prog.id, digest |-> DigestOf(prog, inputs, Blocks(linked)),
                        replay |-> TRUE, inputs |-> inputs, output |-> prog.output[inputs],
                        cells |-> prog.cells, links |-> Blocks(linked)]])
  /\ linked' = <<>> /\ composed' = NoList

LinksMade == FoldLeft(LAMBDA n, entry : n + Len(entry.claim.links), Len(linked), wallet)

\* link: the child verifies by itself, and the slice is within its output.  The
\* destination is checked by the calls that use it.
LinkTo ==
  /\ Authoring /\ LinksMade < MaxLinks /\ Len(wallet) < MaxReceipts
  /\ \E n \in DOMAIN wallet, src \in Offsets, length \in Lengths, dst \in Offsets :
       LET child == wallet[n].claim
           block == [wellFormed |-> TRUE, child |-> child.digest, src |-> src, dst |-> dst,
                     length |-> length, output |-> child.output]
       IN  /\ Verifies(wallet[n].prog, FALSE)
           /\ src >= 0 /\ length > 0 /\ src + length <= Len(child.output)
           /\ linked' = Append(linked, <<block, Slice(child.output, src, length)>>)
  /\ UNCHANGED <<wallet, composed>>

Bound(n) == Cells(linked[n][1].dst, linked[n][1].length)

InRange(size) ==
  \A n \in DOMAIN linked : linked[n][1].dst >= 0 /\ linked[n][1].dst + linked[n][1].length <= size

\* Mutant: destinations that overlap are not noticed.
PlaceableIfInRange(size) == InRange(size)

Placeable(size) ==
  /\ InRange(size)
  /\ \A m, n \in DOMAIN linked : m # n => Bound(m) \cap Bound(n) = {}

\* The last of the links that cover an input gives its value.
Placed(base) ==
  [k \in DOMAIN base |->
     LET over == {n \in DOMAIN linked : k - 1 \in Bound(n)}
         last == CHOOSE n \in over : \A m \in over : m <= n
     IN  IF over = {} THEN base[k] ELSE linked[last][2][k - linked[last][1].dst]]

ComposeInputs ==
  /\ Authoring /\ composed = NoList /\ Len(wallet) < MaxReceipts
  /\ \E base \in RawInputs :
       /\ Placeable(Len(base))
       /\ composed' = [inputs |-> Placed(base), from |-> linked]
  /\ UNCHANGED <<wallet, linked>>

-----------------------------------------------------------------------------

Document(entry) ==
  [object |-> TRUE, canonical |-> TRUE, claim |-> entry.claim,
   envelope |-> 1, verified |-> Verifies(entry.prog, strict)]

\* All that was minted, newest first, or all but the first receipt.
\* What was prepared for a receipt that is never minted is forgotten.
HandOver ==
  /\ stage = "author" /\ wallet # <<>>
  /\ \E some \in {Reverse(wallet), Tail(wallet)} :
       docs' = [n \in DOMAIN some |-> Document(some[n])]
  /\ stage' = "index"
  /\ linked' = <<>> /\ composed' = NoList
  /\ UNCHANGED <<strict, at, keys, node, missing, link, taken, color, stack, order,
                 collision, cycle, wallet>>

Author == ReplayReceipt \/ LinkTo \/ ComposeInputs \/ HandOver

ChainNext == Author \/ (Next /\ UNCHANGED mintVars)

\* Documents from anyone, or an author's.
ChainInit == \/ Init /\ wallet = <<>> /\ linked = <<>> /\ composed = NoList
             \/ MintInit

\* verify_graph, once called, runs; no author is obliged to mint or to hand over.
ChainSpec == /\ ChainInit /\ [][ChainNext]_<<vars, mintVars>>
             /\ WF_<<vars, mintVars>>(Next /\ UNCHANGED mintVars)

-----------------------------------------------------------------------------
(* Properties. *)

\* What the child of a link says of the cells the link carries.
Carried(ln) ==
  LET child == wallet[CHOOSE n \in DOMAIN wallet : wallet[n].claim.digest = ln.child].claim
  IN  {child.cells[ln.src + n] : n \in 1 .. ln.length}

\* Authoring fails where verification would (mint.py:99-101): nothing is wrong,
\* to verify_graph, with the links of a receipt whose inputs were composed from
\* them, but what link() and compose_inputs() do not look at: slices that were
\* not shown to depend on the child's inputs, and children that are not handed
\* over.  And no order of minting makes a cycle.
ComposedLinksBind ==
  stage = "done" =>
    \A n \in DOMAIN wallet :
      LET c == wallet[n].claim
          carried == {Carried(c.links[m]) : m \in DOMAIN c.links}
      IN  wallet[n].careful /\ c.digest \in Keys =>
            /\ ~cycle
            /\ node[c.digest].linksOk = "false" =>
                 \E cells \in carried : cells = {"dead"} \/ (strict /\ "live" \notin cells)
            /\ node[c.digest].linksOk = "incomplete" =>
                 \/ NamedBy(c) \cap missing # {}
                 \/ \E cells \in carried : "live" \notin cells
=============================================================================
