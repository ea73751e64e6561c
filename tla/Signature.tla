------------------------------ MODULE Signature ------------------------------
(***************************************************************************)
(* signature.check of src/obsign_verify/signature.py, on a receipt that    *)
(* its holders sign and edit in any order.  The two signature envelopes    *)
(* cover different things: v1 the claim hash alone, v2 the claim hash, the *)
(* signer's name and a hash of the metadata the signer chose to bind.  The *)
(* list `binds` that says which metadata that was is itself covered by     *)
(* nothing.                                                                *)
(*                                                                         *)
(* A receipt is its claim, the hash it states, the keys it holds outside   *)
(* the claim (env, case and the `_` keys) and its signature block; a field *)
(* of the block that is missing, null, empty or of a type the code treats  *)
(* as missing is None.  Hashing is a constructor, so that two contents     *)
(* have one hash only if they are equal, and a signature is the pair of    *)
(* the key and the message: nobody makes one without its key.              *)
(***************************************************************************)
EXTENDS Naturals, FiniteSets, Functions

CONSTANTS
  Crypto,          \* whether the `cryptography` package is installed
  Claims,
  ExtraKeys,       \* names of keys outside the claim; "case" is one
  Contents,        \* what such a key holds
  Keys, Signers,
  PublicKeyTexts,  \* spellings of public keys, and what _raw_hex reads in them
  RawKey(_),
  KeyText(_),      \* the spelling a producer writes
  None, NotAList, NoBlock, OtherAlg, OtherSpec,
  MaxActs, MaxEdits

V1 == "obsign/signature/v1"
V2 == "obsign/signature/v2"
Ed25519 == "ed25519"
ClaimKey == "params"       \* a key inside the claim, which binds may name too

Sha(content) == <<"sha256", content>>

ASSUME KeyAssumption ==
  /\ \A t \in PublicKeyTexts : RawKey(t) \in Keys \cup {None}
  /\ \A key \in Keys : KeyText(key) \in PublicKeyTexts /\ RawKey(KeyText(key)) = key

ASSUME MetadataAssumption == ClaimKey \notin ExtraKeys

\* What the two envelopes sign, and the blocks that acts of signing leave.
MessagesV1 == {Sha(c) : c \in Claims}
Hashes == {None} \cup {Sha(bound) : bound \in UNION {[names -> Contents] : names \in SUBSET ExtraKeys}}
MessagesV2 ==
  {V2} \X ({"sha256"} \X
    [spec : {V2}, alg : {Ed25519}, public_key : PublicKeyTexts,
     receipt_sha256 : MessagesV1, signer : Signers, binds_sha256 : Hashes])
IssuedBlocks ==
  [spec : {None, V1, V2}, alg : {Ed25519}, signer : Signers, public_key : PublicKeyTexts,
   binds : {None} \cup SUBSET ExtraKeys, binds_sha256 : Hashes,
   sig : Keys \X (MessagesV1 \cup MessagesV2)]

\* The token for an absent field is nothing else: no hash, key, spec, spelling,
\* signature or list of names.  No issued block is the token for none.
ASSUME TokenAssumption ==
  /\ \A names \in SUBSET (ExtraKeys \cup {ClaimKey}) :
       \A bound \in [names -> Contents \cup Claims] : Sha(bound) # None
  /\ None \notin Keys \cup {V1, V2} \cup PublicKeyTexts
  /\ None \notin Keys \X (MessagesV1 \cup MessagesV2)
  /\ \A names \in SUBSET ExtraKeys : names # None /\ names # NotAList
  /\ NotAList # None
  /\ NoBlock \notin IssuedBlocks

ASSUME BoundAssumption == Crypto \in BOOLEAN /\ MaxActs \in Nat /\ MaxEdits \in Nat

VARIABLES
  claim, stated, extra, sig,
  acts,     \* every signature ever made: what was signed, and the block written
  edits     \* the number of edits, bounded by MaxEdits

vars == <<claim, stated, extra, sig, acts, edits>>

Sign(key, message) == <<key, message>>

\* The signature no key made.
Garbage == Sign(None, None)

-----------------------------------------------------------------------------
(* canonical.integrity and signature.check.                                *)

Integrity == stated # None /\ stated = Sha(claim)

\* The receipt seen as the object whose members `binds` names.
Members == [k \in DOMAIN extra \cup {ClaimKey} |->
              IF k = ClaimKey THEN claim ELSE extra[k]]

\* Mutant: an empty selection is hashed like any other.
BindsHashOfEmpty(names) == Sha(Restrict(Members, names \cap DOMAIN Members))

BindsHash(names) ==
  LET bound == names \cap DOMAIN Members
  IN  IF bound = {} THEN None ELSE Sha(Restrict(Members, bound))

Evaluated == sig # NoBlock /\ Integrity /\ sig.alg = Ed25519

\* Mutant: a spec nobody knows is read as v1.
AnySpec == TRUE

KnownSpec == sig.spec \in {None, V1, V2}

Unsupported == Evaluated /\ ~KnownSpec

Read == Evaluated /\ KnownSpec /\ sig.sig # None /\ sig.public_key # None

\* _ed25519_ok
Verifies(message) ==
  /\ Crypto
  /\ RawKey(sig.public_key) # None
  /\ sig.sig = Sign(RawKey(sig.public_key), message)

Covered == [spec |-> sig.spec, alg |-> sig.alg, public_key |-> sig.public_key,
            receipt_sha256 |-> stated, signer |-> sig.signer,
            binds_sha256 |-> sig.binds_sha256]

\* Mutant: the v2 message without its domain tag.
BareMessage == Sha(Covered)

MessageV2 == <<V2, Sha(Covered)>>

Binds == IF sig.binds = None THEN {} ELSE sig.binds

\* Mutant: the bound metadata is looked at only if `binds` says there is some.
BindsHoldIfListed ==
  /\ sig.binds # NotAList
  /\ Binds # {} => Binds \subseteq DOMAIN Members /\ BindsHash(Binds) = sig.binds_sha256

\* Mutant: the names are looked up and nothing is recomputed.
BindsHoldByName ==
  /\ sig.binds # NotAList
  /\ Binds \subseteq DOMAIN Members

BindsHold ==
  /\ sig.binds # NotAList
  /\ Binds \subseteq DOMAIN Members
  /\ BindsHash(Binds) = sig.binds_sha256

ValidV2 == Read /\ sig.spec = V2 /\ Verifies(MessageV2) /\ BindsHold

ReadAsV1 == Read /\ sig.spec # V2

ValidV1 == ReadAsV1 /\ Verifies(stated)

\* Mutant: only `case` counts as metadata.
CaseOnly(bound) == ({"case"} \cap DOMAIN extra) \ bound

\* unattested_keys
Unattested(bound) == DOMAIN extra \ bound

Report ==
  [valid |-> ValidV1 \/ ValidV2,
   unsupported |-> Unsupported,
   identity_bound |-> ValidV2,
   attributed_signer |-> IF ValidV2 THEN sig.signer ELSE None,
   bound_metadata |-> IF ValidV2 THEN Binds ELSE {},
   unattested_metadata |-> IF ValidV2 THEN Unattested(Binds)
                           ELSE IF ReadAsV1 THEN Unattested({}) ELSE {}]

-----------------------------------------------------------------------------
(* Signing, as the producers whose receipts this verifier reads do it.     *)

Init ==
  /\ claim \in Claims /\ stated = Sha(claim)
  /\ extra \in UNION {[ks -> Contents] : ks \in SUBSET ExtraKeys}
  /\ sig = NoBlock
  /\ acts = {}
  /\ edits = 0

\* One act of signing: the signer's key, what it covers, and the block left in
\* the receipt.
Act(version, key, signer, names, block) ==
  [version |-> version, key |-> key, signer |-> signer, claim |-> claim,
   bound |-> Restrict(Members, names), block |-> block]

Issue(act) ==
  /\ Integrity
  /\ Cardinality(acts) < MaxActs
  /\ acts' = acts \cup {act}
  /\ sig' = act.block
  /\ UNCHANGED <<claim, stated, extra, edits>>

\* A v1 block carries a name and does not cover it; some omit their spec.
SignV1(key, signer, spec) ==
  Issue(Act(V1, key, signer, {},
    [spec |-> spec, alg |-> Ed25519, signer |-> signer, public_key |-> KeyText(key),
     binds |-> None, binds_sha256 |-> None, sig |-> Sign(key, stated)]))

\* A v2 block lists the names it binds among those the receipt has.
SignV2(key, signer, names) ==
  LET hash == IF names = {} THEN None ELSE Sha(Restrict(Members, names))
      covered == [spec |-> V2, alg |-> Ed25519, public_key |-> KeyText(key),
                  receipt_sha256 |-> stated, signer |-> signer, binds_sha256 |-> hash]
  IN  Issue(Act(V2, key, signer, names,
        [spec |-> V2, alg |-> Ed25519, signer |-> signer, public_key |-> KeyText(key),
         binds |-> names, binds_sha256 |-> hash, sig |-> Sign(key, <<V2, Sha(covered)>>)]))

Signing ==
  \E key \in Keys, signer \in Signers :
    \/ \E spec \in {None, V1} : SignV1(key, signer, spec)
    \/ \E names \in SUBSET DOMAIN extra : SignV2(key, signer, names)

-----------------------------------------------------------------------------
(* Editing, by whoever holds the file.                                     *)

Edit ==
  /\ edits < MaxEdits
  /\ edits' = edits + 1
  /\ UNCHANGED acts

\* Rewrite the claim, and the hash it states or not.
EditClaim ==
  /\ Edit
  /\ claim' \in Claims \ {claim}
  /\ stated' \in {stated, Sha(claim')}
  /\ UNCHANGED <<extra, sig>>

DropHash == Edit /\ stated' = None /\ UNCHANGED <<claim, extra, sig>>

\* Write, rewrite or remove a key outside the claim.
EditExtra ==
  /\ Edit
  /\ \E k \in ExtraKeys :
       \/ \E v \in Contents : extra' = [n \in DOMAIN extra \cup {k} |->
                                          IF n = k THEN v ELSE extra[n]]
       \/ extra' = Restrict(extra, DOMAIN extra \ {k})
  /\ extra' # extra
  /\ UNCHANGED <<claim, stated, sig>>

Signatures == {act.block.sig : act \in acts}

\* Rewrite one field of the block.
EditBlock ==
  /\ Edit
  /\ sig # NoBlock
  /\ \/ \E v \in {None, V1, V2, OtherSpec} : sig' = [sig EXCEPT !.spec = v]
     \/ \E v \in {None, OtherAlg} : sig' = [sig EXCEPT !.alg = v]
     \/ \E v \in Signers \cup {None} : sig' = [sig EXCEPT !.signer = v]
     \/ \E v \in PublicKeyTexts \cup {None} : sig' = [sig EXCEPT !.public_key = v]
     \/ \E v \in {None, NotAList} \cup SUBSET (ExtraKeys \cup {ClaimKey}) :
          sig' = [sig EXCEPT !.binds = v]
     \/ \E v \in {BindsHash(names) : names \in SUBSET DOMAIN Members} :
          sig' = [sig EXCEPT !.binds_sha256 = v]
     \/ \E v \in Signatures \cup {Garbage, None} : sig' = [sig EXCEPT !.sig = v]
  /\ sig' # sig
  /\ UNCHANGED <<claim, stated, extra>>

\* Remove the block, or put another one that was issued in its place.
EditSignature ==
  /\ Edit
  /\ sig' \in {act.block : act \in acts} \cup {NoBlock}
  /\ sig' # sig
  /\ UNCHANGED <<claim, stated, extra>>

Next == Signing \/ EditClaim \/ DropHash \/ EditExtra \/ EditBlock \/ EditSignature

Spec == Init /\ [][Next]_vars

-----------------------------------------------------------------------------
(* What a report may say.                                                  *)

Partial(S, T) == UNION {[D -> T] : D \in SUBSET S}

BlockFields == {"spec", "alg", "signer", "public_key", "binds", "binds_sha256", "sig"}

\* The hash of an empty selection does not exist: a signature that binds
\* nothing and one whose bound block is gone stay different.
BlockOK(block) ==
  /\ block = [f \in BlockFields |-> block[f]]
  /\ block.binds \in {None, NotAList} \cup SUBSET (ExtraKeys \cup {ClaimKey})
  /\ block.binds_sha256 # None => DOMAIN block.binds_sha256[2] # {}
  /\ block.sig \in Signatures \cup {Garbage, None}

\* A receipt states a hash or none, its keys hold contents, and every block in
\* it or ever issued has the shape above.
TypeOK ==
  /\ claim \in Claims /\ stated \in {None} \cup {Sha(c) : c \in Claims}
  /\ extra \in Partial(ExtraKeys, Contents)
  /\ sig = NoBlock \/ BlockOK(sig)
  /\ \A act \in acts : act.claim \in Claims /\ act.key \in Keys /\ BlockOK(act.block)
  /\ edits \in 0 .. MaxEdits

\* A report attributes the receipt to a signer and calls metadata bound only if
\* the holder of the block's key signed that name, this claim and exactly that
\* metadata with its present contents, in one act (signature.py:3-13).
AttributedToItsSigner ==
  Report.identity_bound =>
    \E act \in acts :
      /\ act.version = V2 /\ act.key = RawKey(sig.public_key)
      /\ act.signer = Report.attributed_signer
      /\ act.claim = claim
      /\ act.bound = Restrict(Members, Report.bound_metadata)

\* A signature is valid only if the holder of the key signed this claim under
\* the envelope the block names, an absent name standing for v1: nothing is
\* read as an older or a newer envelope than it was made under
\* (signature.py:31-37, 55-58).
ValidUnderItsOwnSpec ==
  Report.valid =>
    \E act \in acts :
      /\ act.key = RawKey(sig.public_key) /\ act.claim = claim
      /\ act.version = IF sig.spec = None THEN V1 ELSE sig.spec

\* While the claim and the metadata it bound stand as they did, an issued block
\* is valid, and attributes its signer if it is v2: nothing done to the rest of
\* the file takes that away (signature.py:5-9, 78-83).
GenuineStaysValid ==
  \A act \in acts :
    ( /\ Crypto /\ sig = act.block /\ Integrity /\ claim = act.claim
      /\ \A k \in DOMAIN act.bound : k \in DOMAIN Members /\ Members[k] = act.bound[k] )
    => /\ Report.valid
       /\ Report.identity_bound = (act.version = V2)
       /\ act.version = V2 => /\ Report.attributed_signer = act.signer
                              /\ Report.bound_metadata = DOMAIN act.bound

\* Under a valid signature every key outside the claim is either vouched for by
\* an act that bound its present contents, or named as unattested; none is
\* presented without one or the other (signature.py:91-107).
EveryFactIsAccountedFor ==
  Report.valid =>
    \A k \in DOMAIN extra \ Report.unattested_metadata :
      \E act \in acts :
        /\ act.version = V2 /\ act.block.sig = sig.sig
        /\ k \in DOMAIN act.bound /\ act.bound[k] = extra[k]

\* No step that leaves the block alone and changes something it binds leaves
\* it valid (signature.py:285-288).
BoundIsFrozen ==
  [][ (/\ Report.identity_bound /\ sig' = sig
       /\ Restrict(Members', Report.bound_metadata \cap DOMAIN Members')
          # Restrict(Members, Report.bound_metadata))
      => ~Report'.valid ]_vars

=============================================================================
