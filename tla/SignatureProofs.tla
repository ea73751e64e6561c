--------------------------- MODULE SignatureProofs ---------------------------
(***************************************************************************)
(* For any claims, keys, signers and metadata, after any number of acts of *)
(* signing and of edits: what a report attributes was signed, in one act,  *)
(* by the key named, and what it presents as bound is what was bound.      *)
(***************************************************************************)
EXTENDS Signature, TLAPS

MemberNames == ExtraKeys \cup {ClaimKey}

HashOf(bound) == IF DOMAIN bound = {} THEN None ELSE Sha(bound)

CoveredBy(act) ==
  [spec |-> V2, alg |-> Ed25519, public_key |-> KeyText(act.key),
   receipt_sha256 |-> Sha(act.claim), signer |-> act.signer,
   binds_sha256 |-> HashOf(act.bound)]

\* What the signature of an act is a signature of.
Genuine(act) ==
  /\ act.version \in {V1, V2}
  /\ act.bound \in Partial(MemberNames, Contents \cup Claims)
  /\ act.version = V1 => act.block.sig = Sign(act.key, Sha(act.claim))
  /\ act.version = V2 => act.block.sig = Sign(act.key, <<V2, Sha(CoveredBy(act))>>)

\* The inductive invariant: the types, and that every signature there is was made
\* by an act over what that act says.
IInv == TypeOK /\ \A act \in acts : Genuine(act)

\* The members of a receipt are contents, by name.
LEMMA MembersAreContents ==
  ASSUME TypeOK
  PROVE  /\ DOMAIN extra \subseteq ExtraKeys /\ \A k \in DOMAIN extra : extra[k] \in Contents
         /\ DOMAIN Members = DOMAIN extra \cup {ClaimKey}
         /\ \A k \in DOMAIN Members : Members[k] \in Contents \cup Claims
         /\ \A k \in DOMAIN extra : Members[k] = extra[k]
<1>1. PICK D \in SUBSET ExtraKeys : extra \in [D -> Contents]
  BY DEF TypeOK, Partial
<1>2. DOMAIN extra \subseteq ExtraKeys /\ \A k \in DOMAIN extra : extra[k] \in Contents
  BY <1>1
<1> QED BY <1>2, MetadataAssumption DEF Members, TypeOK

\* What is bound has a hash, and nothing bound has none.
LEMMA BindsHashOfMembers ==
  ASSUME TypeOK, NEW names, names \subseteq DOMAIN Members
  PROVE  /\ BindsHash(names) = HashOf(Restrict(Members, names))
         /\ names # {} => /\ BindsHash(names) = Sha(Restrict(Members, names))
                          /\ BindsHash(names) # None
<1>1. DOMAIN Restrict(Members, names) = names /\ names \cap DOMAIN Members = names
  BY DEF Restrict
<1>2. names \in SUBSET (ExtraKeys \cup {ClaimKey})
  BY MembersAreContents
<1>3. Restrict(Members, names) \in [names -> Contents \cup Claims]
  BY MembersAreContents DEF Restrict
<1>4. Sha(Restrict(Members, names)) # None
  BY <1>2, <1>3, TokenAssumption
<1> QED BY <1>1, <1>4 DEF BindsHash, HashOf

\* The initial receipt is unsigned.
LEMMA InitIInv == Init => IInv
BY BoundAssumption DEF Init, IInv, TypeOK, Partial

\* An act of signing is over what it records, and leaves the block it records.
LEMMA SigningKeepsIInv ==
  ASSUME IInv, Signing
  PROVE  IInv'
<1>1. PICK key \in Keys, signer \in Signers :
        \/ \E spec \in {None, V1} : SignV1(key, signer, spec)
        \/ \E names \in SUBSET DOMAIN extra : SignV2(key, signer, names)
  BY DEF Signing
<1>2. ASSUME NEW act, Issue(act), Genuine(act), act.claim = claim, act.key \in Keys,
             act.block = [f \in BlockFields |-> act.block[f]],
             act.block.binds \in {None, NotAList} \cup SUBSET MemberNames,
             act.block.binds_sha256 # None => DOMAIN act.block.binds_sha256[2] # {}
      PROVE  IInv'
  <2>1. /\ acts' = acts \cup {act} /\ sig' = act.block
        /\ UNCHANGED <<claim, stated, extra, edits>>
    BY <1>2 DEF Issue
  <2>2. Signatures \subseteq Signatures' /\ act.block.sig \in Signatures'
    BY <2>1 DEF Signatures
  <2>3. BlockOK(act.block)'
    BY <1>2, <2>2 DEF BlockOK, MemberNames
  <2>4. ASSUME NEW block, BlockOK(block) PROVE BlockOK(block)'
    BY <2>2, <2>4 DEF BlockOK
  <2>5. \A a \in acts : BlockOK(a.block)'
    BY <2>4 DEF IInv, TypeOK
  <2>6. TypeOK'
    BY <1>2, <2>1, <2>3, <2>5 DEF IInv, TypeOK
  <2>7. \A a \in acts' : Genuine(a)
    BY <1>2, <2>1 DEF IInv
  <2> QED BY <2>6, <2>7 DEF IInv, Genuine
<1>3. ASSUME NEW spec \in {None, V1}, SignV1(key, signer, spec)
      PROVE  IInv'
  <2> DEFINE block == [spec |-> spec, alg |-> Ed25519, signer |-> signer,
                       public_key |-> KeyText(key), binds |-> None,
                       binds_sha256 |-> None, sig |-> Sign(key, stated)]
             act == Act(V1, key, signer, {}, block)
  <2>1. Issue(act) /\ stated = Sha(claim)
    BY <1>3 DEF SignV1, Issue, Integrity
  <2>2. /\ act.version = V1 /\ act.claim = claim /\ act.key = key /\ act.block = block
        /\ act.bound = Restrict(Members, {})
    BY DEF Act
  <2>3. Genuine(act)
    <3>1. act.bound \in [{} -> Contents \cup Claims]
      BY <2>2 DEF Restrict
    <3> QED BY <2>1, <2>2, <3>1 DEF Genuine, Partial, V1, V2
  <2>4. block = [f \in BlockFields |-> block[f]]
    BY DEF BlockFields
  <2> HIDE DEF act
  <2> QED BY <1>2, <2>1, <2>2, <2>3, <2>4
<1>4. ASSUME NEW names \in SUBSET DOMAIN extra, SignV2(key, signer, names)
      PROVE  IInv'
  <2> DEFINE hash == IF names = {} THEN None ELSE Sha(Restrict(Members, names))
             covered == [spec |-> V2, alg |-> Ed25519, public_key |-> KeyText(key),
                         receipt_sha256 |-> stated, signer |-> signer,
                         binds_sha256 |-> hash]
             block == [spec |-> V2, alg |-> Ed25519, signer |-> signer,
                       public_key |-> KeyText(key), binds |-> names,
                       binds_sha256 |-> hash, sig |-> Sign(key, <<V2, Sha(covered)>>)]
             act == Act(V2, key, signer, names, block)
  <2>1. Issue(act) /\ stated = Sha(claim)
    BY <1>4 DEF SignV2, Issue, Integrity
  <2>2. /\ act.version = V2 /\ act.claim = claim /\ act.key = key /\ act.block = block
        /\ act.bound = Restrict(Members, names) /\ act.signer = signer
    BY DEF Act
  <2>3. DOMAIN Restrict(Members, names) = names
    BY DEF Restrict
  <2>4. hash = HashOf(act.bound)
    BY <2>2, <2>3 DEF HashOf
  <2>5. CoveredBy(act) = covered
    BY <2>1, <2>2, <2>4 DEF CoveredBy
  <2>6. Genuine(act)
    <3>1. act.bound \in [names -> Contents \cup Claims] /\ names \in SUBSET MemberNames
      BY <2>2, MembersAreContents DEF Restrict, IInv, MemberNames
    <3> QED BY <2>2, <2>5, <3>1 DEF Genuine, Partial, V1, V2
  <2>7. block = [f \in BlockFields |-> block[f]]
    BY DEF BlockFields
  <2>8. names \in SUBSET MemberNames
    BY MembersAreContents DEF IInv, MemberNames
  <2>9. hash # None => DOMAIN hash[2] # {}
    BY <2>3 DEF Sha
  <2>10. /\ block.binds = names /\ block.binds_sha256 = hash
    OBVIOUS
  <2> HIDE DEF act, block, hash
  <2> QED BY <1>2, <2>1, <2>2, <2>6, <2>7, <2>8, <2>9, <2>10
<1> QED BY <1>1, <1>3, <1>4

\* Edits reuse signatures; they make none.
LEMMA EditKeepsIInv ==
  ASSUME IInv, EditClaim \/ DropHash \/ EditExtra \/ EditBlock \/ EditSignature
  PROVE  IInv'
<1>1. acts' = acts /\ edits' \in 0 .. MaxEdits
  BY BoundAssumption DEF IInv, TypeOK, EditClaim, DropHash, EditExtra, EditBlock, EditSignature, Edit
<1>2. Signatures' = Signatures
  BY <1>1 DEF Signatures
<1>3. ASSUME NEW block PROVE BlockOK(block)' = BlockOK(block)
  BY <1>2 DEF BlockOK
<1>4. \A act \in acts' : act.claim \in Claims /\ act.key \in Keys /\ BlockOK(act.block)' /\ Genuine(act)
  BY <1>1, <1>3 DEF IInv, TypeOK
<1>5. claim' \in Claims /\ stated' \in {None} \cup {Sha(c) : c \in Claims}
  BY DEF IInv, TypeOK, EditClaim, DropHash, EditExtra, EditBlock, EditSignature
<1>6. extra' \in Partial(ExtraKeys, Contents)
  <2>1. CASE EditExtra
    <3>1. PICK k \in ExtraKeys :
            \/ \E v \in Contents : extra' = [m \in DOMAIN extra \cup {k} |->
                                               IF m = k THEN v ELSE extra[m]]
            \/ extra' = Restrict(extra, DOMAIN extra \ {k})
      BY <2>1 DEF EditExtra
    <3>2. DOMAIN extra \subseteq ExtraKeys /\ \A m \in DOMAIN extra : extra[m] \in Contents
      BY MembersAreContents DEF IInv
    <3>3. \E D \in SUBSET ExtraKeys : extra' \in [D -> Contents]
      <4>1. ASSUME NEW v \in Contents,
                   extra' = [m \in DOMAIN extra \cup {k} |-> IF m = k THEN v ELSE extra[m]]
            PROVE  extra' \in [DOMAIN extra \cup {k} -> Contents]
        BY <3>2, <4>1
      <4>2. ASSUME extra' = Restrict(extra, DOMAIN extra \ {k})
            PROVE  extra' \in [DOMAIN extra \ {k} -> Contents]
        BY <3>2, <4>2 DEF Restrict
      <4>3. (DOMAIN extra \cup {k}) \in SUBSET ExtraKeys /\ (DOMAIN extra \ {k}) \in SUBSET ExtraKeys
        BY <3>2
      <4> QED BY <3>1, <4>1, <4>2, <4>3
    <3> QED BY <3>3 DEF Partial
  <2>2. CASE ~EditExtra
    BY <2>2 DEF IInv, TypeOK, EditClaim, DropHash, EditBlock, EditSignature
  <2> QED BY <2>1, <2>2
<1>7. sig' = NoBlock \/ BlockOK(sig')
  <2>1. CASE EditBlock
    <3>1. BlockOK(sig)
      BY <2>1 DEF EditBlock, IInv, TypeOK
    <3>2. PICK f \in BlockFields : \E v :
            /\ sig' = [sig EXCEPT ![f] = v]
            /\ f = "binds" => v \in {None, NotAList} \cup SUBSET MemberNames
            /\ f = "binds_sha256" => \E names : v = BindsHash(names)
            /\ f = "sig" => v \in Signatures \cup {Garbage, None}
      BY <2>1 DEF EditBlock, BlockFields, MemberNames
    <3>2a. PICK v :
            /\ sig' = [sig EXCEPT ![f] = v]
            /\ f = "binds" => v \in {None, NotAList} \cup SUBSET MemberNames
            /\ f = "binds_sha256" => \E names : v = BindsHash(names)
            /\ f = "sig" => v \in Signatures \cup {Garbage, None}
      BY <3>2
    <3>3. /\ sig' = [g \in BlockFields |-> sig'[g]]
          /\ \A g \in BlockFields : sig'[g] = IF g = f THEN v ELSE sig[g]
      BY <3>1, <3>2a DEF BlockOK
    <3>4. \A names : BindsHash(names) # None => DOMAIN BindsHash(names)[2] # {}
      BY DEF BindsHash, Sha, Restrict
    <3>5. /\ sig'.binds \in {None, NotAList} \cup SUBSET MemberNames
          /\ sig'.sig \in Signatures \cup {Garbage, None}
      <4>1. {"binds", "sig"} \subseteq BlockFields
        BY DEF BlockFields
      <4>2. /\ sig'["binds"] = IF f = "binds" THEN v ELSE sig["binds"]
            /\ sig'["sig"] = IF f = "sig" THEN v ELSE sig["sig"]
        BY <3>3, <4>1
      <4>3. /\ sig["binds"] \in {None, NotAList} \cup SUBSET MemberNames
            /\ sig["sig"] \in Signatures \cup {Garbage, None}
        BY <3>1 DEF BlockOK, MemberNames
      <4>4. sig'["binds"] \in {None, NotAList} \cup SUBSET MemberNames
        BY <3>2a, <4>2, <4>3
      <4>5. sig'["sig"] \in Signatures \cup {Garbage, None}
        BY <3>2a, <4>2, <4>3
      <4> QED BY <4>4, <4>5
    <3>6. sig'.binds_sha256 # None => DOMAIN sig'.binds_sha256[2] # {}
      <4>1. sig'["binds_sha256"] = IF f = "binds_sha256" THEN v ELSE sig["binds_sha256"]
        BY <3>3 DEF BlockFields
      <4>2. sig["binds_sha256"] # None => DOMAIN sig["binds_sha256"][2] # {}
        BY <3>1 DEF BlockOK
      <4>3. CASE f = "binds_sha256"
        <5>1. PICK names : sig'["binds_sha256"] = BindsHash(names)
          BY <3>2a, <4>1, <4>3
        <5> QED BY <3>4, <5>1
      <4>4. CASE f # "binds_sha256"
        BY <4>1, <4>2, <4>4
      <4> QED BY <4>3, <4>4
    <3> QED BY <3>3, <3>5, <3>6 DEF BlockOK, MemberNames
  <2>2. CASE EditSignature
    BY <2>2 DEF EditSignature, IInv, TypeOK
  <2>3. CASE ~EditBlock /\ ~EditSignature
    BY <2>3 DEF IInv, TypeOK, EditClaim, DropHash, EditExtra
  <2> QED BY <2>1, <2>2, <2>3
<1>8. TypeOK'
  BY <1>1, <1>2, <1>4, <1>5, <1>6, <1>7 DEF TypeOK, BlockOK
<1> QED BY <1>4, <1>8 DEF IInv, Genuine

\* The inductive invariant holds of every behaviour.
THEOREM Invariance == Spec => []IInv
<1>1. IInv /\ [Next]_vars => IInv'
  <2> SUFFICES ASSUME IInv, [Next]_vars PROVE IInv'
    OBVIOUS
  <2>1. CASE UNCHANGED vars
    BY <2>1 DEF vars, IInv, TypeOK, Genuine, BlockOK, Signatures
  <2> QED BY <2>1, SigningKeepsIInv, EditKeepsIInv DEF Next
<1> QED BY <1>1, InitIInv, PTL DEF Spec

\* The receipt's parts keep their types under any number of acts and edits.
THEOREM TypeCorrectness == Spec => []TypeOK
BY Invariance, PTL DEF IInv

\* What a signature that verifies was made over: nobody signs with a key but its
\* holder, and the two envelopes never sign the same bytes.
LEMMA VerifiedSignatureIsAnAct ==
  ASSUME IInv, Read, NEW message, Verifies(message)
  PROVE  \E act \in acts :
           /\ act.block.sig = sig.sig /\ act.key = RawKey(sig.public_key)
           /\ act.version \in {V1, V2}
           /\ act.version = V1 => message = Sha(act.claim)
           /\ act.version = V2 => message = <<V2, Sha(CoveredBy(act))>>
<1>1. /\ sig.sig = <<RawKey(sig.public_key), message>>
      /\ RawKey(sig.public_key) # None
  BY DEF Verifies, Sign
<1>2. sig.sig \in Signatures
  <2>1. sig.sig \in Signatures \cup {Garbage, None}
    BY DEF IInv, TypeOK, BlockOK, Read, Evaluated
  <2>2. sig.sig # Garbage /\ sig.sig # None
    BY <1>1 DEF Garbage, Sign, Read
  <2> QED BY <2>1, <2>2
<1>3. PICK act \in acts : act.block.sig = sig.sig
  BY <1>2 DEF Signatures
<1>4. Genuine(act)
  BY DEF IInv
<1>5. act.version = V1 => act.key = RawKey(sig.public_key) /\ message = Sha(act.claim)
  BY <1>1, <1>3, <1>4 DEF Genuine, Sign
<1>6. act.version = V2 => act.key = RawKey(sig.public_key) /\ message = <<V2, Sha(CoveredBy(act))>>
  BY <1>1, <1>3, <1>4 DEF Genuine, Sign
<1> QED BY <1>3, <1>4, <1>5, <1>6 DEF Genuine

\* A function is its restriction to its domain, and is empty if its domain is.
LEMMA HashOfDetermines ==
  ASSUME TypeOK, NEW names, names \subseteq DOMAIN Members,
         NEW bound \in Partial(MemberNames, Contents \cup Claims),
         BindsHash(names) = HashOf(bound)
  PROVE  bound = Restrict(Members, names)
<1>1. /\ bound = [k \in DOMAIN bound |-> bound[k]]
      /\ DOMAIN bound # {} => HashOf(bound) = Sha(bound) /\ Sha(bound) # None
  <2>1. PICK D \in SUBSET MemberNames : bound \in [D -> Contents \cup Claims]
    BY DEF Partial
  <2>2. Sha(bound) # None
    BY <2>1, TokenAssumption DEF MemberNames
  <2> QED BY <2>1, <2>2 DEF HashOf
<1>2. CASE names = {}
  <2>1. BindsHash(names) = None
    BY <1>2 DEF BindsHash
  <2>2. DOMAIN bound = {}
    BY <1>1, <2>1
  <2> QED BY <1>1, <1>2, <2>2 DEF Restrict
<1>3. CASE names # {}
  <2>1. BindsHash(names) = Sha(Restrict(Members, names)) /\ BindsHash(names) # None
    BY <1>3, BindsHashOfMembers
  <2>2. HashOf(bound) = Sha(bound)
    BY <2>1 DEF HashOf
  <2>3. Sha(Restrict(Members, names))[2] = Restrict(Members, names) /\ Sha(bound)[2] = bound
    BY DEF Sha
  <2> QED BY <2>1, <2>2, <2>3
<1> QED BY <1>2, <1>3

\* A valid v2 block is that of an act over this name, claim and metadata.
LEMMA ValidV2IsAnAct ==
  ASSUME IInv, ValidV2
  PROVE  \E act \in acts :
           /\ act.version = V2 /\ act.key = RawKey(sig.public_key)
           /\ act.block.sig = sig.sig
           /\ act.signer = sig.signer /\ act.claim = claim
           /\ act.bound = Restrict(Members, Binds)
<1>1. PICK act \in acts :
        /\ act.block.sig = sig.sig /\ act.key = RawKey(sig.public_key)
        /\ act.version \in {V1, V2}
        /\ act.version = V1 => MessageV2 = Sha(act.claim)
        /\ act.version = V2 => MessageV2 = <<V2, Sha(CoveredBy(act))>>
  BY VerifiedSignatureIsAnAct DEF ValidV2
<1>2. act.version = V2 /\ MessageV2 = <<V2, Sha(CoveredBy(act))>>
  <2>1. \A c : MessageV2 # Sha(c)
    BY DEF MessageV2, Sha, V2
  <2> QED BY <1>1, <2>1
<1>3. Covered = CoveredBy(act)
  <2>1. MessageV2[2] = Sha(CoveredBy(act)) /\ MessageV2[2] = Sha(Covered)
    BY <1>2 DEF MessageV2
  <2>2. Sha(Covered)[2] = Covered /\ Sha(CoveredBy(act))[2] = CoveredBy(act)
    BY DEF Sha
  <2> QED BY <2>1, <2>2
<1>4. /\ stated = Sha(act.claim) /\ sig.signer = act.signer
      /\ sig.binds_sha256 = HashOf(act.bound)
  <2>1. /\ Covered.receipt_sha256 = stated /\ Covered.signer = sig.signer
        /\ Covered.binds_sha256 = sig.binds_sha256
    BY DEF Covered
  <2>2. /\ CoveredBy(act).receipt_sha256 = Sha(act.claim)
        /\ CoveredBy(act).signer = act.signer
        /\ CoveredBy(act).binds_sha256 = HashOf(act.bound)
    BY DEF CoveredBy
  <2> QED BY <1>3, <2>1, <2>2
<1>5. act.claim = claim
  <2>1. Sha(claim) = Sha(act.claim)
    BY <1>4 DEF ValidV2, Read, Evaluated, Integrity
  <2>2. Sha(claim)[2] = claim /\ Sha(act.claim)[2] = act.claim
    BY DEF Sha
  <2> QED BY <2>1, <2>2
<1>6. act.bound = Restrict(Members, Binds)
  <2>1. Binds \subseteq DOMAIN Members /\ BindsHash(Binds) = HashOf(act.bound)
    BY <1>4 DEF ValidV2, BindsHold
  <2>2. act.bound \in Partial(MemberNames, Contents \cup Claims)
    BY DEF IInv, Genuine
  <2> QED BY <2>1, <2>2, HashOfDetermines DEF IInv
<1> QED BY <1>1, <1>2, <1>4, <1>5, <1>6

\* A valid v1 block is that of a v1 act over this claim.
LEMMA ValidV1IsAnAct ==
  ASSUME IInv, ValidV1
  PROVE  \E act \in acts :
           act.version = V1 /\ act.key = RawKey(sig.public_key) /\ act.claim = claim
<1>1. PICK act \in acts :
        /\ act.key = RawKey(sig.public_key) /\ act.version \in {V1, V2}
        /\ act.version = V1 => stated = Sha(act.claim)
        /\ act.version = V2 => stated = <<V2, Sha(CoveredBy(act))>>
  BY VerifiedSignatureIsAnAct DEF ValidV1, ReadAsV1
<1>2. stated = Sha(claim)
  BY DEF ValidV1, ReadAsV1, Read, Evaluated, Integrity
<1>3. \A c : stated # <<V2, c>>
  BY <1>2 DEF Sha, V2
<1>4. Sha(claim)[2] = claim /\ Sha(act.claim)[2] = act.claim
  BY DEF Sha
<1> QED BY <1>1, <1>2, <1>3, <1>4

\* Whatever was signed and edited, a name is attributed and metadata called bound
\* only if the key's holder signed that name, this claim and that metadata as it
\* stands, in one act (signature.py:266-333).
THEOREM AttributionIsGenuine == Spec => []AttributedToItsSigner
<1>1. IInv => AttributedToItsSigner
  <2> SUFFICES ASSUME IInv, Report.identity_bound PROVE AttributedToItsSigner
    BY DEF AttributedToItsSigner
  <2>1. ValidV2 /\ Report.attributed_signer = sig.signer /\ Report.bound_metadata = Binds
    BY DEF Report
  <2> QED BY <2>1, ValidV2IsAnAct DEF AttributedToItsSigner
<1> QED BY <1>1, Invariance, PTL

\* A valid block is read under the spec it was signed under, and over the claim
\* it was signed over: a v1 signature is never promoted, and no later envelope is
\* read as v1 (signature.py:236-240).
THEOREM NoEnvelopeIsMistaken == Spec => []ValidUnderItsOwnSpec
<1>1. IInv => ValidUnderItsOwnSpec
  <2> SUFFICES ASSUME IInv, Report.valid PROVE ValidUnderItsOwnSpec
    BY DEF ValidUnderItsOwnSpec
  <2>1. CASE ValidV2
    <3>1. sig.spec = V2 /\ V2 # None
      BY <2>1, TokenAssumption DEF ValidV2
    <3> QED BY <2>1, <3>1, ValidV2IsAnAct DEF ValidUnderItsOwnSpec
  <2>2. CASE ValidV1
    <3>1. sig.spec \in {None, V1}
      BY <2>2 DEF ValidV1, ReadAsV1, Read, KnownSpec
    <3> QED BY <2>2, <3>1, ValidV1IsAnAct DEF ValidUnderItsOwnSpec
  <2> QED BY <2>1, <2>2 DEF Report
<1> QED BY <1>1, Invariance, PTL

\* Under a valid signature, what a report does not name as unattested was bound,
\* as it stands, by an act that left this very signature (signature.py:91-111).
THEOREM NothingIsPassedOver == Spec => []EveryFactIsAccountedFor
<1>1. IInv => EveryFactIsAccountedFor
  <2> SUFFICES ASSUME IInv, Report.valid,
                      NEW k \in DOMAIN extra \ Report.unattested_metadata
               PROVE  \E act \in acts :
                        /\ act.version = V2 /\ act.block.sig = sig.sig
                        /\ k \in DOMAIN act.bound /\ act.bound[k] = extra[k]
    BY DEF EveryFactIsAccountedFor
  <2>1. ValidV2 /\ k \in Binds
    BY DEF Report, Unattested, ValidV1
  <2>2. k \in DOMAIN Members /\ Members[k] = extra[k]
    BY MembersAreContents DEF IInv
  <2>3. k \in DOMAIN Restrict(Members, Binds) /\ Restrict(Members, Binds)[k] = extra[k]
    BY <2>1, <2>2 DEF Restrict
  <2> QED BY <2>1, <2>3, ValidV2IsAnAct
<1> QED BY <1>1, Invariance, PTL

-----------------------------------------------------------------------------
(* What becomes of a block that was issued. *)

\* What an act leaves in the receipt besides its signature.
Issued(act) ==
  /\ act.block \in IssuedBlocks
  /\ act.key \in Keys /\ act.block.public_key = KeyText(act.key)
  /\ act.version = V1 => act.block.spec \in {None, V1}
  /\ act.version = V2 => /\ act.block.spec = V2 /\ act.block.signer = act.signer
                         /\ act.block.binds = DOMAIN act.bound
                         /\ DOMAIN act.bound \in SUBSET ExtraKeys
                         /\ act.block.binds_sha256 = HashOf(act.bound)

AllIssued == \A act \in acts : Issued(act)

\* The block of a v1 act.
LEMMA SignV1Issues ==
  ASSUME IInv, NEW key \in Keys, NEW signer \in Signers, NEW spec \in {None, V1},
         SignV1(key, signer, spec), AllIssued
  PROVE  AllIssued'
<1> DEFINE block == [spec |-> spec, alg |-> Ed25519, signer |-> signer,
                     public_key |-> KeyText(key), binds |-> None,
                     binds_sha256 |-> None, sig |-> Sign(key, stated)]
           act == Act(V1, key, signer, {}, block)
<1>1. acts' = acts \cup {act} /\ stated = Sha(claim)
  BY DEF SignV1, Issue, Integrity
<1>2. act.version = V1 /\ act.key = key /\ act.block = block /\ V1 # V2
  BY DEF Act, V1, V2
<1>3. block.sig \in Keys \X (MessagesV1 \cup MessagesV2)
  BY <1>1 DEF Sign, MessagesV1, IInv, TypeOK
<1>4. block \in IssuedBlocks
  BY <1>3, KeyAssumption DEF IssuedBlocks, Hashes
<1>5. Issued(act)
  BY <1>2, <1>4 DEF Issued
<1> QED BY <1>1, <1>5 DEF AllIssued

\* The block of a v2 act.
LEMMA SignV2Issues ==
  ASSUME IInv, NEW key \in Keys, NEW signer \in Signers, NEW names \in SUBSET DOMAIN extra,
         SignV2(key, signer, names), AllIssued
  PROVE  AllIssued'
<1> DEFINE bound == Restrict(Members, names)
           hash == IF names = {} THEN None ELSE Sha(bound)
           covered == [spec |-> V2, alg |-> Ed25519, public_key |-> KeyText(key),
                       receipt_sha256 |-> stated, signer |-> signer,
                       binds_sha256 |-> hash]
           block == [spec |-> V2, alg |-> Ed25519, signer |-> signer,
                     public_key |-> KeyText(key), binds |-> names,
                     binds_sha256 |-> hash, sig |-> Sign(key, <<V2, Sha(covered)>>)]
           act == Act(V2, key, signer, names, block)
<1>1. acts' = acts \cup {act} /\ stated = Sha(claim)
  BY DEF SignV2, Issue, Integrity
<1>2. /\ act.version = V2 /\ act.key = key /\ act.block = block /\ act.signer = signer
      /\ act.bound = bound /\ V1 # V2
  BY DEF Act, V1, V2
<1>3. names \in SUBSET ExtraKeys /\ bound \in [names -> Contents] /\ DOMAIN bound = names
  BY MembersAreContents DEF IInv, Restrict
<1>4. hash \in Hashes /\ hash = HashOf(bound)
  BY <1>3 DEF Hashes, HashOf
<1>5. covered \in [spec : {V2}, alg : {Ed25519}, public_key : PublicKeyTexts,
                   receipt_sha256 : MessagesV1, signer : Signers, binds_sha256 : Hashes]
  <2>1. stated \in MessagesV1 /\ KeyText(key) \in PublicKeyTexts
    BY <1>1, KeyAssumption DEF MessagesV1, IInv, TypeOK
  <2> HIDE DEF hash
  <2> QED BY <1>4, <2>1
<1>6. block.sig \in Keys \X (MessagesV1 \cup MessagesV2)
  <2> HIDE DEF covered
  <2> QED BY <1>5 DEF Sign, MessagesV2, Sha
<1>7. block \in IssuedBlocks
  <2>1. Sign(key, <<V2, Sha(covered)>>) \in Keys \X (MessagesV1 \cup MessagesV2)
    BY <1>6
  <2> HIDE DEF hash, covered
  <2> QED BY <1>3, <1>4, <2>1, KeyAssumption DEF IssuedBlocks
<1>8. Issued(act)
  <2>1. /\ block.public_key = KeyText(key) /\ block.spec = V2 /\ block.signer = signer
        /\ block.binds = names /\ block.binds_sha256 = hash
    OBVIOUS
  <2> HIDE DEF act, block, hash, bound
  <2> QED BY <1>2, <1>3, <1>4, <1>7, <2>1 DEF Issued
<1> QED BY <1>1, <1>8 DEF AllIssued

\* Blocks are recorded as they were issued, for good.
THEOREM BlocksAreIssued == Spec => []AllIssued
<1>1. Init => AllIssued
  BY DEF Init, AllIssued
<1>2. IInv /\ AllIssued /\ [Next]_vars => AllIssued'
  <2> SUFFICES ASSUME IInv, AllIssued, [Next]_vars PROVE AllIssued'
    OBVIOUS
  <2>1. CASE Signing
    BY <2>1, SignV1Issues, SignV2Issues DEF Signing
  <2>2. CASE acts' = acts
    BY <2>2 DEF AllIssued, Issued
  <2> QED BY <2>1, <2>2 DEF Next, vars, EditClaim, DropHash, EditExtra, EditBlock, EditSignature, Edit
<1> QED BY <1>1, <1>2, Invariance, PTL DEF Spec

\* An issued block verifies over the claim and the metadata it was issued for.
LEMMA IssuedBlockIsValid ==
  ASSUME IInv, AllIssued, NEW act \in acts, Crypto, sig = act.block, Integrity,
         claim = act.claim,
         \A n \in DOMAIN act.bound : n \in DOMAIN Members /\ Members[n] = act.bound[n]
  PROVE  /\ act.version = V1 => ValidV1
         /\ act.version = V2 => ValidV2 /\ Binds = DOMAIN act.bound /\ sig.signer = act.signer
<1>1. Issued(act) /\ Genuine(act)
  BY DEF AllIssued, IInv
<1>2. /\ sig # NoBlock /\ sig.alg = Ed25519 /\ sig.spec \in {None, V1, V2}
      /\ sig.public_key # None /\ sig.sig # None
      /\ sig.binds # NotAList
  <2>1. /\ sig \in IssuedBlocks /\ sig.alg = Ed25519 /\ sig.spec \in {None, V1, V2}
        /\ sig.public_key \in PublicKeyTexts /\ sig.sig \in Keys \X (MessagesV1 \cup MessagesV2)
        /\ sig.binds \in {None} \cup SUBSET ExtraKeys
    BY <1>1 DEF Issued, IssuedBlocks
  <2> QED BY <2>1, TokenAssumption
<1>3. Read /\ stated = Sha(act.claim)
  BY <1>2 DEF Read, Evaluated, KnownSpec, Integrity
<1>4. RawKey(sig.public_key) = act.key /\ act.key # None
  BY <1>1, KeyAssumption, TokenAssumption DEF Issued
<1>5. CASE act.version = V1
  <2>1. Verifies(stated)
    BY <1>1, <1>3, <1>4, <1>5 DEF Verifies, Genuine
  <2>2. sig.spec # V2 /\ V1 # V2
    BY <1>1, <1>5, TokenAssumption DEF Issued, V1, V2
  <2> QED BY <1>3, <1>5, <2>1, <2>2 DEF ValidV1, ReadAsV1
<1>6. CASE act.version = V2
  <2>1. /\ sig.spec = V2 /\ sig.signer = act.signer /\ sig.public_key = KeyText(act.key)
        /\ sig.binds = DOMAIN act.bound /\ sig.binds_sha256 = HashOf(act.bound)
    BY <1>1, <1>6 DEF Issued
  <2>2. Covered = CoveredBy(act)
    BY <1>2, <1>3, <2>1 DEF Covered, CoveredBy
  <2>3. Verifies(MessageV2)
    BY <1>1, <1>4, <1>6, <2>2 DEF Verifies, Genuine, MessageV2
  <2>4. Binds = DOMAIN act.bound
    <3>1. sig.binds # None
      BY <1>1, <1>6, <2>1, TokenAssumption DEF Issued
    <3> QED BY <2>1, <3>1 DEF Binds
  <2>5. Binds \subseteq DOMAIN Members
    BY <2>4
  <2>6. act.bound = Restrict(Members, Binds)
    <3>1. act.bound = [n \in DOMAIN act.bound |-> act.bound[n]]
      BY <1>1 DEF Genuine, Partial
    <3> QED BY <2>4, <3>1 DEF Restrict
  <2>7. BindsHash(Binds) = sig.binds_sha256
    BY <2>1, <2>5, <2>6, BindsHashOfMembers DEF IInv
  <2> QED BY <1>2, <1>3, <1>6, <2>1, <2>3, <2>4, <2>5, <2>7 DEF ValidV2, BindsHold, V1, V2
<1> QED BY <1>5, <1>6

\* An issued block is valid as long as the claim and the metadata it was issued
\* over are as they were, whatever was done to the rest of the file and however
\* often the block was taken out and put back (signature.py:266-333).
THEOREM GenuineBlocksStayValid == Spec => []GenuineStaysValid
<1>1. IInv /\ AllIssued => GenuineStaysValid
  <2> SUFFICES ASSUME IInv, AllIssued, NEW act \in acts, Crypto, sig = act.block, Integrity,
                      claim = act.claim,
                      \A n \in DOMAIN act.bound : n \in DOMAIN Members /\ Members[n] = act.bound[n]
               PROVE  /\ Report.valid
                      /\ Report.identity_bound = (act.version = V2)
                      /\ act.version = V2 => /\ Report.attributed_signer = act.signer
                                             /\ Report.bound_metadata = DOMAIN act.bound
    BY DEF GenuineStaysValid
  <2>1. act.version \in {V1, V2} /\ V1 # V2
    BY DEF IInv, Genuine, V1, V2
  <2>2. ~(ValidV1 /\ ValidV2)
    BY DEF ValidV1, ValidV2, ReadAsV1
  <2>3. /\ Report.valid = (ValidV1 \/ ValidV2) /\ Report.identity_bound = ValidV2
        /\ ValidV2 => Report.attributed_signer = sig.signer /\ Report.bound_metadata = Binds
    BY DEF Report
  <2>4. ValidV2 \in BOOLEAN
    BY DEF ValidV2, Read, Evaluated, Integrity, KnownSpec, Verifies, BindsHold
  <2> QED BY <2>1, <2>2, <2>3, <2>4, IssuedBlockIsValid
<1> QED BY <1>1, Invariance, BlocksAreIssued, PTL

\* A step that leaves a valid v2 block alone and changes metadata it binds leaves
\* it invalid: the bound hash is recomputed from what is there
\* (signature.py:285-288).
THEOREM BoundMetadataIsFrozen == Spec => BoundIsFrozen
<1>1. ASSUME Report.identity_bound, sig' = sig, Report'.valid
      PROVE  Restrict(Members', Report.bound_metadata \cap DOMAIN Members')
               = Restrict(Members, Report.bound_metadata)
  <2>1. ValidV2 /\ Report.bound_metadata = Binds /\ sig.spec = V2
    BY <1>1 DEF Report, ValidV2
  <2>2. ValidV2'
    BY <1>1, <2>1 DEF Report, ValidV1, ReadAsV1
  <2>3. Binds' = Binds
    BY <1>1 DEF Binds
  <2>4. /\ Binds \subseteq DOMAIN Members /\ Binds \subseteq DOMAIN Members'
        /\ BindsHash(Binds) = sig.binds_sha256 /\ BindsHash(Binds)' = sig.binds_sha256
    BY <1>1, <2>1, <2>2, <2>3 DEF ValidV2, BindsHold
  <2>5. Binds \cap DOMAIN Members = Binds /\ Binds \cap DOMAIN Members' = Binds
    BY <2>4
  <2>6. CASE Binds = {}
    BY <2>1, <2>6 DEF Restrict
  <2>7. CASE Binds # {}
    <3>1. Sha(Restrict(Members, Binds)) = Sha(Restrict(Members', Binds))
      BY <2>3, <2>4, <2>5, <2>7 DEF BindsHash
    <3>2. /\ Sha(Restrict(Members, Binds))[2] = Restrict(Members, Binds)
          /\ Sha(Restrict(Members', Binds))[2] = Restrict(Members', Binds)
      BY DEF Sha
    <3> QED BY <2>1, <2>5, <3>1, <3>2
  <2> QED BY <2>6, <2>7
<1>2. (/\ Report.identity_bound /\ sig' = sig
       /\ Restrict(Members', Report.bound_metadata \cap DOMAIN Members')
          # Restrict(Members, Report.bound_metadata))
      => ~Report'.valid
  BY <1>1
<1> QED BY <1>2, PTL DEF BoundIsFrozen
=============================================================================
