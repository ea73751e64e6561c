---------------------------- MODULE MCSignature ----------------------------
(***************************************************************************)
(* Signature with two keys, one of which has a second spelling, two claims *)
(* and two keys outside the claim.                                         *)
(***************************************************************************)
EXTENDS Signature, TLC

CONSTANTS k1, k2, K1text, k1text, k2text, badText

MCKeys == {k1, k2}
MCTexts == {k1text, K1text, k2text, badText}
MCRawKey(t) == CASE t \in {k1text, K1text} -> k1 [] t = k2text -> k2 [] OTHER -> None
MCKeyText(key) == IF key = k1 THEN k1text ELSE k2text
MCExtraKeys == {"case", "_combined_verdict"}

CONSTANTS c1, c2, s1, s2, a, b

Swaps == Permutations({c1, c2}) \cup Permutations({s1, s2}) \cup Permutations({a, b})

=============================================================================
