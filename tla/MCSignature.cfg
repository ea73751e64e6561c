CONSTANTS
  c1 = c1 c2 = c2
  s1 = s1 s2 = s2
  a = a b = b
  k1 = k1 k2 = k2
  k1text = k1text K1text = K1text k2text = k2text badText = badText
  Claims = {c1, c2}
  Crypto = TRUE
  ExtraKeys <- MCExtraKeys
  Contents = {a, b}
  Keys <- MCKeys
  Signers = {s1, s2}
  PublicKeyTexts <- MCTexts
  RawKey <- MCRawKey
  KeyText <- MCKeyText
  None = None NotAList = NotAList NoBlock = NoBlock
  OtherAlg = OtherAlg OtherSpec = OtherSpec
  MaxActs = 2
  MaxEdits = 2
SPECIFICATION Spec
SYMMETRY Swaps
INVARIANT TypeOK AttributedToItsSigner ValidUnderItsOwnSpec GenuineStaysValid EveryFactIsAccountedFor
PROPERTY BoundIsFrozen
CHECK_DEADLOCK FALSE
