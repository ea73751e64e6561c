-------------------------- MODULE WireFormatProofs --------------------------
(***************************************************************************)
(* load_receipt loads exactly the format, for every set of texts and every *)
(* setting of the limits.                                                  *)
(***************************************************************************)
EXTENDS WireFormat, FiniteSetTheorems, WellFoundedInduction, TLAPS

\* s lists the numbers of S, each once, from the least on.
Lists(s, S) ==
  /\ s \in Seq(S)
  /\ \A j \in S : \E m \in DOMAIN s : s[m] = j
  /\ \A m, n \in DOMAIN s : m < n => s[m] < s[n]

Upto(S, n) == {j \in S : j <= n}

Toks == text.tokens
L == Len(Toks)


LEMMA LeastOf ==
  ASSUME NEW S \in SUBSET Nat, S # {}
  PROVE  \E m \in S : \A n \in S : m <= n
<1>1. IsWellFoundedOn(OpToRel(<, Nat), Nat)
  BY NatLessThanWellFounded
<1>2. PICK m \in S : \A n \in S : <<n, m>> \notin OpToRel(<, Nat)
  BY <1>1, WFMin
<1>3. \A n \in S : ~(n < m)
  BY <1>2 DEF OpToRel
<1> QED
  BY <1>3

LEMMA GreatestOf ==
  ASSUME NEW S \in SUBSET Nat, NEW b \in Nat, \A n \in S : n <= b, S # {}
  PROVE  \E m \in S : \A n \in S : n <= m
<1> DEFINE R == {b - n : n \in S}
<1>1. R \in SUBSET Nat /\ R # {}
  <2>1. ASSUME NEW n \in S PROVE b - n \in Nat
    <3>1. n \in Nat /\ n <= b
      OBVIOUS
    <3> QED BY <3>1
  <2> QED BY <2>1
<1>2. PICK r \in R : \A q \in R : r <= q
  <2> HIDE DEF R
  <2> QED BY <1>1, LeastOf
<1>3. PICK m \in S : r = b - m
  OBVIOUS
<1>4. ASSUME NEW n \in S PROVE n <= m
  <2>1. b - n \in R
    OBVIOUS
  <2>2. r <= b - n /\ m \in Nat /\ n \in Nat
    BY <1>2, <2>1
  <2> QED BY <1>3, <2>2
<1> QED BY <1>4

-----------------------------------------------------------------------------
(* Lists of numbers. *)

LEMMA ListsAreInjective ==
  ASSUME NEW S \in SUBSET Nat, NEW s, Lists(s, S)
  PROVE  /\ Len(s) \in Nat /\ DOMAIN s = 1 .. Len(s)
         /\ \A m \in DOMAIN s : s[m] \in S
         /\ \A m, n \in DOMAIN s : s[m] = s[n] => m = n
<1>1. Len(s) \in Nat /\ DOMAIN s = 1 .. Len(s) /\ \A m \in DOMAIN s : s[m] \in S
  BY DEF Lists
<1>2. ASSUME NEW m \in DOMAIN s, NEW n \in DOMAIN s, s[m] = s[n] PROVE m = n
  <2>0. s[m] \in S /\ s[n] \in S /\ m \in 1 .. Len(s) /\ n \in 1 .. Len(s)
    BY <1>1
  <2>a. \A j \in S : j \in Nat
    OBVIOUS
  <2>b. m \in Nat /\ n \in Nat
    BY <1>1, <2>0
  <2>1. s[m] \in Nat /\ s[n] \in Nat /\ m \in Nat /\ n \in Nat
    BY <2>a, <2>b, <2>0
  <2>2. (m < n => s[m] < s[n]) /\ (n < m => s[n] < s[m])
    BY DEF Lists
  <2>3. ~(s[m] < s[n]) /\ ~(s[n] < s[m])
    BY <1>2, <2>1
  <2> QED BY <2>1, <2>2, <2>3
<1> QED BY <1>1, <1>2

LEMMA CountUpTo ==
  ASSUME NEW l \in Nat
  PROVE  IsFiniteSet(1 .. l) /\ Cardinality(1 .. l) = l
BY FS_Interval

\* A list is as long as what it lists is many.
LEMMA ListsCount ==
  ASSUME NEW S \in SUBSET Nat, NEW s, Lists(s, S)
  PROVE  IsFiniteSet(S) /\ Cardinality(S) = Len(s)
<1>1. /\ Len(s) \in Nat /\ DOMAIN s = 1 .. Len(s)
      /\ \A m \in DOMAIN s : s[m] \in S
      /\ \A m, n \in DOMAIN s : s[m] = s[n] => m = n
  BY ListsAreInjective
<1>2. s \in [1 .. Len(s) -> S]
  BY <1>1 DEF Lists
<1>3. s \in Bijection(1 .. Len(s), S)
  BY <1>1, <1>2 DEF Bijection, Injection, Surjection, IsInjective, Lists
<1>4. ExistsBijection(1 .. Len(s), S)
  BY <1>3 DEF ExistsBijection
<1>5. IsFiniteSet(1 .. Len(s)) /\ Cardinality(1 .. Len(s)) = Len(s)
  BY <1>1, CountUpTo
<1>6. IsFiniteSet(S) /\ Cardinality(S) = Cardinality(1 .. Len(s))
  <2> DEFINE T == 1 .. Len(s)
  <2>1. IsFiniteSet(T) /\ ExistsBijection(T, S)
    BY <1>4, <1>5
  <2> HIDE DEF T
  <2>2. IsFiniteSet(S) /\ Cardinality(S) = Cardinality(T)
    BY <2>1, FS_Bijection
  <2> QED BY <2>2 DEF T
<1> QED BY <1>5, <1>6

LEMMA ListsNothing == Lists(<<>>, {})
BY DEF Lists

LEMMA ListsOneMore ==
  ASSUME NEW S \in SUBSET Nat, NEW s, Lists(s, S), NEW p \in Nat, \A j \in S : j < p
  PROVE  Lists(Append(s, p), S \cup {p})
<1> DEFINE r == Append(s, p)
<1>1. Len(s) \in Nat /\ DOMAIN s = 1 .. Len(s) /\ \A m \in DOMAIN s : s[m] \in S
  BY ListsAreInjective
<1>0. s \in Seq(S \cup {p})
  BY DEF Lists
<1>2. /\ r \in Seq(S \cup {p}) /\ DOMAIN r = 1 .. Len(s) + 1
      /\ r[Len(s) + 1] = p /\ \A m \in 1 .. Len(s) : r[m] = s[m]
  BY <1>0, <1>1
<1>3. \A j \in S \cup {p} : \E m \in DOMAIN r : r[m] = j
  <2> SUFFICES ASSUME NEW j \in S \cup {p} PROVE \E m \in DOMAIN r : r[m] = j
    OBVIOUS
  <2>1. CASE j = p
    BY <1>1, <1>2, <2>1
  <2>2. CASE j \in S
    <3>1. PICK m \in DOMAIN s : s[m] = j
      BY <2>2 DEF Lists
    <3> QED BY <1>1, <1>2, <3>1
  <2> QED BY <2>1, <2>2
<1>4. ASSUME NEW m \in DOMAIN r, NEW n \in DOMAIN r, m < n PROVE r[m] < r[n]
  <2>1. m \in 1 .. Len(s) /\ r[m] = s[m]
    BY <1>1, <1>2, <1>4
  <2>2. CASE n = Len(s) + 1
    BY <1>1, <1>2, <2>1, <2>2
  <2>3. CASE n \in 1 .. Len(s)
    BY <1>1, <1>2, <1>4, <2>1, <2>3 DEF Lists
  <2> QED BY <1>1, <1>2, <2>2, <2>3
<1> HIDE DEF r
<1> QED BY <1>2, <1>3, <1>4 DEF Lists, r

\* A finite set of numbers has a list, and InOrder is it.
LEMMA ListExists ==
  ASSUME NEW l \in Nat, NEW S \in SUBSET (1 .. l)
  PROVE  \E s : Lists(s, S)
<1> DEFINE bad == {n \in Nat : \E R \in SUBSET (1 .. n) : ~\E s : Lists(s, R)}
<1>1. bad = {}
  <2> SUFFICES ASSUME bad # {} PROVE FALSE
    OBVIOUS
  <2>1. PICK n \in bad : \A m \in bad : n <= m
    <3>1. bad \in SUBSET Nat
      OBVIOUS
    <3> HIDE DEF bad
    <3> QED BY <3>1, LeastOf
  <2>2. n \in Nat
    OBVIOUS
  <2>3. PICK R \in SUBSET (1 .. n) : ~\E s : Lists(s, R)
    OBVIOUS
  <2>4. CASE n = 0
    <3>1. R = {}
      BY <2>4
    <3> QED BY <2>3, <3>1, ListsNothing
  <2>5. CASE n # 0
    <3> DEFINE Q == R \ {n}
    <3>1. n - 1 \in Nat /\ n - 1 \notin bad
      BY <2>1, <2>2, <2>5
    <3>2. Q \in SUBSET (1 .. n - 1)
      BY <2>2
    <3>3. PICK s : Lists(s, Q)
      BY <3>1, <3>2
    <3>4. Q \in SUBSET Nat /\ \A j \in Q : j < n
      BY <2>2
    <3>5. Lists(Append(s, n), Q \cup {n})
      <4> HIDE DEF Q
      <4> QED BY <2>2, <3>3, <3>4, ListsOneMore
    <3>6. R = Q \/ R = Q \cup {n}
      OBVIOUS
    <3> QED BY <2>3, <3>3, <3>5, <3>6
  <2> QED BY <2>4, <2>5
<1>2. l \notin bad
  BY <1>1
<1> QED BY <1>2

LEMMA InOrderLists ==
  ASSUME NEW l \in Nat, NEW S \in SUBSET (1 .. l)
  PROVE  /\ IsFiniteSet(S) /\ Cardinality(S) \in Nat
         /\ DOMAIN InOrder(S) = 1 .. Cardinality(S)
         /\ Lists(InOrder(S), S)
<1> DEFINE n == Cardinality(S)
           Ordered(s) == s \in [1 .. n -> S] /\ \A j, k \in DOMAIN s : j < k => s[j] < s[k]
           o == InOrder(S)
<1>0. S \in SUBSET Nat
  OBVIOUS
<1>1. PICK r : Lists(r, S)
  BY ListExists
<1>2. IsFiniteSet(S) /\ n = Len(r) /\ n \in Nat
  BY <1>0, <1>1, ListsCount, ListsAreInjective
<1>3. Ordered(r)
  BY <1>0, <1>1, <1>2, ListsAreInjective DEF Lists
<1>4. o = CHOOSE s \in [1 .. n -> S] : \A j, k \in DOMAIN s : j < k => s[j] < s[k]
  BY DEF InOrder
<1>5. Ordered(o)
  <2> HIDE DEF n, o
  <2> QED BY <1>3, <1>4
<1> HIDE DEF n, o
<1>6. DOMAIN o = 1 .. n /\ o \in Seq(S)
  BY <1>2, <1>5
<1>7. ASSUME NEW j \in 1 .. n, NEW k \in 1 .. n, o[j] = o[k] PROVE j = k
  <2>a. \A m \in S : m \in Nat
    BY <1>0
  <2>b. o[j] \in S /\ o[k] \in S
    BY <1>5
  <2>c. o[j] \in Nat /\ o[k] \in Nat
    BY <2>a, <2>b
  <2>d. n \in Nat
    BY <1>2
  <2>1. j \in Nat /\ k \in Nat
    BY <2>d
  <2>2. (j < k => o[j] < o[k]) /\ (k < j => o[k] < o[j])
    BY <1>5, <1>6
  <2>3. ~(o[j] < o[k]) /\ ~(o[k] < o[j])
    BY <1>7, <2>c
  <2> QED BY <2>1, <2>2, <2>3
<1> DEFINE I == {o[j] : j \in 1 .. n}
<1>8. o \in Bijection(1 .. n, I)
  BY <1>5, <1>6, <1>7 DEF Bijection, Injection, Surjection, IsInjective
<1>9. I \in SUBSET S
  BY <1>5
<1>10. I = S
  <2> HIDE DEF I
  <2>1. ExistsBijection(1 .. n, I)
    BY <1>8 DEF ExistsBijection
  <2>2. Cardinality(I) = n
    BY <1>2, <2>1, FS_CountingElements
  <2>3. Cardinality(S) = Cardinality(I)
    BY <2>2 DEF n
  <2> QED BY <1>2, <1>9, <2>3, FS_Subset
<1>11. \A j \in S : \E m \in DOMAIN o : o[m] = j
  BY <1>6, <1>10
<1>12. Lists(o, S)
  BY <1>5, <1>6, <1>11 DEF Lists
<1> QED BY <1>2, <1>6, <1>12 DEF n, o

-----------------------------------------------------------------------------
(* Strings. *)

TextConforms(chars) == Paired(chars) /\ Utf8(chars) <= MaxString

Kept(chars) == {n \in DOMAIN chars : ~Joined(chars, n)}

\* What becomes of a character that is kept.
Character(chars, n) == IF Joins(chars, n) THEN "w" ELSE chars[n]

\* k lists the places in a string of what its decoding is made of.
Places(k, C, chars) ==
  /\ Lists(k, Kept(chars))
  /\ Decoded(chars) \in Seq(C \cup {"w"})
  /\ DOMAIN k = 1 .. Cardinality(Kept(chars))
  /\ Len(Decoded(chars)) = Cardinality(Kept(chars))
  /\ \A m \in DOMAIN k : Decoded(chars)[m] = Character(chars, k[m])
  /\ IsFiniteSet(Kept(chars)) /\ Cardinality(Kept(chars)) \in Nat

LEMMA DecodedFrom ==
  ASSUME NEW C, NEW chars \in Seq(C)
  PROVE  \E k : Places(k, C, chars)
<1> DEFINE K == Kept(chars)
           n == Cardinality(K)
           k == InOrder(K)
<1>1. Len(chars) \in Nat /\ DOMAIN chars = 1 .. Len(chars)
  OBVIOUS
<1>2. K \in SUBSET (1 .. Len(chars))
  BY <1>1 DEF Kept
<1>3. IsFiniteSet(K) /\ n \in Nat /\ DOMAIN k = 1 .. n /\ Lists(k, K)
  <2> HIDE DEF K
  <2> QED BY <1>1, <1>2, InOrderLists DEF n, k
<1>4. Decoded(chars) = [m \in DOMAIN k |-> Character(chars, k[m])]
  BY DEF Decoded, Character, Kept
<1>5. \A m \in DOMAIN k : k[m] \in DOMAIN chars
  <2> HIDE DEF k
  <2> QED BY <1>1, <1>2, <1>3 DEF Lists
<1>6. \A m \in DOMAIN k : Character(chars, k[m]) \in C \cup {"w"}
  <2>1. ASSUME NEW p \in DOMAIN chars PROVE Character(chars, p) \in C \cup {"w"}
    <3>1. chars[p] \in C
      OBVIOUS
    <3> QED BY <3>1 DEF Character
  <2> HIDE DEF k
  <2> QED BY <1>5, <2>1
<1> HIDE DEF K, n, k
<1>7. Decoded(chars) \in [1 .. n -> C \cup {"w"}]
  BY <1>3, <1>4, <1>6
<1>8. Decoded(chars) \in Seq(C \cup {"w"}) /\ Len(Decoded(chars)) = n
  BY <1>3, <1>7
<1>9. \A m \in DOMAIN k : Decoded(chars)[m] = Character(chars, k[m])
  BY <1>4
<1>10. Places(k, C, chars)
  BY <1>3, <1>8, <1>9 DEF K, n, Places
<1> QED BY <1>10

\* In a string of pairs no half is left, and a half left over elsewhere stands next
\* to none that it could make a pair with.
LEMMA LoneIsUnpaired ==
  ASSUME NEW C, NEW chars \in Seq(C)
  PROVE  /\ HasLoneSurrogate(Decoded(chars)) <=> ~Paired(chars)
         /\ Paired(chars) => \A n \in Kept(chars) : Character(chars, n) \notin {"hi", "lo"}
<1> DEFINE D == Decoded(chars)
           K == Kept(chars)
<1>0. PICK k : Places(k, C, chars)
  BY DecodedFrom
<1>1. /\ Lists(k, K) /\ D \in Seq(C \cup {"w"})
      /\ DOMAIN k = 1 .. Cardinality(K) /\ Len(D) = Cardinality(K)
      /\ \A m \in DOMAIN k : D[m] = Character(chars, k[m])
      /\ Cardinality(K) \in Nat
  BY <1>0 DEF Places, D, K
<1>2. Len(chars) \in Nat /\ DOMAIN chars = 1 .. Len(chars)
  OBVIOUS
<1>3. /\ DOMAIN D = DOMAIN k /\ DOMAIN D = 1 .. Len(D) /\ Len(D) \in Nat
      /\ \A m \in DOMAIN D : k[m] \in 1 .. Len(chars) /\ ~Joined(chars, k[m])
      /\ \A n \in 1 .. Len(chars) : ~Joined(chars, n) => \E m \in DOMAIN D : k[m] = n
      /\ \A m, n \in DOMAIN D : m < n => k[m] < k[n]
  <2>1. DOMAIN D = DOMAIN k /\ DOMAIN D = 1 .. Len(D) /\ Len(D) \in Nat
    BY <1>1
  <2>2. \A n : n \in K <=> n \in 1 .. Len(chars) /\ ~Joined(chars, n)
    BY <1>2 DEF Kept
  <2> HIDE DEF D, K
  <2>3. \A m \in DOMAIN k : k[m] \in K
    BY <1>1 DEF Lists
  <2>4. \A n \in K : \E m \in DOMAIN k : k[m] = n
    BY <1>1 DEF Lists
  <2>5. \A m, n \in DOMAIN k : m < n => k[m] < k[n]
    BY <1>1 DEF Lists
  <2> QED BY <2>1, <2>2, <2>3, <2>4, <2>5
<1>4. ASSUME Paired(chars), NEW n \in K PROVE Character(chars, n) \notin {"hi", "lo"}
  BY <1>4 DEF Paired, Kept, Character
<1>5. ASSUME Paired(chars) PROVE ~HasLoneSurrogate(D)
  <2>1. \A m \in DOMAIN D : D[m] # "hi" /\ D[m] # "lo"
    BY <1>1, <1>3, <1>4, <1>5 DEF Lists
  <2> HIDE DEF D
  <2>2. \A m \in DOMAIN D : m > 1 => m - 1 \in DOMAIN D
    BY <1>3
  <2>3. Len(D) + 1 > 1 => (Len(D) + 1) - 1 \in DOMAIN D
    BY <1>3
  <2> QED BY <2>1, <2>2, <2>3 DEF HasLoneSurrogate
\* Between two neighbours in what is kept, all is dropped.
<1>6. ASSUME NEW m \in DOMAIN D, m + 1 \in DOMAIN D, NEW n \in 1 .. Len(chars), k[m] < n, n < k[m + 1]
      PROVE  Joined(chars, n)
  <2> SUFFICES ASSUME ~Joined(chars, n) PROVE FALSE
    OBVIOUS
  <2>1. PICK l \in DOMAIN D : k[l] = n
    BY <1>3
  <2>2. m \in Nat /\ l \in Nat /\ k[m] \in Nat /\ k[l] \in Nat /\ k[m + 1] \in Nat
    <3>1. \A c \in DOMAIN D : c \in Nat /\ k[c] \in 1 .. Len(chars)
      BY <1>3
    <3>2. \A c \in DOMAIN D : k[c] \in Nat
      BY <1>2, <3>1
    <3> HIDE DEF D
    <3> QED BY <1>6, <3>1, <3>2
  <2>3. l <= m \/ m + 1 <= l
    BY <2>2
  <2>o. \A a, b \in DOMAIN D : a < b => k[a] < k[b]
    BY <1>3
  <2>4. CASE l <= m
    <3>1. l < m => k[l] < k[m]
      <4> HIDE DEF D
      <4> QED BY <2>o
    <3>2. l = m => k[l] = k[m]
      OBVIOUS
    <3> QED BY <1>6, <2>1, <2>2, <2>4, <3>1, <3>2
  <2>5. CASE m + 1 <= l
    <3>1. m + 1 < l => k[m + 1] < k[l]
      BY <1>3, <1>6
    <3>2. m + 1 = l => k[m + 1] = k[l]
      OBVIOUS
    <3> QED BY <1>6, <2>1, <2>2, <2>5, <3>1, <3>2
  <2> QED BY <2>3, <2>4, <2>5
<1>7. ASSUME ~Paired(chars) PROVE HasLoneSurrogate(D)
  <2>1. PICK n \in 1 .. Len(chars) : (chars[n] = "hi" /\ ~Joins(chars, n)) \/ (chars[n] = "lo" /\ ~Joined(chars, n))
    BY <1>2, <1>7 DEF Paired
  <2>2. ~Joined(chars, n) /\ ~Joins(chars, n)
    BY <2>1 DEF Joined, Joins
  <2>3. PICK m \in DOMAIN D : k[m] = n
    BY <1>3, <2>2
  <2>4. D[m] = chars[n] /\ m \in Nat /\ m >= 1
    BY <1>1, <1>3, <2>2, <2>3 DEF Character
  <2>5. CASE chars[n] = "hi"
    <3>1. CASE m = Len(D)
      <4>1. Len(D) + 1 > 1 /\ D[(Len(D) + 1) - 1] = "hi"
        BY <1>3, <2>4, <2>5, <3>1
      <4> HIDE DEF D
      <4> QED BY <4>1 DEF HasLoneSurrogate
    <3>2. CASE m # Len(D)
      <4>0. m \in 1 .. Len(D) /\ Len(D) \in Nat
        BY <1>3
      <4>1. m + 1 \in DOMAIN D /\ m + 1 > 1 /\ (m + 1) - 1 = m
        <5>1. m + 1 \in 1 .. Len(D) /\ m + 1 > 1 /\ (m + 1) - 1 = m
          <6> HIDE DEF D
          <6> QED BY <2>4, <3>2, <4>0
        <5> QED BY <1>3, <5>1
      <4>2. D[m + 1] # "lo"
        <5> SUFFICES ASSUME D[m + 1] = "lo" PROVE FALSE
          OBVIOUS
        <5> DEFINE p == k[m + 1]
        <5>1. p \in 1 .. Len(chars) /\ ~Joined(chars, p) /\ n < p
          BY <1>3, <2>3, <2>4, <4>1
        <5>2. chars[p] = "lo"
          BY <1>1, <1>3, <4>1 DEF Character
        <5>3. CASE p = n + 1
          BY <1>2, <2>5, <5>1, <5>2, <5>3 DEF Joined
        <5>4. CASE p # n + 1
          <6> HIDE DEF p
          <6>1. n + 1 \in 1 .. Len(chars) /\ n < n + 1 /\ n + 1 < p
            BY <1>2, <5>1, <5>4
          <6>2. Joined(chars, n + 1)
            BY <1>6, <2>3, <4>1, <6>1 DEF p
          <6> QED BY <1>2, <2>2, <2>5, <6>1, <6>2 DEF Joined, Joins
        <5> QED BY <5>3, <5>4
      <4> HIDE DEF D
      <4>3. D[(m + 1) - 1] = "hi"
        BY <2>4, <2>5, <4>1
      <4> QED BY <4>1, <4>2, <4>3 DEF HasLoneSurrogate
    <3> QED BY <3>1, <3>2
  <2>6. CASE chars[n] = "lo"
    <3>1. ~(m > 1 /\ D[m - 1] = "hi")
      <4> SUFFICES ASSUME m > 1, D[m - 1] = "hi" PROVE FALSE
        OBVIOUS
      <4> DEFINE p == k[m - 1]
      <4>1. m - 1 \in DOMAIN D /\ (m - 1) + 1 = m
        BY <1>3, <2>4
      <4>2. p \in 1 .. Len(chars) /\ p < n
        BY <1>3, <2>3, <2>4, <4>1
      <4>3. chars[p] = "hi" /\ ~Joins(chars, p)
        BY <1>1, <1>3, <4>1 DEF Character
      <4>4. CASE n = p + 1
        BY <1>2, <2>6, <4>2, <4>3, <4>4 DEF Joins
      <4>5. CASE n # p + 1
        <5> HIDE DEF p
        <5>1. p + 1 \in 1 .. Len(chars) /\ p < p + 1 /\ p + 1 < n
          BY <1>2, <4>2, <4>5
        <5>2. Joined(chars, p + 1)
          BY <1>6, <2>3, <4>1, <5>1 DEF p
        <5> QED BY <1>2, <4>2, <4>3, <5>1, <5>2 DEF Joined, Joins
      <4> QED BY <4>4, <4>5
    <3>2. D[m] = "lo"
      BY <2>4, <2>6
    <3> HIDE DEF D
    <3> QED BY <3>1, <3>2 DEF HasLoneSurrogate
  <2> QED BY <2>1, <2>5, <2>6
<1> QED BY <1>4, <1>5, <1>7

\* A pair has two halves, of two bytes each, and is one character of four.
LEMMA BytesOfPairs ==
  ASSUME NEW C, NEW chars \in Seq(C), Paired(chars)
  PROVE  Bytes(Decoded(chars)) = Utf8(chars)
<1> DEFINE D == Decoded(chars)
           K == Kept(chars)
           P == 1 .. Len(chars)
           W == {n \in P : chars[n] \in {"w"}}
           Hi == {n \in P : chars[n] \in {"hi"}}
           Lo == {n \in P : chars[n] \in {"lo"}}
           M == {m \in DOMAIN D : D[m] \in {"w"}}
<1>0. PICK k : Places(k, C, chars)
  BY DecodedFrom
<1>1. /\ Lists(k, K) /\ D \in Seq(C \cup {"w"})
      /\ DOMAIN k = 1 .. Cardinality(K) /\ Len(D) = Cardinality(K)
      /\ \A m \in DOMAIN k : D[m] = Character(chars, k[m])
      /\ Cardinality(K) \in Nat
  BY <1>0 DEF Places, D, K
<1>2. Len(chars) \in Nat /\ DOMAIN chars = P
  OBVIOUS
<1>3. IsFiniteSet(P) /\ Cardinality(P) = Len(chars)
  BY <1>2, CountUpTo
<1>4. W \in SUBSET P /\ Hi \in SUBSET P /\ Lo \in SUBSET P
  OBVIOUS
<1>5. IsFiniteSet(W) /\ IsFiniteSet(Hi) /\ IsFiniteSet(Lo)
  <2> HIDE DEF W, Hi, Lo, P
  <2> QED BY <1>3, <1>4, FS_Subset
<1>6. Cardinality(W) \in Nat /\ Cardinality(Hi) \in Nat /\ Cardinality(Lo) \in Nat
  <2> HIDE DEF W, Hi, Lo
  <2> QED BY <1>5, FS_CardinalityType
<1>7. W \cap Hi = {} /\ Hi \cap Lo = {}
  OBVIOUS
<1>8. Cardinality(Hi) = Cardinality(Lo)
  <2> DEFINE f == [n \in Hi |-> n + 1]
  <2>1. ASSUME NEW n \in Hi PROVE n + 1 \in Lo
    <3>1. n \in 1 .. Len(chars) /\ n < Len(chars) /\ chars[n + 1] = "lo"
      BY <1>2 DEF Paired, Joins
    <3>2. n + 1 \in P
      BY <1>2, <3>1
    <3> QED BY <3>1, <3>2
  <2>2. ASSUME NEW n \in Lo PROVE n - 1 \in Hi /\ f[n - 1] = n
    <3>1. n > 1 /\ chars[n - 1] = "hi" /\ n \in P
      BY <1>2 DEF Paired, Joined
    <3>2. n - 1 \in P /\ (n - 1) + 1 = n
      BY <1>2, <3>1
    <3> QED BY <3>1, <3>2
  <2>3. \A m, n \in Hi : f[m] = f[n] => m = n
    BY <1>2
  <2> HIDE DEF Lo
  <2>4. f \in [Hi -> Lo]
    BY <2>1
  <2> HIDE DEF Hi, f
  <2>5. f \in Bijection(Hi, Lo)
    BY <2>2, <2>3, <2>4 DEF Bijection, Injection, Surjection, IsInjective
  <2>6. ExistsBijection(Hi, Lo)
    BY <2>5 DEF ExistsBijection
  <2> QED BY <1>5, <2>6, FS_Bijection
<1>9. Cardinality(K) = Len(chars) - Cardinality(Lo)
  <2>1. K = P \ Lo
    BY <1>2 DEF Kept, Paired, Joined
  <2>2. P \cap Lo = Lo
    OBVIOUS
  <2> HIDE DEF K, Lo, P
  <2>3. Cardinality(P \ Lo) = Cardinality(P) - Cardinality(P \cap Lo)
    BY <1>3, FS_Difference
  <2> QED BY <1>3, <2>1, <2>2, <2>3
<1>10. Cardinality(M) = Cardinality(W \cup Hi)
  <2> DEFINE f == [m \in M |-> k[m]]
  <2>1. DOMAIN D = DOMAIN k
    BY <1>1
  <2>2. \A m \in DOMAIN k : k[m] \in K
    BY <1>1 DEF Lists
  <2>3. \A n \in K : n \in P /\ chars[n] # "lo"
    BY <1>2 DEF Kept, Paired
  <2>4. ASSUME NEW m \in M PROVE k[m] \in W \cup Hi
    <3>1. m \in DOMAIN k /\ Character(chars, k[m]) = "w"
      BY <1>1, <2>1
    <3> QED BY <2>2, <2>3, <3>1 DEF Character, Joins
  <2>5. ASSUME NEW n \in W \cup Hi PROVE \E m \in M : f[m] = n
    <3>1. n \in K /\ Character(chars, n) = "w"
      BY <1>2 DEF Kept, Joined, Character, Paired
    <3>2. PICK m \in DOMAIN k : k[m] = n
      <4> HIDE DEF K
      <4> QED BY <1>1, <3>1 DEF Lists
    <3>3. m \in M
      BY <1>1, <2>1, <3>1, <3>2
    <3> QED BY <3>2, <3>3
  <2>6. \A l, m \in M : f[l] = f[m] => l = m
    <3>1. K \in SUBSET Nat
      BY <1>2 DEF Kept
    <3>2. \A l, m \in DOMAIN k : k[l] = k[m] => l = m
      <4> HIDE DEF K
      <4> QED BY <1>1, <3>1, ListsAreInjective
    <3> QED BY <2>1, <3>2
  <2> DEFINE R == W \cup Hi
  <2> HIDE DEF R, M
  <2>7. f \in [M -> R]
    BY <2>4 DEF R
  <2> HIDE DEF f
  <2>8. f \in Bijection(M, R)
    BY <2>5, <2>6, <2>7 DEF Bijection, Injection, Surjection, IsInjective, R
  <2>9. ExistsBijection(M, R)
    BY <2>8 DEF ExistsBijection
  <2>10. IsFiniteSet(M)
    <3>1. IsFiniteSet(1 .. Cardinality(K))
      BY <1>1, FS_Interval
    <3>2. M \in SUBSET (1 .. Cardinality(K))
      BY <1>1, <2>1 DEF M
    <3> QED BY <3>1, <3>2, FS_Subset
  <2> QED BY <2>9, <2>10, FS_Bijection DEF R
<1>11. Cardinality(W \cup Hi) = Cardinality(W) + Cardinality(Hi)
  <2> HIDE DEF W, Hi
  <2>1. Cardinality(W \cup Hi) = Cardinality(W) + Cardinality(Hi) - Cardinality(W \cap Hi)
    BY <1>5, FS_Union
  <2>2. Cardinality(W \cap Hi) = 0
    BY <1>7, FS_EmptySet
  <2> QED BY <1>6, <2>1, <2>2
<1>12. Cardinality(Hi \cup Lo) = Cardinality(Hi) + Cardinality(Lo)
  <2> HIDE DEF Lo, Hi
  <2>1. Cardinality(Hi \cup Lo) = Cardinality(Hi) + Cardinality(Lo) - Cardinality(Hi \cap Lo)
    BY <1>5, FS_Union
  <2>2. Cardinality(Hi \cap Lo) = 0
    BY <1>7, FS_EmptySet
  <2> QED BY <1>6, <2>1, <2>2
<1>13. Bytes(D) = Len(D) + 3 * Cardinality(M)
  BY DEF Bytes, Count
<1>14. Count(chars, {"w"}) = Cardinality(W) /\ Count(chars, {"hi", "lo"}) = Cardinality(Hi \cup Lo)
  <2>1. Hi \cup Lo = {n \in DOMAIN chars : chars[n] \in {"hi", "lo"}}
    BY <1>2
  <2> QED BY <1>2, <2>1 DEF Count
<1> HIDE DEF D, K, W, Hi, Lo, M
<1> QED BY <1>1, <1>2, <1>6, <1>8, <1>9, <1>10, <1>11, <1>12, <1>13, <1>14 DEF Utf8, D

\* The walk judges a string as decoded, the format as written: one accepts it exactly
\* if the other does, halves paired and bytes counted (canonical.py:116-139, 155-164).
THEOREM TextAllowedIfConforms ==
  ASSUME NEW C, NEW chars \in Seq(C)
  PROVE  TextAllowed(Decoded(chars)) <=> TextConforms(chars)
BY LoneIsUnpaired, BytesOfPairs DEF TextAllowed, TextConforms

-----------------------------------------------------------------------------
(* Depth. *)

LEMMA DepthStep ==
  ASSUME NEW ts, NEW i \in Nat \ {0}
  PROVE  /\ Depth(ts, 1) = 0
         /\ Depth(ts, i) \in Int
         /\ Opening(ts, i) => Depth(ts, i + 1) = Depth(ts, i) + 1
         /\ Closing(ts, i) => Depth(ts, i + 1) = Depth(ts, i) - 1
         /\ ~Opening(ts, i) /\ ~Closing(ts, i) => Depth(ts, i + 1) = Depth(ts, i)
<1> DEFINE O(n) == {k \in 1 .. n - 1 : Opening(ts, k)}
           C(n) == {k \in 1 .. n - 1 : Closing(ts, k)}
<1>1. \A n : Depth(ts, n) = Cardinality(O(n)) - Cardinality(C(n))
  BY DEF Depth
<1>2. O(1) = {} /\ C(1) = {}
  OBVIOUS
<1>3. /\ O(i + 1) = IF Opening(ts, i) THEN O(i) \cup {i} ELSE O(i)
      /\ C(i + 1) = IF Closing(ts, i) THEN C(i) \cup {i} ELSE C(i)
      /\ i \notin O(i) /\ i \notin C(i)
  OBVIOUS
<1>4. IsFiniteSet(O(i)) /\ IsFiniteSet(C(i))
  <2>1. IsFiniteSet(1 .. i - 1)
    BY FS_Interval
  <2>2. O(i) \in SUBSET (1 .. i - 1) /\ C(i) \in SUBSET (1 .. i - 1)
    OBVIOUS
  <2> HIDE DEF O, C
  <2> QED BY <2>1, <2>2, FS_Subset
<1>5. ~(Opening(ts, i) /\ Closing(ts, i))
  BY DEF Opening, Closing
<1> HIDE DEF O, C
<1>6. Cardinality(O(i)) \in Nat /\ Cardinality(C(i)) \in Nat
  BY <1>4, FS_CardinalityType
<1>7. /\ Opening(ts, i) => Cardinality(O(i + 1)) = Cardinality(O(i)) + 1
      /\ Closing(ts, i) => Cardinality(C(i + 1)) = Cardinality(C(i)) + 1
  BY <1>3, <1>4, FS_AddElement
<1>8. /\ ~Opening(ts, i) => O(i + 1) = O(i)
      /\ ~Closing(ts, i) => C(i + 1) = C(i)
  BY <1>3
<1>9. Depth(ts, 1) = 0
  BY <1>1, <1>2, FS_EmptySet
<1>10. Depth(ts, i) = Cardinality(O(i)) - Cardinality(C(i)) /\ Depth(ts, i + 1) = Cardinality(O(i + 1)) - Cardinality(C(i + 1))
  BY <1>1
<1>11. Opening(ts, i) => ~Closing(ts, i)
  BY <1>5
<1> QED BY <1>6, <1>7, <1>8, <1>9, <1>10, <1>11

\* What a text that is JSON looks like from its first token on.
LEMMA JsonFacts ==
  ASSUME NEW ts \in Seq(Tokens), Json(ts)
  PROVE  /\ Len(ts) \in Nat \ {0} /\ DOMAIN ts = 1 .. Len(ts)
         /\ \A i \in 2 .. Len(ts) : Depth(ts, i) >= 1
         /\ Depth(ts, 1) = 0 /\ Depth(ts, Len(ts) + 1) = 0
         /\ ~Closing(ts, 1) /\ ts[1].t # "key"
<1>1. Len(ts) \in Nat \ {0} /\ DOMAIN ts = 1 .. Len(ts)
  <2>1. ts # <<>>
    BY DEF Json
  <2> QED BY <2>1
<1>2. \A i \in 2 .. Len(ts) : Depth(ts, i) \in Int /\ Depth(ts, i) >= 1
  <2> SUFFICES ASSUME NEW i \in 2 .. Len(ts) PROVE Depth(ts, i) \in Int /\ Depth(ts, i) >= 1
    OBVIOUS
  <2>1. i \in Nat \ {0} /\ i \in DOMAIN ts /\ i > 1
    BY <1>1
  <2>2. Depth(ts, i) > 0 /\ Depth(ts, i) \in Int
    BY <2>1, DepthStep DEF Json
  <2> QED BY <2>2
<1>3. Depth(ts, 1) = 0 /\ Depth(ts, Len(ts) + 1) = 0
  <2>1. 1 \in Nat \ {0}
    OBVIOUS
  <2>2. Depth(ts, 1) = 0
    BY <2>1, DepthStep
  <2> QED BY <2>2 DEF Json
<1>4. ~Closing(ts, 1)
  <2> SUFFICES ASSUME Closing(ts, 1) PROVE FALSE
    OBVIOUS
  <2>1. Depth(ts, 2) = 0 - 1
    <3>1. Depth(ts, 1 + 1) = Depth(ts, 1) - 1
      BY DepthStep
    <3> QED BY <1>3, <3>1
  <2>2. Len(ts) = 1 \/ 2 \in 2 .. Len(ts)
    BY <1>1
  <2>3. CASE Len(ts) = 1
    <3>1. Depth(ts, 2) = 0
      BY <1>3, <2>3
    <3> QED BY <2>1, <3>1
  <2>4. CASE 2 \in 2 .. Len(ts)
    <3>1. Depth(ts, 2) >= 1
      BY <1>2, <2>4
    <3> QED BY <2>1, <3>1
  <2> QED BY <2>2, <2>3, <2>4
<1>5. ts[1].t # "key"
  <2> SUFFICES ASSUME ts[1].t = "key" PROVE FALSE
    OBVIOUS
  <2>0. 1 \in DOMAIN ts
    BY <1>1
  <2>1. PICK i \in DOMAIN ts : 1 \in Inside(ts, i)
    BY <2>0 DEF Json
  <2>2. 1 \in i + 1 .. Len(ts)
    BY <2>1 DEF Inside
  <2> QED BY <1>1, <2>2
<1> QED BY <1>1, <1>2, <1>3, <1>4, <1>5

LEMMA InsideAre ==
  ASSUME NEW ts, Len(ts) \in Nat, NEW a \in Nat
  PROVE  /\ Inside(ts, a) \in SUBSET (a + 1 .. Len(ts))
         /\ Names(ts, a) \in SUBSET Nat /\ Items(ts, a) \in SUBSET Nat
         /\ Names(ts, a) \subseteq Inside(ts, a) /\ Items(ts, a) \subseteq Inside(ts, a)
<1>1. Inside(ts, a) \in SUBSET (a + 1 .. Len(ts))
  BY DEF Inside
<1>2. \A j \in Inside(ts, a) : j \in Nat
  BY <1>1
<1> QED BY <1>1, <1>2 DEF Names, Items

LEMMA UptoNext ==
  ASSUME NEW S \in SUBSET Nat, NEW p \in Nat
  PROVE  /\ Upto(S, p) \in SUBSET Nat /\ \A j \in Upto(S, p) : j < p + 1
         /\ p + 1 \in S => Upto(S, p + 1) = Upto(S, p) \cup {p + 1}
         /\ p + 1 \notin S => Upto(S, p + 1) = Upto(S, p)
<1>0. \A j \in S : j \in Nat
  OBVIOUS
<1>1. \A j \in Nat : (j <= p + 1 <=> j <= p \/ j = p + 1) /\ (j <= p => j < p + 1)
  OBVIOUS
<1> QED BY <1>0, <1>1 DEF Upto

-----------------------------------------------------------------------------
(* What the parser has made so far. *)

\* How far the members of the d-th open container have been read.
ReadUpto(d) == IF d = Len(open) THEN pos ELSE open[d + 1].at - 1

\* The d-th open container is what stands around the next token at depth d.
Around(d) ==
  LET a == open[d].at
  IN  /\ a \in 1 .. pos /\ Opening(Toks, a) /\ Depth(Toks, a) = d - 1
      /\ \A k \in a + 1 .. pos + 1 : Depth(Toks, k) >= d

Collected(d) ==
  /\ Lists(open[d].names, Upto(Names(Toks, open[d].at), ReadUpto(d)))
  /\ Lists(open[d].items, Upto(Items(Toks, open[d].at), ReadUpto(d)))

Frame == [at : Nat, names : Seq(Nat), items : Seq(Nat)]

Nested ==
  /\ open \in Seq(Frame)
  /\ Len(open) = Depth(Toks, pos + 1)
  /\ \A d \in DOMAIN open : Around(d) /\ Collected(d)

\* The value that begins at p says what the text does, and passed the callbacks.
Faithful(p) ==
  LET v == objects[p]
  IN  IF Opening(Toks, p)
      THEN /\ v.t = Toks[p].t
           /\ Lists(v.names, Names(Toks, p)) /\ Lists(v.items, Items(Toks, p))
           /\ v.t = "{" => NamesConform(Toks, p)
      ELSE v = Literal(Toks[p]) /\ (Toks[p].t # "key" => LiteralAllowed(Toks[p]))

StillOpen(p) == \E d \in DOMAIN open : open[d].at = p

Made == /\ DOMAIN objects = DOMAIN Toks
        /\ \A p \in 1 .. pos : Closing(Toks, p) \/ StillOpen(p) \/ Faithful(p)

-----------------------------------------------------------------------------
(* What the walk has yet to see. *)

Value(p) == p \in DOMAIN Toks /\ ~Closing(Toks, p) /\ Toks[p].t # "key"

\* The value at p stands in the one at a, or is it.
Under(p, a) ==
  \/ p = a
  \/ Opening(Toks, a) /\ p > a /\ \A k \in a + 1 .. p : Depth(Toks, k) > Depth(Toks, a)

\* The part of the format that the walk checks at a value.
Walked(p) ==
  /\ Opening(Toks, p) => Depth(Toks, p) < MaxDepth
  /\ Toks[p].t = "{" => \A j \in Names(Toks, p) : TextConforms(Toks[j].chars)
  /\ Toks[p].t = "[" => Cardinality(Items(Toks, p)) <= MaxArray
  /\ Toks[p].t = "str" => TextConforms(Toks[p].chars)
  /\ Toks[p].t = "int" => Toks[p].num <= MaxDigits

Waiting == [value : Nat, depth : Nat]

Pending ==
  /\ pending \in Seq(Waiting)
  /\ \A m \in DOMAIN pending :
       /\ Value(pending[m].value)
       /\ pending[m].depth = Depth(Toks, pending[m].value) /\ pending[m].depth <= MaxDepth

Left == \A p \in DOMAIN Toks : Value(p) => Walked(p) \/ \E m \in DOMAIN pending : Under(p, pending[m].value)

-----------------------------------------------------------------------------

Stages == {"given", "parsing", "parsed", "walking", "loaded", "refused"}

AtStage ==
  /\ stage = "given" => pos = 0 /\ open = <<>>
  /\ stage \notin {"given", "refused"} => text.bytes <= MaxBytes
  /\ stage = "parsing" => pos < L /\ (pos > 0 => open # <<>>)
  /\ stage \in {"parsed", "walking", "loaded"} => pos = L /\ open = <<>> /\ document = 1
  /\ stage \in {"walking", "loaded"} => Toks[1].t = "{" /\ Pending /\ Left
  /\ stage = "loaded" => pending = <<>>
  /\ stage = "refused" => ~InFormat

IInv ==
  /\ text \in Texts /\ stage \in Stages /\ pos \in 0 .. L
  /\ stage # "refused" => Nested /\ Made
  /\ AtStage

-----------------------------------------------------------------------------

LEMMA TextFacts ==
  ASSUME text \in Texts
  PROVE  /\ Toks \in Seq(Tokens) /\ Json(Toks) /\ text.bytes \in Nat
         /\ L \in Nat \ {0} /\ DOMAIN Toks = 1 .. L
         /\ \A i \in 2 .. L : Depth(Toks, i) >= 1
         /\ Depth(Toks, 1) = 0 /\ Depth(Toks, L + 1) = 0
         /\ ~Closing(Toks, 1) /\ Toks[1].t # "key"
BY TextAssumption, JsonFacts DEF Toks, L

\* Where the parser stands: as deep as the next token, and in no container only
\* before the first.
LEMMA Standing ==
  ASSUME IInv, stage = "parsing"
  PROVE  /\ pos \in Nat /\ Here \in 1 .. L /\ Here \in DOMAIN Toks
         /\ Len(open) \in Nat /\ DOMAIN open = 1 .. Len(open) /\ Len(open) = Depth(Toks, Here)
         /\ Len(open) = 0 <=> pos = 0
         /\ \A d \in DOMAIN open : open[d] \in Frame /\ Around(d) /\ Collected(d)
         /\ Depth(Toks, Here + 1) \in Int
         /\ Depth(Toks, Here + 1) >= 0
         /\ Depth(Toks, Here + 1) = 0 <=> Here = L
<1>1. pos \in 0 .. L /\ L \in Nat /\ pos < L /\ (pos > 0 => open # <<>>)
  BY TextFacts DEF IInv, AtStage
<1>2. /\ open \in Seq(Frame) /\ Len(open) = Depth(Toks, Here)
      /\ \A d \in DOMAIN open : Around(d) /\ Collected(d)
  BY DEF IInv, Nested, Here
<1>3. Len(open) \in Nat /\ DOMAIN open = 1 .. Len(open) /\ (Len(open) = 0 <=> open = <<>>)
  BY <1>2
<1>4. pos = 0 => Len(open) = 0
  BY <1>2, TextFacts DEF IInv, Here
<1>5. Depth(Toks, Here + 1) \in Int
  BY <1>1, DepthStep DEF Here
<1>6. Here + 1 = L + 1 \/ Here + 1 \in 2 .. L
  BY <1>1 DEF Here
<1>7. Depth(Toks, L + 1) = 0 /\ \A i \in 2 .. L : Depth(Toks, i) >= 1
  BY TextFacts DEF IInv
<1>8. Depth(Toks, Here + 1) >= 0 /\ (Depth(Toks, Here + 1) = 0 <=> Here = L)
  <2>1. CASE Here = L
    BY <1>7, <2>1
  <2>2. CASE Here # L
    <3>1. Here + 1 \in 2 .. L
      BY <1>1, <2>2 DEF Here
    <3> QED BY <1>5, <1>7, <2>2, <3>1
  <2> QED BY <2>1, <2>2
<1>9. pos \in Nat /\ Here \in 1 .. L /\ Here \in DOMAIN Toks
  BY <1>1, TextFacts DEF IInv, Here
<1> QED BY <1>1, <1>2, <1>3, <1>4, <1>5, <1>8, <1>9

\* The next token stands directly in the innermost open container.
LEMMA NextIsInside ==
  ASSUME IInv, stage = "parsing", Len(open) > 0, ~Closing(Toks, Here)
  PROVE  Here \in Inside(Toks, Inner.at)
<1> DEFINE n == Len(open)
           a == Inner.at
<1>1. n \in DOMAIN open /\ n \in Nat /\ n = Depth(Toks, Here) /\ pos \in Nat /\ Here \in 1 .. L /\ L \in Nat
  BY Standing, TextFacts DEF IInv
<1>2. a \in 1 .. pos /\ Depth(Toks, a) = n - 1 /\ \A k \in a + 1 .. Here : Depth(Toks, k) >= n
  BY <1>1, Standing DEF Around, Inner, Here
<1>3. \A k \in a + 1 .. Here : Depth(Toks, k) \in Int
  BY <1>1, <1>2, DepthStep DEF Here
<1> HIDE DEF a
<1>4. Here \in a + 1 .. L
  BY <1>1, <1>2 DEF Here
<1>5. Depth(Toks, Here) = Depth(Toks, a) + 1
  BY <1>1, <1>2
<1>6. \A k \in a + 1 .. Here : Depth(Toks, k) > Depth(Toks, a)
  BY <1>1, <1>2, <1>3
<1> QED BY <1>4, <1>5, <1>6 DEF Inside, L, a

\* A container that stays open goes on standing around what comes next.
LEMMA AroundStays ==
  ASSUME IInv, stage = "parsing", text' = text, pos' = Here,
         NEW d \in DOMAIN open, open'[d].at = open[d].at, Depth(Toks, Here + 1) >= d
  PROVE  Around(d)'
<1> DEFINE a == open[d].at
<1>1. /\ pos \in Nat /\ a \in 1 .. pos /\ Opening(Toks, a) /\ Depth(Toks, a) = d - 1
      /\ \A k \in a + 1 .. pos + 1 : Depth(Toks, k) >= d
  BY Standing DEF Around
<1> HIDE DEF a
<1>2. a \in 1 .. Here
  BY <1>1 DEF Here
<1>3. \A k \in a + 1 .. Here + 1 : Depth(Toks, k) >= d
  <2>1. \A k \in a + 1 .. Here + 1 : k = Here + 1 \/ k \in a + 1 .. pos + 1
    BY <1>1 DEF Here
  <2> QED BY <1>1, <2>1
<1>4. Toks' = Toks
  BY DEF Toks
<1> QED BY <1>1, <1>2, <1>3, <1>4 DEF Around, a

-----------------------------------------------------------------------------

LEMMA RefuseStep ==
  ASSUME IInv, Refuse, ~InFormat
  PROVE  IInv'
<1>1. stage' = "refused" /\ text' = text /\ pos' = pos
  BY DEF Refuse
<1>2. ~InFormat'
  BY <1>1 DEF InFormat
<1>3. text' \in Texts /\ stage' \in Stages /\ pos' \in 0 .. L'
  BY <1>1 DEF IInv, Stages, L, Toks
<1> QED BY <1>1, <1>2, <1>3 DEF IInv, AtStage

\* A text fails the format at a token.
LEMMA Fails ==
  ASSUME NEW i \in DOMAIN Toks, ~Conforms(Toks, i)
  PROVE  ~InFormat
BY DEF InFormat, Toks

LEMMA CheckSizeStep ==
  ASSUME IInv, CheckSize
  PROVE  IInv'
<1>1. stage = "given" /\ pos = 0 /\ open = <<>> /\ text.bytes \in Nat /\ MaxBytes \in Nat /\ L \in Nat \ {0}
  BY TextFacts, LimitAssumption DEF IInv, AtStage, CheckSize
<1>2. CASE text.bytes > MaxBytes
  <2>0. ~(text.bytes <= MaxBytes)
    BY <1>1, <1>2
  <2>1. ~InFormat
    BY <2>0 DEF InFormat
  <2> QED BY <1>2, <2>1, RefuseStep DEF CheckSize
<1>3. CASE ~(text.bytes > MaxBytes)
  <2>1. stage' = "parsing" /\ UNCHANGED <<text, pos, open, objects, document, pending>>
    BY <1>3 DEF CheckSize
  <2>2. Nested /\ Made
    BY <1>1 DEF IInv
  <2>3. Nested'
    BY <2>1, <2>2 DEF Nested, Around, Collected, ReadUpto, Toks
  <2>4. Made'
    BY <2>1, <2>2 DEF Made, Faithful, StillOpen, Toks
  <2>5. AtStage'
    BY <1>1, <1>3, <2>1 DEF AtStage, L, Toks
  <2>6. text' \in Texts /\ stage' \in Stages /\ pos' \in 0 .. L'
    BY <2>1 DEF IInv, Stages, L, Toks
  <2> QED BY <2>3, <2>4, <2>5, <2>6 DEF IInv
<1> QED BY <1>2, <1>3

\* A container opens: nothing of it has been read.
LEMMA OpenStep ==
  ASSUME IInv, Open
  PROVE  IInv'
<1>1. stage = "parsing" /\ Opening(Toks, Here) /\ text' = text /\ pending' = pending
  BY DEF Open, Scan, Opening, Tok, Toks
<1>n. PICK n \in Nat : n = Len(open)
  BY <1>1, Standing
<1>2. /\ pos \in Nat /\ Here \in 1 .. L /\ Here \in DOMAIN Toks
      /\ n \in Nat /\ DOMAIN open = 1 .. n /\ n = Depth(Toks, Here)
      /\ \A d \in DOMAIN open : open[d] \in Frame /\ Around(d) /\ Collected(d)
      /\ Depth(Toks, Here + 1) = 0 <=> Here = L
  BY <1>1, <1>n, Standing
<1>3. CASE n = ParserDepth
  <2>1. n >= MaxDepth /\ MaxDepth \in Nat
    BY <1>3, ParserAssumption, LimitAssumption
  <2>a. ~(Depth(Toks, Here) < MaxDepth)
    BY <1>2, <2>1
  <2>2. ~Conforms(Toks, Here)
    BY <1>1, <2>a DEF Conforms
  <2>3. ~InFormat
    BY <1>2, <2>2, Fails
  <2>4. Refuse
    BY <1>1, <1>3, <1>n DEF Open
  <2> QED BY <2>3, <2>4, RefuseStep
<1>4. CASE n # ParserDepth
  <2> DEFINE new == [at |-> Here, names |-> <<>>, items |-> <<>>]
  <2>1. /\ open' = Append(open, new) /\ pos' = Here
        /\ stage' = stage /\ objects' = objects /\ document' = document
    BY <1>1, <1>4, <1>n DEF Open
  <2>2. Depth(Toks, Here + 1) = n + 1 /\ Toks' = Toks /\ L' = L
    BY <1>1, <1>2, DepthStep DEF Toks, L
  <2>3. open \in Seq(Frame) /\ new \in Frame
    BY <1>1, <1>2 DEF IInv, Nested, Frame, Here
  <2>4. /\ open' \in Seq(Frame) /\ Len(open') = n + 1 /\ DOMAIN open' = 1 .. n + 1
        /\ open'[n + 1] = new /\ \A d \in 1 .. n : open'[d] = open[d]
    <3> HIDE DEF new
    <3> QED BY <1>2, <1>n, <2>1, <2>3
  <2>5. ASSUME NEW d \in 1 .. n PROVE Around(d)' /\ Collected(d)'
    <3>1. Around(d)'
      BY <1>1, <1>2, <2>1, <2>2, <2>4, AroundStays
    <3>2. ReadUpto(d)' = ReadUpto(d)
      <4>1. CASE d = n
        <5>1. d # Len(open') /\ open'[d + 1].at - 1 = pos
          BY <1>2, <2>4, <4>1 DEF Here
        <5> QED BY <1>n, <4>1, <5>1 DEF ReadUpto
      <4>2. CASE d # n
        <5>1. d + 1 \in 1 .. n /\ d # n + 1
          BY <1>2, <4>2
        <5>2. open'[d + 1] = open[d + 1]
          BY <2>4, <5>1
        <5> QED BY <1>n, <2>4, <4>2, <5>1, <5>2 DEF ReadUpto
      <4> QED BY <4>1, <4>2
    <3>3. Collected(d)
      BY <1>2
    <3>4. open'[d] = open[d]
      BY <2>4
    <3> QED BY <2>2, <3>1, <3>2, <3>3, <3>4 DEF Collected
  <2>6. Around(n + 1)'
    <3>1. Depth(Toks, Here) = n
      BY <1>2
    <3>2. \A k \in Here + 1 .. Here + 1 : Depth(Toks, k) >= n + 1
      BY <1>2, <2>2
    <3>3. Here \in 1 .. Here /\ n = (n + 1) - 1
      BY <1>2 DEF Here
    <3> QED BY <1>1, <2>1, <2>2, <2>4, <3>1, <3>2, <3>3 DEF Around
  <2>7. Collected(n + 1)'
    <3>1. Upto(Names(Toks, Here), Here) = {} /\ Upto(Items(Toks, Here), Here) = {}
      <4>1. L \in Nat /\ Here \in Nat
        BY <1>2, TextFacts DEF IInv, Here
      <4>2. \A j \in Inside(Toks, Here) : j \in Nat /\ j > Here
        BY <4>1, InsideAre DEF L
      <4> QED BY <4>1, <4>2 DEF Upto, Names, Items
    <3>2. ReadUpto(n + 1)' = Here
      BY <2>1, <2>4 DEF ReadUpto
    <3>3. new.at = Here /\ new.names = <<>> /\ new.items = <<>>
      OBVIOUS
    <3> QED BY <2>2, <2>4, <3>1, <3>2, <3>3, ListsNothing DEF Collected
  <2>8. Nested'
    <3>1. \A d \in DOMAIN open' : d \in 1 .. n \/ d = n + 1
      BY <1>2, <2>4
    <3>2. \A d \in DOMAIN open' : Around(d)' /\ Collected(d)'
      BY <2>5, <2>6, <2>7, <3>1
    <3>3. Len(open') = Depth(Toks', pos' + 1)
      BY <2>1, <2>2, <2>4
    <3> QED BY <2>4, <3>2, <3>3 DEF Nested
  <2>9. Made'
    <3>1. ASSUME NEW p \in 1 .. Here PROVE Closing(Toks, p) \/ StillOpen(p)' \/ Faithful(p)'
      <4>1. CASE p = Here
        <5>1. n + 1 \in DOMAIN open' /\ open'[n + 1].at = p
          BY <1>2, <2>4, <4>1
        <5> QED BY <5>1 DEF StillOpen
      <4>2. CASE p # Here
        <5>1. p \in 1 .. pos
          BY <1>2, <4>2 DEF Here
        <5>2. Closing(Toks, p) \/ StillOpen(p) \/ Faithful(p)
          BY <1>1, <5>1 DEF IInv, Made
        <5>3. StillOpen(p) => StillOpen(p)'
          BY <1>2, <2>4 DEF StillOpen
        <5>4. Faithful(p) => Faithful(p)'
          BY <2>1, <2>2 DEF Faithful
        <5> QED BY <5>2, <5>3, <5>4
      <4> QED BY <4>1, <4>2
    <3>2. DOMAIN objects' = DOMAIN Toks'
      BY <1>1, <2>1, <2>2 DEF IInv, Made
    <3> QED BY <2>1, <2>2, <3>1, <3>2 DEF Made
  <2>10. AtStage'
    <3>0. Here # L /\ L \in Nat
      BY <1>2, <2>2, TextFacts DEF IInv
    <3>1. Here < L /\ open' # <<>>
      BY <1>2, <2>4, <3>0
    <3>2. text.bytes <= MaxBytes
      BY <1>1 DEF IInv, AtStage
    <3> QED BY <1>1, <2>1, <2>2, <3>1, <3>2 DEF AtStage
  <2> QED BY <1>1, <1>2, <2>1, <2>2, <2>8, <2>9, <2>10 DEF IInv, Stages, Here
<1> QED BY <1>3, <1>4

\* A name or a literal goes into the innermost open container.
LEMMA TokenStep ==
  ASSUME IInv, stage = "parsing", Len(open) > 0,
         text' = text, pending' = pending, pos' = Here, stage' = stage,
         ~Opening(Toks, Here), ~Closing(Toks, Here),
         Tok.t # "key" => LiteralAllowed(Tok),
         objects' = [objects EXCEPT ![Here] = Literal(Tok)],
         open' = IF Tok.t = "key"
                 THEN [open EXCEPT ![Len(open)].names = Append(@, Here)]
                 ELSE [open EXCEPT ![Len(open)].items = Append(@, Here)]
  PROVE  IInv'
<1>n. PICK n \in Nat : n = Len(open)
  BY Standing
<1>p. PICK p \in Nat : p = Here
  BY Standing DEF Here
<1>2. /\ pos \in Nat /\ p = pos + 1 /\ p \in 1 .. L /\ p \in DOMAIN Toks
      /\ n > 0 /\ DOMAIN open = 1 .. n /\ n = Depth(Toks, p)
      /\ \A d \in DOMAIN open : open[d] \in Frame /\ Around(d) /\ Collected(d)
      /\ Depth(Toks, p + 1) = 0 <=> p = L
  BY <1>n, <1>p, Standing DEF Here
<1>3. /\ Toks' = Toks /\ L' = L /\ Depth(Toks, p + 1) = n /\ Tok = Toks[p] /\ n \in DOMAIN open
      /\ ~Opening(Toks, p) /\ ~Closing(Toks, p)
  BY <1>2, <1>p, DepthStep DEF Toks, L, Tok
<1> DEFINE f == open[n]
           g == IF Toks[p].t = "key" THEN [f EXCEPT !.names = Append(f.names, p)]
                                     ELSE [f EXCEPT !.items = Append(f.items, p)]
<1>4. open \in Seq(Frame) /\ f \in Frame /\ g \in Frame
  <2>1. open \in Seq(Frame) /\ f \in Frame
    BY <1>2, <1>3 DEF IInv, Nested
  <2>2. Append(f.names, p) \in Seq(Nat) /\ Append(f.items, p) \in Seq(Nat)
    BY <1>2, <2>1 DEF Frame
  <2>3. \A h \in Frame, q \in Seq(Nat) : [h EXCEPT !.names = q] \in Frame /\ [h EXCEPT !.items = q] \in Frame
    BY DEF Frame
  <2> HIDE DEF f
  <2> QED BY <2>1, <2>2, <2>3
<1>5. open' = [open EXCEPT ![n] = g]
  BY <1>n, <1>p, <1>3
<1>6. g.at = f.at
  BY <1>4 DEF Frame
<1>7. /\ open' \in Seq(Frame) /\ Len(open') = n /\ DOMAIN open' = 1 .. n
      /\ open'[n] = g /\ \A d \in 1 .. n : d # n => open'[d] = open[d]
  <2> HIDE DEF g
  <2> QED BY <1>n, <1>2, <1>4, <1>5
<1>8. \A d \in 1 .. n : open'[d].at = open[d].at
  BY <1>6, <1>7
<1>9. ASSUME NEW d \in 1 .. n PROVE Around(d)'
  BY <1>p, <1>2, <1>3, <1>8, AroundStays
<1>10. ASSUME NEW d \in 1 .. n, d # n PROVE Collected(d)'
  <2>1. ReadUpto(d)' = ReadUpto(d)
    <3>1. d + 1 \in 1 .. n
      BY <1>2, <1>10
    <3>2. open'[d + 1].at = open[d + 1].at
      BY <1>8, <3>1
    <3> QED BY <1>n, <1>7, <1>10, <3>2 DEF ReadUpto
  <2>2. Collected(d) /\ open'[d] = open[d]
    BY <1>2, <1>7, <1>10
  <2> QED BY <1>3, <2>1, <2>2 DEF Collected
<1>11. Collected(n)'
  <2> DEFINE a == f.at
             N == Names(Toks, a)
             I == Items(Toks, a)
  <2>1. a \in Nat /\ L \in Nat
    BY <1>4, TextFacts DEF IInv, Frame
  <2>2. N \in SUBSET Nat /\ I \in SUBSET Nat
    BY <2>1, InsideAre DEF L
  <2>3. p \in Inside(Toks, a)
    BY <1>n, <1>p, <1>2, <1>3, NextIsInside DEF Inner
  <2>4. Lists(f.names, Upto(N, pos)) /\ Lists(f.items, Upto(I, pos))
    BY <1>n, <1>2, <1>3 DEF Collected, ReadUpto
  <2>5. ReadUpto(n)' = p
    BY <1>p, <1>7 DEF ReadUpto
  <2>6. CASE Toks[p].t = "key"
    <3>1. p \in N /\ p \notin I
      BY <2>3, <2>6 DEF Names, Items
    <3> HIDE DEF N, I
    <3>2. Upto(N, p) = Upto(N, pos) \cup {p} /\ Upto(I, p) = Upto(I, pos)
      BY <1>2, <2>2, <3>1, UptoNext
    <3>3. Upto(N, pos) \in SUBSET Nat /\ \A j \in Upto(N, pos) : j < p
      BY <1>2, <2>2, UptoNext
    <3>4. Lists(Append(f.names, p), Upto(N, p))
      BY <2>4, <3>2, <3>3, ListsOneMore
    <3>5. g.names = Append(f.names, p) /\ g.items = f.items
      BY <1>4, <2>6 DEF Frame
    <3> QED BY <1>3, <1>6, <1>7, <2>4, <2>5, <3>2, <3>4, <3>5 DEF Collected, N, I
  <2>7. CASE Toks[p].t # "key"
    <3>1. p \notin N /\ p \in I
      BY <2>3, <2>7 DEF Names, Items
    <3> HIDE DEF N, I
    <3>2. Upto(I, p) = Upto(I, pos) \cup {p} /\ Upto(N, p) = Upto(N, pos)
      BY <1>2, <2>2, <3>1, UptoNext
    <3>3. Upto(I, pos) \in SUBSET Nat /\ \A j \in Upto(I, pos) : j < p
      BY <1>2, <2>2, UptoNext
    <3>4. Lists(Append(f.items, p), Upto(I, p))
      BY <2>4, <3>2, <3>3, ListsOneMore
    <3>5. g.items = Append(f.items, p) /\ g.names = f.names
      BY <1>4, <2>7 DEF Frame
    <3> QED BY <1>3, <1>6, <1>7, <2>4, <2>5, <3>2, <3>4, <3>5 DEF Collected, N, I
  <2> QED BY <2>6, <2>7
<1>12. Nested'
  <2>1. \A d \in 1 .. n : Around(d)' /\ Collected(d)'
    BY <1>9, <1>10, <1>11
  <2>2. Len(open') = Depth(Toks', pos' + 1)
    BY <1>p, <1>3, <1>7
  <2> QED BY <1>7, <2>1, <2>2 DEF Nested
<1>13. Made'
  <2>0. DOMAIN objects = DOMAIN Toks
    BY DEF IInv, Made
  <2>1. ASSUME NEW q \in 1 .. p PROVE Closing(Toks, q) \/ StillOpen(q)' \/ Faithful(q)'
    <3>1. CASE q = p
      <4>1. objects'[p] = Literal(Toks[p])
        BY <1>p, <1>2, <1>3, <2>0
      <4> QED BY <1>3, <3>1, <4>1 DEF Faithful
    <3>2. CASE q # p
      <4>1. q \in 1 .. pos /\ objects'[q] = objects[q]
        <5>1. q \in 1 .. pos
          BY <1>2, <3>2
        <5> QED BY <1>p, <3>2, <5>1, <2>0
      <4>2. Closing(Toks, q) \/ StillOpen(q) \/ Faithful(q)
        BY <4>1 DEF IInv, Made
      <4>3. StillOpen(q) => StillOpen(q)'
        BY <1>2, <1>7, <1>8 DEF StillOpen
      <4>4. Faithful(q) => Faithful(q)'
        BY <1>3, <4>1 DEF Faithful
      <4> QED BY <4>2, <4>3, <4>4
    <3> QED BY <3>1, <3>2
  <2>2. DOMAIN objects' = DOMAIN Toks'
    BY <1>3, <2>0
  <2> QED BY <1>p, <1>3, <2>1, <2>2 DEF Made
<1>14. AtStage'
  <2>0. p # L /\ L \in Nat
    BY <1>2, <1>3, TextFacts DEF IInv
  <2>1. p < L /\ open' # <<>>
    BY <1>2, <1>7, <2>0
  <2>2. text.bytes <= MaxBytes
    BY DEF IInv, AtStage
  <2> QED BY <1>p, <1>3, <2>1, <2>2 DEF AtStage
<1> QED BY <1>p, <1>2, <1>3, <1>12, <1>13, <1>14 DEF IInv, Stages

\* The outermost value is complete, and with it the text.
LEMMA ParsedStep ==
  ASSUME IInv, stage = "parsing", text' = text, pos' = Here, Here = L, stage' = "parsed",
         document' = 1, open' = <<>>, Made'
  PROVE  IInv'
<1>1. Here \in 1 .. L /\ Depth(Toks, Here + 1) = 0 /\ Toks' = Toks /\ L' = L /\ L \in Nat
  BY Standing, TextFacts DEF Toks, L, IInv
<1>2. Nested'
  BY <1>1 DEF Nested, Toks
<1>3. text.bytes <= MaxBytes
  BY DEF IInv, AtStage
<1>4. AtStage'
  BY <1>1, <1>3 DEF AtStage
<1>5. pos' \in 0 .. L'
  BY <1>1
<1> QED BY <1>2, <1>4, <1>5 DEF IInv, Stages

LEMMA NameMemberStep ==
  ASSUME IInv, NameMember
  PROVE  IInv'
<1>1. /\ stage = "parsing" /\ text' = text /\ pending' = pending /\ stage' = stage /\ pos' = Here
      /\ Tok.t = "key" /\ objects' = [objects EXCEPT ![Here] = Literal(Tok)]
      /\ open' = [open EXCEPT ![Len(open)].names = Append(@, Here)]
  BY DEF NameMember, Scan
<1>2. Tok = Toks[Here] /\ ~Opening(Toks, Here) /\ ~Closing(Toks, Here)
  BY <1>1 DEF Tok, Toks, Opening, Closing
<1>3. Len(open) > 0
  <2>1. Here # 1
    BY <1>1, <1>2, TextFacts DEF IInv
  <2> QED BY <1>1, <2>1, Standing DEF Here
<1> QED BY <1>1, <1>2, <1>3, TokenStep

LEMMA ReadLiteralStep ==
  ASSUME IInv, ReadLiteral
  PROVE  IInv'
<1>1. /\ stage = "parsing" /\ text' = text /\ pending' = pending
      /\ Tok.t \in {"str", "int", "float", "true", "NaN"} /\ Tok = Toks[Here]
  BY DEF ReadLiteral, Scan, Tok, Toks
<1>2. ~Opening(Toks, Here) /\ ~Closing(Toks, Here) /\ Tok.t # "key"
  BY <1>1 DEF Opening, Closing
<1>3. Here \in DOMAIN Toks /\ Here \in 1 .. L /\ pos \in Nat
  BY <1>1, Standing
<1>4. CASE ~LiteralAllowed(Tok)
  <2>1. Tok.t = "int" /\ ~(Tok.num <= ParserDigits) => ~(Tok.num <= MaxDigits)
    <3>1. Toks[Here] \in Tokens
      BY <1>3, TextFacts DEF IInv
    <3>2. Tok.num \in Nat
      BY <1>1, <3>1 DEF Tokens
    <3> QED BY <3>2, ParserAssumption, LimitAssumption
  <2>2. ~Conforms(Toks, Here)
    BY <1>1, <1>4, <2>1 DEF LiteralAllowed, Conforms
  <2>3. ~InFormat
    BY <1>3, <2>2, Fails
  <2> QED BY <1>4, <2>3, RefuseStep DEF ReadLiteral
<1>5. CASE LiteralAllowed(Tok)
  <2>1. Deliver(Here, Literal(Tok), open)
    BY <1>5 DEF ReadLiteral
  <2>2. pos' = Here /\ objects' = [objects EXCEPT ![Here] = Literal(Tok)]
    BY <2>1 DEF Deliver, Here
  <2>3. CASE open # <<>>
    <3>1. stage' = stage /\ open' = [open EXCEPT ![Len(open)].items = Append(@, Here)]
      BY <2>1, <2>3 DEF Deliver
    <3>2. Len(open) > 0
      BY <2>3, <1>1, Standing DEF IInv, Nested
    <3> QED BY <1>1, <1>2, <1>5, <2>2, <3>1, <3>2, TokenStep
  <2>4. CASE open = <<>>
    <3>1. stage' = "parsed" /\ document' = Here /\ open' = <<>>
      BY <2>1, <2>4 DEF Deliver
    <3>2. pos = 0 /\ Here = 1 /\ Depth(Toks, Here) = 0
      BY <1>1, <2>4, Standing DEF Here
    <3>3. Depth(Toks, Here + 1) = 0
      BY <1>2, <1>3, <3>2, DepthStep
    <3>4. Here = L
      BY <1>1, <3>3, Standing
    <3>5. Made'
      <4>0. DOMAIN objects = DOMAIN Toks /\ Toks' = Toks
        BY <1>1 DEF IInv, Made, Toks
      <4>1. objects'[1] = Literal(Toks[1])
        BY <1>1, <1>3, <2>2, <3>2, <4>0
      <4>2. Faithful(1)'
        BY <1>1, <1>2, <1>5, <3>2, <4>0, <4>1 DEF Faithful
      <4>3. pos' = 1 /\ DOMAIN objects' = DOMAIN Toks'
        BY <2>2, <3>2, <4>0
      <4> QED BY <4>2, <4>3 DEF Made
    <3> QED BY <1>1, <2>2, <3>1, <3>2, <3>4, <3>5, ParsedStep
  <2> QED BY <2>3, <2>4
<1> QED BY <1>4, <1>5

-----------------------------------------------------------------------------
(* The end of a container. *)

\* At its end, all its members have been collected.
LEMMA AllCollected ==
  ASSUME IInv, stage = "parsing", Len(open) > 0, Closing(Toks, Here)
  PROVE  /\ Inner.at \in 1 .. pos /\ Opening(Toks, Inner.at)
         /\ Lists(Inner.names, Names(Toks, Inner.at))
         /\ Lists(Inner.items, Items(Toks, Inner.at))
<1>n. PICK n \in Nat : n = Len(open)
  BY Standing
<1> DEFINE f == open[n]
           a == f.at
<1>1. /\ pos \in Nat /\ Here = pos + 1 /\ n > 0 /\ n \in DOMAIN open /\ n = Depth(Toks, Here)
      /\ Around(n) /\ Collected(n) /\ L \in Nat /\ Here \in 1 .. L
  BY <1>n, Standing, TextFacts DEF Here, IInv
<1>2. a \in 1 .. pos /\ Opening(Toks, a) /\ Depth(Toks, a) = n - 1
  BY <1>1 DEF Around
<1>3. Depth(Toks, Here + 1) = n - 1
  BY <1>1, DepthStep
<1>4. \A j \in Inside(Toks, a) : j \in Nat /\ j <= pos
  <2> SUFFICES ASSUME NEW j \in Inside(Toks, a), ~(j <= pos) PROVE FALSE
    BY <1>1, <1>2, InsideAre DEF L
  <2>1. j \in a + 1 .. L /\ ~Closing(Toks, j) /\ \A k \in a + 1 .. j : Depth(Toks, k) > Depth(Toks, a)
    BY DEF Inside, L
  <2>2. j # Here
    BY <2>1
  <2>3. Here + 1 \in a + 1 .. j
    BY <1>1, <1>2, <2>1, <2>2
  <2>4. Depth(Toks, Here + 1) > Depth(Toks, a)
    BY <2>1, <2>3
  <2> QED BY <1>2, <1>3, <2>4, <1>1
<1>5. Upto(Names(Toks, a), pos) = Names(Toks, a) /\ Upto(Items(Toks, a), pos) = Items(Toks, a)
  BY <1>4 DEF Upto, Names, Items
<1>6. ReadUpto(n) = pos
  BY <1>n DEF ReadUpto
<1>7. Inner = f
  BY <1>n DEF Inner
<1> QED BY <1>1, <1>2, <1>5, <1>6, <1>7 DEF Collected

\* What the callback asks of an object's names is what the format asks of them.
LEMMA NamesAllowed ==
  ASSUME IInv, stage = "parsing", Len(open) > 0, Closing(Toks, Here)
  PROVE  MembersAllowed(Inner.names) <=> NamesConform(Toks, Inner.at)
<1> DEFINE a == Inner.at
           s == Inner.names
           N == Names(Toks, a)
           C(j) == Decoded(Toks[j].chars)
<1>1. a \in 1 .. pos /\ pos \in Nat /\ Lists(s, N) /\ L \in Nat /\ pos < L
  BY AllCollected, Standing, TextFacts DEF IInv, AtStage
<1>2. N \in SUBSET Nat
  BY <1>1, InsideAre DEF L
<1> HIDE DEF s
<1>3. /\ Cardinality(N) = Len(s) /\ \A m \in DOMAIN s : s[m] \in N
      /\ \A m, n \in DOMAIN s : s[m] = s[n] => m = n
      /\ \A j \in N : \E m \in DOMAIN s : s[m] = j
  <2> HIDE DEF N
  <2> QED BY <1>1, <1>2, ListsCount, ListsAreInjective DEF Lists
<1>4. ASSUME NEW j \in N PROVE objects[j].chars = C(j)
  <2>1. Toks[j].t = "key" /\ ~Closing(Toks, j) /\ ~Opening(Toks, j)
    BY DEF Names, Closing, Opening
  <2>2. j \in 1 .. pos
    <3>1. PICK m \in DOMAIN open : m = Len(open)
      BY Standing
    <3>2. j \in Upto(N, pos)
      <4>1. Lists(open[m].names, Upto(N, pos))
        BY <3>1, Standing DEF Collected, ReadUpto, Inner
      <4>2. PICK l \in DOMAIN s : s[l] = j
        BY <1>3
      <4>3. s = open[m].names
        BY <3>1 DEF s, Inner
      <4> HIDE DEF N
      <4> QED BY <4>1, <4>2, <4>3 DEF Lists
    <3>3. j <= pos
      BY <3>2 DEF Upto
    <3>4. j \in Inside(Toks, a)
      BY DEF Names
    <3>5. j \in a + 1 .. L
      BY <3>4 DEF Inside, L
    <3> QED BY <1>1, <3>3, <3>5
  <2>3. ~StillOpen(j)
    BY <2>1, Standing DEF StillOpen, Around
  <2>4. Faithful(j)
    BY <2>1, <2>2, <2>3 DEF IInv, Made
  <2> QED BY <2>1, <2>4 DEF Faithful, Literal
<1> HIDE DEF N, C
<1>5. (\A m \in DOMAIN s : objects[s[m]].chars \notin ObjectModelKeys)
        <=> \A j \in N : C(j) \notin ObjectModelKeys
  BY <1>3, <1>4
<1>6. (\A m, n \in DOMAIN s : m # n => objects[s[m]].chars # objects[s[n]].chars)
        <=> \A j, k \in N : j # k => C(j) # C(k)
  BY <1>3, <1>4
<1>7. Len(s) <= MaxMembers <=> Cardinality(N) <= MaxMembers
  BY <1>3
<1> QED BY <1>5, <1>6, <1>7 DEF MembersAllowed, NamesConform, s, N, C

\* What stands in the container around the one that ends, up to here, is what stood
\* before that one, and that one.
LEMMA OuterMembers ==
  ASSUME IInv, stage = "parsing", NEW m \in Nat, m > 0, m + 1 = Len(open), Closing(Toks, Here)
  PROVE  LET a == open[m + 1].at
             b == open[m].at
         IN  /\ Upto(Names(Toks, b), Here) = Upto(Names(Toks, b), a - 1)
             /\ Upto(Items(Toks, b), Here) = Upto(Items(Toks, b), a - 1) \cup {a}
             /\ a \in Nat /\ \A j \in Upto(Items(Toks, b), a - 1) : j < a
             /\ Upto(Items(Toks, b), a - 1) \in SUBSET Nat
<1> DEFINE a == open[m + 1].at
           b == open[m].at
<1>1. /\ pos \in Nat /\ Here = pos + 1 /\ m \in DOMAIN open /\ m + 1 \in DOMAIN open
      /\ Around(m) /\ Around(m + 1) /\ L \in Nat /\ Here \in 1 .. L
  BY Standing, TextFacts DEF Here, IInv
<1>2. /\ a \in 1 .. pos /\ Opening(Toks, a) /\ Depth(Toks, a) = m
      /\ \A k \in a + 1 .. Here : Depth(Toks, k) >= m + 1
  BY <1>1 DEF Around
<1>3. /\ b \in 1 .. pos /\ Opening(Toks, b) /\ Depth(Toks, b) = m - 1
      /\ \A k \in b + 1 .. Here : Depth(Toks, k) >= m
  BY <1>1 DEF Around
<1> HIDE DEF a, b
<1>4. b < a
  <2>1. CASE a = b
    BY <1>2, <1>3, <2>1
  <2>2. CASE a < b
    <3>1. b \in a + 1 .. Here
      BY <1>1, <1>2, <1>3, <2>2
    <3>2. Depth(Toks, b) >= m + 1
      BY <1>2, <3>1
    <3> QED BY <1>3, <3>2
  <2> QED BY <1>2, <1>3, <2>1, <2>2
<1>5. \A k \in b + 1 .. Here : Depth(Toks, k) \in Int
  BY <1>1, <1>3, DepthStep
<1>6. a \in Items(Toks, b)
  <2>1. a \in b + 1 .. Len(Toks)
    BY <1>1, <1>2, <1>3, <1>4 DEF L
  <2>2. Depth(Toks, a) = Depth(Toks, b) + 1
    BY <1>2, <1>3
  <2>3. \A k \in b + 1 .. a : Depth(Toks, k) > Depth(Toks, b)
    <3>1. \A k \in b + 1 .. a : k \in b + 1 .. Here
      BY <1>1, <1>2, <1>3
    <3> QED BY <1>3, <1>5, <3>1
  <2>4. ~Closing(Toks, a) /\ Toks[a].t # "key"
    BY <1>2 DEF Opening, Closing
  <2> QED BY <2>1, <2>2, <2>3, <2>4 DEF Items, Inside
<1>7. a \notin Names(Toks, b)
  BY <1>2 DEF Names, Opening
<1>8. \A j \in Inside(Toks, b) : j \in Nat /\ (j <= Here <=> j <= a - 1 \/ j = a)
  <2> SUFFICES ASSUME NEW j \in Inside(Toks, b) PROVE j \in Nat /\ (j <= Here <=> j <= a - 1 \/ j = a)
    OBVIOUS
  <2>1. j \in Nat
    BY <1>1, <1>3, InsideAre DEF L
  <2>2. ~(j \in a + 1 .. Here)
    <3> SUFFICES ASSUME j \in a + 1 .. Here PROVE FALSE
      OBVIOUS
    <3>1. Depth(Toks, j) >= m + 1
      BY <1>2
    <3>2. Depth(Toks, j) = Depth(Toks, b) + 1
      BY DEF Inside
    <3> QED BY <1>3, <3>1, <3>2
  <2> QED BY <1>1, <1>2, <2>1, <2>2
<1>9. /\ Upto(Names(Toks, b), Here) = Upto(Names(Toks, b), a - 1)
      /\ Upto(Items(Toks, b), Here) = Upto(Items(Toks, b), a - 1) \cup {a}
  <2> DEFINE N == Names(Toks, b)
             I == Items(Toks, b)
  <2>1. /\ \A j \in N : j \in Nat /\ (j <= Here <=> j <= a - 1 \/ j = a)
        /\ \A j \in I : j \in Nat /\ (j <= Here <=> j <= a - 1 \/ j = a)
    BY <1>8 DEF Names, Items
  <2>2. a \in I /\ a \notin N /\ a <= Here
    BY <1>1, <1>2, <1>6, <1>7
  <2> HIDE DEF N, I
  <2>3. Upto(N, Here) = Upto(N, a - 1)
    BY <2>1, <2>2 DEF Upto
  <2>4. Upto(I, Here) = Upto(I, a - 1) \cup {a}
    BY <2>1, <2>2 DEF Upto
  <2> QED BY <2>3, <2>4 DEF N, I
<1>10. /\ \A j \in Upto(Items(Toks, b), a - 1) : j < a
       /\ Upto(Items(Toks, b), a - 1) \in SUBSET Nat
  BY <1>2, <1>8 DEF Upto, Items
<1> QED BY <1>2, <1>9, <1>10 DEF a, b

\* A container ends: it is made, and goes into the one around it.
LEMMA CloseStep ==
  ASSUME IInv, Close
  PROVE  IInv'
<1>1. /\ stage = "parsing" /\ text' = text /\ pending' = pending
      /\ Closing(Toks, Here) /\ Toks' = Toks /\ L' = L
  BY DEF Close, Scan, Closing, Tok, Toks, L
<1>n. PICK n \in Nat : n = Len(open)
  BY <1>1, Standing
<1>p. PICK p \in Nat : p = Here
  BY <1>1, Standing DEF Here
<1>2. /\ pos \in Nat /\ p = pos + 1 /\ p \in 1 .. L /\ DOMAIN open = 1 .. n /\ n = Depth(Toks, p)
      /\ \A d \in DOMAIN open : open[d] \in Frame /\ Around(d) /\ Collected(d)
      /\ Depth(Toks, p + 1) = 0 <=> p = L
  BY <1>1, <1>n, <1>p, Standing DEF Here
<1>3. n > 0
  <2>1. p # 1
    BY <1>1, <1>p, TextFacts DEF IInv
  <2> QED BY <1>1, <1>n, <1>p, <2>1, Standing DEF Here
<1>a. PICK a \in Nat : a = Inner.at
  BY <1>1, <1>3, <1>n, <1>2, AllCollected
<1>4. /\ a \in 1 .. pos /\ a \in DOMAIN Toks /\ Opening(Toks, a) /\ a = open[n].at /\ n \in DOMAIN open
      /\ Lists(Inner.names, Names(Toks, a)) /\ Lists(Inner.items, Items(Toks, a))
      /\ MembersAllowed(Inner.names) <=> NamesConform(Toks, a)
      /\ Depth(Toks, a) = n - 1
  <2>1. Around(n) /\ n \in DOMAIN open
    BY <1>2, <1>3
  <2> QED BY <1>1, <1>2, <1>3, <1>n, <1>a, <2>1, AllCollected, NamesAllowed, TextFacts DEF IInv, Inner, Around
<1>5. Depth(Toks, p + 1) = n - 1
  BY <1>1, <1>p, <1>2, DepthStep
<1> DEFINE v == Container(Toks[a].t, Inner.names, Inner.items)
           outer == SubSeq(open, 1, Len(open) - 1)
<1>6. CASE Toks[a].t = "{" /\ ~MembersAllowed(Inner.names)
  <2>1. Refuse
    BY <1>6, <1>a DEF Close, Toks
  <2>2. ~Conforms(Toks, a)
    BY <1>4, <1>6 DEF Conforms
  <2> QED BY <1>4, <2>1, <2>2, Fails, RefuseStep
<1>7. CASE ~(Toks[a].t = "{" /\ ~MembersAllowed(Inner.names))
  <2>1. Deliver(a, v, outer)
    BY <1>7, <1>a DEF Close, Toks
  <2>2. pos' = p /\ objects' = [objects EXCEPT ![a] = v]
    BY <2>1, <1>p DEF Deliver, Here
  <2>3. DOMAIN objects = DOMAIN Toks /\ objects'[a] = v
    BY <1>1, <1>4, <2>2 DEF IInv, Made
  <2>4. Faithful(a)'
    <3>1. v.t = Toks[a].t /\ v.names = Inner.names /\ v.items = Inner.items
      BY DEF Container
    <3> HIDE DEF v
    <3>2. Lists(v.names, Names(Toks, a)) /\ Lists(v.items, Items(Toks, a))
      BY <1>4, <3>1
    <3>3. v.t = "{" => NamesConform(Toks, a)
      BY <1>4, <1>7, <3>1
    <3> QED BY <1>1, <1>4, <2>3, <3>1, <3>2, <3>3 DEF Faithful
  <2>5. ASSUME \A q : q # a /\ StillOpen(q) => StillOpen(q)' PROVE Made'
    <3>1. ASSUME NEW q \in 1 .. p PROVE Closing(Toks, q) \/ StillOpen(q)' \/ Faithful(q)'
      <4>1. CASE q = a
        BY <2>4, <4>1
      <4>2. CASE q = p
        BY <1>1, <1>p, <4>2
      <4>3. CASE q # a /\ q # p
        <5>1. q \in 1 .. pos /\ objects'[q] = objects[q]
          <6>1. q \in 1 .. pos
            BY <1>2, <4>3
          <6> QED BY <2>2, <2>3, <4>3, <6>1
        <5>2. Closing(Toks, q) \/ StillOpen(q) \/ Faithful(q)
          BY <1>1, <5>1 DEF IInv, Made
        <5>3. Faithful(q) => Faithful(q)'
          BY <1>1, <5>1 DEF Faithful
        <5> QED BY <2>5, <4>3, <5>2, <5>3
      <4> QED BY <4>1, <4>2, <4>3
    <3>2. DOMAIN objects' = DOMAIN Toks'
      BY <1>1, <2>2, <2>3
    <3> QED BY <1>1, <2>2, <3>1, <3>2 DEF Made
  <2>6. CASE n = 1
    <3>1. outer = <<>>
      <4>1. Len(open) - 1 = 0 /\ open \in Seq(Frame)
        BY <1>1, <1>n, <2>6 DEF IInv, Nested
      <4>2. \A o \in Seq(Frame) : SubSeq(o, 1, 0) = <<>>
        <5> HIDE DEF outer
        <5> QED OBVIOUS
      <4> QED BY <4>1, <4>2
    <3>2. stage' = "parsed" /\ document' = a /\ open' = <<>>
      BY <2>1, <3>1 DEF Deliver
    <3>3. a = 1
      <4>1. Depth(Toks, a) = 0
        BY <1>4, <2>6
      <4>2. a = 1 \/ a \in 2 .. L
        <5>1. L \in Nat
          BY TextFacts DEF IInv
        <5> QED BY <1>2, <1>4, <5>1
      <4>3. a \in 2 .. L => Depth(Toks, a) >= 1
        BY TextFacts DEF IInv
      <4> QED BY <4>1, <4>2, <4>3
    <3>4. p = L
      BY <1>2, <1>5, <2>6
    <3>5. \A q : q # a => ~StillOpen(q)
      BY <1>2, <1>4, <2>6 DEF StillOpen
    <3> QED BY <1>1, <1>p, <2>2, <2>5, <3>2, <3>3, <3>4, <3>5, ParsedStep
  <2>7. CASE n # 1
    <3>m. PICK m \in Nat : m > 0 /\ n = m + 1
      <4>1. n - 1 \in Nat /\ n - 1 > 0 /\ n = (n - 1) + 1
        BY <1>3, <2>7
      <4> QED BY <4>1
    <3> DEFINE f == open[m]
               g == [f EXCEPT !.items = Append(f.items, a)]
               b == f.at
    <3>1. open \in Seq(Frame) /\ f \in Frame /\ g \in Frame /\ m \in DOMAIN open
      <4>1. open \in Seq(Frame) /\ f \in Frame /\ m \in DOMAIN open
        BY <1>1, <1>2, <3>m DEF IInv, Nested
      <4>2. Append(f.items, a) \in Seq(Nat)
        BY <4>1 DEF Frame
      <4>3. \A h \in Frame, q \in Seq(Nat) : [h EXCEPT !.items = q] \in Frame
        BY DEF Frame
      <4> HIDE DEF f
      <4> QED BY <4>1, <4>2, <4>3
    <3>2. /\ outer \in Seq(Frame) /\ Len(outer) = m /\ DOMAIN outer = 1 .. m /\ outer # <<>>
          /\ \A d \in 1 .. m : outer[d] = open[d]
      <4>1. Len(open) - 1 = m /\ m <= Len(open)
        BY <1>n, <3>m
      <4>2. \A o \in Seq(Frame) : m <= Len(o) =>
              /\ SubSeq(o, 1, m) \in Seq(Frame) /\ Len(SubSeq(o, 1, m)) = m
              /\ \A d \in 1 .. m : SubSeq(o, 1, m)[d] = o[d]
        <5> HIDE DEF outer
        <5> QED BY <3>m
      <4>3. /\ outer \in Seq(Frame) /\ Len(outer) = m
            /\ \A d \in 1 .. m : outer[d] = open[d]
        BY <3>1, <4>1, <4>2
      <4> HIDE DEF outer
      <4> QED BY <3>m, <4>3
    <3>3. open' = [outer EXCEPT ![m].items = Append(@, a)] /\ stage' = stage /\ document' = document
      BY <2>1, <3>2 DEF Deliver
    <3>4. open' = [outer EXCEPT ![m] = g]
      <4> HIDE DEF outer
      <4> QED BY <3>2, <3>3, <3>m
    <3>5. g.at = b /\ g.names = f.names /\ g.items = Append(f.items, a)
      BY <3>1 DEF Frame
    <3>6. /\ open' \in Seq(Frame) /\ Len(open') = m /\ DOMAIN open' = 1 .. m
          /\ open'[m] = g /\ \A d \in 1 .. m : d # m => open'[d] = open[d]
      <4> HIDE DEF g, outer
      <4> QED BY <3>1, <3>2, <3>4, <3>m
    <3>7. \A d \in 1 .. m : open'[d].at = open[d].at
      BY <3>5, <3>6
    <3>8. ASSUME NEW d \in 1 .. m PROVE Around(d)'
      <4>1. d \in DOMAIN open /\ Depth(Toks, Here + 1) >= d /\ pos' = Here
        BY <1>2, <1>5, <1>p, <2>2, <3>m
      <4> QED BY <1>1, <3>7, <4>1, AroundStays
    <3>9. ASSUME NEW d \in 1 .. m, d # m PROVE Collected(d)'
      <4>1. ReadUpto(d)' = ReadUpto(d)
        <5>1. d + 1 \in 1 .. m /\ d # n
          BY <3>9, <3>m
        <5>2. open'[d + 1].at = open[d + 1].at
          BY <3>7, <5>1
        <5> QED BY <1>n, <3>6, <3>9, <5>1, <5>2 DEF ReadUpto
      <4>2. Collected(d) /\ open'[d] = open[d]
        BY <1>2, <3>6, <3>9, <3>m
      <4> QED BY <1>1, <4>1, <4>2 DEF Collected
    <3>10. Collected(m)'
      <4> DEFINE N == Names(Toks, b)
                 I == Items(Toks, b)
      <4>1. Lists(f.names, Upto(N, a - 1)) /\ Lists(f.items, Upto(I, a - 1))
        <5>1. Collected(m) /\ ReadUpto(m) = a - 1
          BY <1>2, <1>4, <1>n, <3>1, <3>m DEF ReadUpto
        <5> QED BY <5>1 DEF Collected
      <4>2. /\ Upto(N, p) = Upto(N, a - 1) /\ Upto(I, p) = Upto(I, a - 1) \cup {a}
            /\ \A j \in Upto(I, a - 1) : j < a
            /\ Upto(I, a - 1) \in SUBSET Nat
        BY <1>1, <1>4, <1>n, <1>p, <3>m, OuterMembers
      <4>3. ReadUpto(m)' = p
        BY <2>2, <3>6 DEF ReadUpto
      <4> HIDE DEF N, I
      <4>4. Lists(Append(f.items, a), Upto(I, p))
        BY <4>1, <4>2, ListsOneMore
      <4> QED BY <1>1, <3>5, <3>6, <4>1, <4>2, <4>3, <4>4 DEF Collected, N, I
    <3>11. Nested'
      <4>1. \A d \in 1 .. m : Around(d)' /\ Collected(d)'
        BY <3>8, <3>9, <3>10
      <4>2. Len(open') = Depth(Toks', pos' + 1)
        BY <1>1, <1>5, <2>2, <3>6, <3>m
      <4> QED BY <3>6, <4>1, <4>2 DEF Nested
    <3>12. Made'
      <4>1. ASSUME NEW q, q # a, StillOpen(q) PROVE StillOpen(q)'
        <5>1. PICK d \in DOMAIN open : open[d].at = q
          BY <4>1 DEF StillOpen
        <5>2. d \in 1 .. m
          BY <1>2, <1>4, <3>m, <4>1, <5>1
        <5> QED BY <3>6, <3>7, <5>1, <5>2 DEF StillOpen
      <4> QED BY <2>5, <4>1
    <3>13. AtStage'
      <4>0. p # L /\ L \in Nat
        BY <1>2, <1>5, <3>m, TextFacts DEF IInv
      <4>1. p < L /\ open' # <<>>
        BY <1>2, <3>6, <3>m, <4>0
      <4>2. text.bytes <= MaxBytes
        BY <1>1 DEF IInv, AtStage
      <4> QED BY <1>1, <2>2, <3>3, <4>1, <4>2 DEF AtStage
    <3> QED BY <1>1, <1>2, <2>2, <3>3, <3>11, <3>12, <3>13 DEF IInv, Stages
  <2> QED BY <2>6, <2>7
<1> QED BY <1>6, <1>7

-----------------------------------------------------------------------------
(* The walk. *)

LEMMA AllMade ==
  ASSUME IInv, stage \in {"parsed", "walking", "loaded"}
  PROVE  \A p \in DOMAIN Toks : Closing(Toks, p) \/ Faithful(p)
<1>1. pos = L /\ open = <<>> /\ DOMAIN Toks = 1 .. L /\ Made
  BY TextFacts DEF IInv, AtStage
<1>2. \A p : ~StillOpen(p)
  BY <1>1 DEF StillOpen
<1> QED BY <1>1, <1>2 DEF Made

LEMMA WhatIsMade ==
  ASSUME NEW p, Faithful(p)
  PROVE  /\ objects[p].t = Toks[p].t
         /\ Opening(Toks, p) => /\ Lists(objects[p].names, Names(Toks, p))
                                /\ Lists(objects[p].items, Items(Toks, p))
         /\ Toks[p].t = "{" => NamesConform(Toks, p)
         /\ ~Opening(Toks, p) => /\ objects[p].chars = Decoded(Toks[p].chars)
                                 /\ objects[p].num = Toks[p].num
                                 /\ Toks[p].t # "key" => LiteralAllowed(Toks[p])
<1>1. CASE Opening(Toks, p)
  <2>1. /\ objects[p].t = Toks[p].t
        /\ Lists(objects[p].names, Names(Toks, p)) /\ Lists(objects[p].items, Items(Toks, p))
        /\ objects[p].t = "{" => NamesConform(Toks, p)
    BY <1>1 DEF Faithful
  <2> QED BY <1>1, <2>1
<1>2. CASE ~Opening(Toks, p)
  <2>1. objects[p] = Literal(Toks[p]) /\ (Toks[p].t # "key" => LiteralAllowed(Toks[p]))
    BY <1>2 DEF Faithful
  <2>2. /\ objects[p].t = Toks[p].t /\ objects[p].chars = Decoded(Toks[p].chars)
        /\ objects[p].num = Toks[p].num
    BY <2>1 DEF Literal
  <2>3. Toks[p].t # "{"
    BY <1>2 DEF Opening
  <2> QED BY <1>2, <2>1, <2>2, <2>3
<1> QED BY <1>1, <1>2

\* The walk checks of a value what the format asks of it.
LEMMA ShapeIsWalked ==
  ASSUME IInv, stage = "walking", NEW a, Value(a), Depth(Toks, a) <= MaxDepth
  PROVE  /\ objects[a].t = Toks[a].t
         /\ ShapeAllowed(objects[a], Entered(objects[a], Depth(Toks, a))) <=> Walked(a)
         /\ Opening(Toks, a) => Lists(objects[a].items, Items(Toks, a))
         /\ ~Walked(a) => ~InFormat
<1> DEFINE v == objects[a]
           t == Toks[a].t
<1>1. /\ Toks \in Seq(Tokens) /\ L \in Nat /\ DOMAIN Toks = 1 .. L /\ a \in DOMAIN Toks /\ a \in Nat
      /\ Depth(Toks, a) \in Int /\ MaxDepth \in Nat
  BY TextFacts, DepthStep, LimitAssumption DEF IInv, Value
<1>2. \A p \in DOMAIN Toks : Closing(Toks, p) \/ Faithful(p)
  BY AllMade
<1>3. Faithful(a) /\ Toks[a].t # "key"
  BY <1>2 DEF Value
<1>4. v.t = t
  BY <1>3, WhatIsMade
<1>5. \A p \in DOMAIN Toks : TextAllowed(Decoded(Toks[p].chars)) <=> TextConforms(Toks[p].chars)
  <2> SUFFICES ASSUME NEW p \in DOMAIN Toks PROVE TextAllowed(Decoded(Toks[p].chars)) <=> TextConforms(Toks[p].chars)
    OBVIOUS
  <2>1. Toks[p] \in Tokens
    BY <1>1
  <2>2. Toks[p].chars \in Seq(STRING)
    BY <2>1 DEF Tokens
  <2> QED BY <2>2, TextAllowedIfConforms
<1>6. Opening(Toks, a) => Lists(v.items, Items(Toks, a)) /\ Lists(v.names, Names(Toks, a))
  BY <1>3, WhatIsMade
<1>7. Names(Toks, a) \in SUBSET Nat /\ Items(Toks, a) \in SUBSET Nat /\ Names(Toks, a) \subseteq DOMAIN Toks
  <2>1. \A j \in Names(Toks, a) : j \in a + 1 .. L
    BY DEF Names, Inside, L
  <2> QED BY <1>1, <2>1, InsideAre DEF L
<1>8. Entered(v, Depth(Toks, a)) <= MaxDepth <=> (Opening(Toks, a) => Depth(Toks, a) < MaxDepth)
  <2>1. Opening(Toks, a) => Entered(v, Depth(Toks, a)) = Depth(Toks, a) + 1
    BY <1>4 DEF Entered, Opening
  <2>2. ~Opening(Toks, a) => Entered(v, Depth(Toks, a)) = Depth(Toks, a)
    BY <1>4 DEF Entered, Opening
  <2>3. Depth(Toks, a) + 1 <= MaxDepth <=> Depth(Toks, a) < MaxDepth
    BY <1>1
  <2>4. CASE Opening(Toks, a)
    BY <2>1, <2>3, <2>4
  <2>5. CASE ~Opening(Toks, a)
    BY <2>2, <2>5
  <2> QED BY <2>4, <2>5
<1>9. t = "str" => (TextAllowed(v.chars) <=> TextConforms(Toks[a].chars))
  <2> SUFFICES ASSUME t = "str" PROVE TextAllowed(v.chars) <=> TextConforms(Toks[a].chars)
    OBVIOUS
  <2>1. v.chars = Decoded(Toks[a].chars)
    BY <1>3, WhatIsMade DEF Opening
  <2> QED BY <1>1, <1>5, <2>1
<1>10. t = "int" => v.num = Toks[a].num
  BY <1>3, WhatIsMade DEF Opening
<1>11. t = "[" => (Len(v.items) <= MaxArray <=> Cardinality(Items(Toks, a)) <= MaxArray)
  <2> SUFFICES ASSUME t = "[" PROVE Cardinality(Items(Toks, a)) = Len(v.items)
    OBVIOUS
  <2>1. Lists(v.items, Items(Toks, a))
    BY <1>6 DEF Opening
  <2> QED BY <1>7, <2>1, ListsCount
<1>12. t = "{" => ((\A m \in DOMAIN v.names : TextAllowed(objects[v.names[m]].chars))
                    <=> \A j \in Names(Toks, a) : TextConforms(Toks[j].chars))
  <2> SUFFICES ASSUME t = "{"
               PROVE  (\A m \in DOMAIN v.names : TextAllowed(objects[v.names[m]].chars))
                        <=> \A j \in Names(Toks, a) : TextConforms(Toks[j].chars)
    OBVIOUS
  <2> DEFINE N == Names(Toks, a)
             s == v.names
  <2>1. /\ \A m \in DOMAIN s : s[m] \in N
        /\ \A j \in N : \E m \in DOMAIN s : s[m] = j
    <3>1. Lists(s, N)
      BY <1>6 DEF Opening
    <3>2. N \in SUBSET Nat
      BY <1>7
    <3> HIDE DEF s, N
    <3>3. \A m \in DOMAIN s : s[m] \in N
      BY <3>1, <3>2, ListsAreInjective
    <3> QED BY <3>1, <3>3 DEF Lists
  <2>2. \A j \in N : TextAllowed(objects[j].chars) <=> TextConforms(Toks[j].chars)
    <3> SUFFICES ASSUME NEW j \in N PROVE TextAllowed(objects[j].chars) <=> TextConforms(Toks[j].chars)
      OBVIOUS
    <3>1. j \in DOMAIN Toks /\ Toks[j].t = "key"
      BY <1>7 DEF Names
    <3>2. Faithful(j)
      BY <1>2, <3>1 DEF Closing
    <3>3. objects[j].chars = Decoded(Toks[j].chars)
      BY <3>1, <3>2, WhatIsMade DEF Opening
    <3> QED BY <1>5, <3>1, <3>3
  <2> HIDE DEF N, s
  <2>3. (\A m \in DOMAIN s : TextAllowed(objects[s[m]].chars)) <=> \A j \in N : TextConforms(Toks[j].chars)
    BY <2>1, <2>2
  <2> QED BY <2>3 DEF N, s
<1>13. ShapeAllowed(v, Entered(v, Depth(Toks, a))) <=> Walked(a)
  BY <1>4, <1>8, <1>9, <1>10, <1>11, <1>12 DEF ShapeAllowed, Walked
<1>14. ASSUME ~Walked(a), InFormat PROVE FALSE
  <2>1. \A i \in DOMAIN Toks : Conforms(Toks, i)
    BY <1>14 DEF InFormat, Toks
  <2>2. \A j \in Names(Toks, a) : TextConforms(Toks[j].chars)
    BY <1>7, <2>1 DEF Names, Conforms, TextConforms
  <2>3. t = "str" => TextConforms(Toks[a].chars)
    BY <1>1, <2>1 DEF Conforms, TextConforms
  <2>4. Conforms(Toks, a)
    BY <1>1, <2>1
  <2> QED BY <1>14, <2>2, <2>3, <2>4 DEF Walked, Conforms
<1> QED BY <1>4, <1>6, <1>13, <1>14

\* What stands in a container stands in one of its items.
LEMMA UnderAnItem ==
  ASSUME IInv, NEW a, NEW p, Value(a), Value(p), Under(p, a), p # a
  PROVE  Opening(Toks, a) /\ \E j \in Items(Toks, a) : Under(p, j)
<1>1. /\ L \in Nat /\ DOMAIN Toks = 1 .. L /\ a \in 1 .. L /\ p \in 1 .. L
      /\ Opening(Toks, a) /\ p > a /\ \A k \in a + 1 .. p : Depth(Toks, k) > Depth(Toks, a)
  BY TextFacts DEF IInv, Value, Under
<1>2. \A k \in a .. p : Depth(Toks, k) \in Int
  BY <1>1, DepthStep
<1> DEFINE J == {j \in a + 1 .. p : Depth(Toks, j) = Depth(Toks, a) + 1}
<1>3. PICK j \in J : \A k \in J : k <= j
  <2>1. a + 1 \in J
    <3>1. Depth(Toks, a + 1) = Depth(Toks, a) + 1
      BY <1>1, DepthStep
    <3>2. a + 1 \in a + 1 .. p
      BY <1>1
    <3> QED BY <3>1, <3>2
  <2>2. J \in SUBSET Nat /\ \A k \in J : k <= p
    BY <1>1
  <2>3. p \in Nat /\ J # {}
    BY <1>1, <2>1
  <2> HIDE DEF J
  <2> QED BY <2>2, <2>3, GreatestOf
<1>4. j \in a + 1 .. p /\ Depth(Toks, j) = Depth(Toks, a) + 1
  OBVIOUS
<1>5. \A k \in j + 1 .. p : Depth(Toks, k) > Depth(Toks, j)
  <2> SUFFICES ASSUME NEW k \in j + 1 .. p PROVE Depth(Toks, k) > Depth(Toks, j)
    OBVIOUS
  <2>1. k \in a + 1 .. p /\ k \in a .. p /\ a \in a .. p /\ k > j
    BY <1>1, <1>4
  <2>2. k \notin J
    <3> HIDE DEF J
    <3> QED BY <1>1, <1>3, <1>4, <2>1
  <2>3. Depth(Toks, k) # Depth(Toks, a) + 1 /\ Depth(Toks, k) > Depth(Toks, a)
    BY <1>1, <2>1, <2>2
  <2> QED BY <1>2, <1>4, <2>1, <2>3
<1>6. j = p \/ Opening(Toks, j)
  <2> SUFFICES ASSUME j # p, ~Opening(Toks, j) PROVE FALSE
    OBVIOUS
  <2>1. j + 1 \in j + 1 .. p /\ j \in Nat \ {0}
    BY <1>1, <1>4
  <2>2. Depth(Toks, j + 1) > Depth(Toks, j)
    BY <1>5, <2>1
  <2>3. Depth(Toks, j) \in Int /\ (Depth(Toks, j + 1) = Depth(Toks, j) \/ Depth(Toks, j + 1) = Depth(Toks, j) - 1)
    BY <2>1, DepthStep
  <2> QED BY <2>2, <2>3
<1>7. ~Closing(Toks, j) /\ Toks[j].t # "key"
  BY <1>6 DEF Value, Opening, Closing
<1>8. j \in Items(Toks, a)
  <2>1. j \in a + 1 .. Len(Toks)
    BY <1>1, <1>4 DEF L
  <2>2. \A k \in a + 1 .. j : Depth(Toks, k) > Depth(Toks, a)
    BY <1>1, <1>4
  <2> HIDE DEF J
  <2> QED BY <1>4, <1>7, <2>1, <2>2 DEF Items, Inside
<1>9. Under(p, j)
  <2>1. p = j \/ p > j
    BY <1>1, <1>4
  <2> QED BY <1>5, <1>6, <2>1 DEF Under
<1> QED BY <1>1, <1>8, <1>9

-----------------------------------------------------------------------------

\* Nothing the parser made is lost after it.
LEMMA AfterParsing ==
  ASSUME IInv, stage \in {"parsed", "walking"}, stage' \in {"walking", "loaded"},
         UNCHANGED <<text, pos, open, objects, document>>,
         Toks[1].t = "{", Pending', Left', stage' = "loaded" => pending' = <<>>
  PROVE  IInv'
<1>1. Nested /\ Made /\ pos = L /\ open = <<>> /\ document = 1 /\ text.bytes <= MaxBytes
  <2>1. stage # "refused" /\ stage # "given" /\ stage \in {"parsed", "walking", "loaded"}
    OBVIOUS
  <2>2. Nested /\ Made /\ AtStage
    BY <2>1 DEF IInv
  <2>3. pos = L /\ open = <<>> /\ document = 1
    BY <2>1, <2>2 DEF AtStage
  <2>4. text.bytes <= MaxBytes
    BY <2>1, <2>2 DEF AtStage
  <2> QED BY <2>2, <2>3, <2>4
<1>2. Nested'
  <2>1. Toks' = Toks /\ open' = open /\ pos' = pos
    BY DEF Toks
  <2>2. \A d : (Around(d)' <=> Around(d)) /\ (Collected(d)' <=> Collected(d))
    BY <2>1 DEF Around, Collected, ReadUpto
  <2>3. open \in Seq(Frame) /\ Len(open) = Depth(Toks, pos + 1)
    BY <1>1 DEF Nested
  <2>4. \A d \in DOMAIN open : Around(d) /\ Collected(d)
    BY <1>1 DEF Nested
  <2> QED BY <2>1, <2>2, <2>3, <2>4 DEF Nested
<1>3. Made'
  BY <1>1 DEF Made, Faithful, StillOpen, Toks
<1>4. AtStage'
  BY <1>1 DEF AtStage, L, Toks
<1>5. text' \in Texts /\ stage' \in Stages /\ pos' \in 0 .. L'
  BY DEF IInv, Stages, L, Toks
<1> QED BY <1>2, <1>3, <1>4, <1>5 DEF IInv

LEMMA CheckTopStep ==
  ASSUME IInv, CheckTop
  PROVE  IInv'
<1>1. /\ stage = "parsed" /\ document = 1 /\ L \in Nat \ {0} /\ DOMAIN Toks = 1 .. L
      /\ Depth(Toks, 1) = 0 /\ \A i \in 2 .. L : Depth(Toks, i) >= 1
      /\ ~Closing(Toks, 1) /\ Toks[1].t # "key" /\ MaxDepth \in Nat
  BY TextFacts, LimitAssumption DEF IInv, AtStage, CheckTop
<1>2. 1 \in DOMAIN Toks
  BY <1>1
<1>3. objects[1].t = Toks[1].t
  BY <1>1, <1>2, AllMade, WhatIsMade
<1>4. CASE Toks[1].t # "{"
  <2>1. ~InFormat
    BY <1>4 DEF InFormat, Toks
  <2> QED BY <1>1, <1>3, <1>4, <2>1, RefuseStep DEF CheckTop
<1>5. CASE Toks[1].t = "{"
  <2>1. /\ stage' = "walking" /\ pending' = <<[value |-> 1, depth |-> 0]>>
        /\ UNCHANGED <<text, pos, open, objects, document>>
    BY <1>1, <1>3, <1>5 DEF CheckTop
  <2>2. Toks' = Toks
    BY <2>1 DEF Toks
  <2>3. Value(1)' /\ Depth(Toks', 1) = 0
    BY <1>1, <1>2, <2>2 DEF Value
  <2>4. pending' \in Seq(Waiting)
    BY <2>1 DEF Waiting
  <2>5. DOMAIN pending' = {1} /\ pending'[1].value = 1 /\ pending'[1].depth = 0
    BY <2>1
  <2>6. Pending'
    BY <1>1, <2>3, <2>4, <2>5 DEF Pending
  <2>7. ASSUME NEW p \in DOMAIN Toks PROVE Under(p, 1)'
    <3>1. p = 1 \/ p > 1
      BY <1>1
    <3>2. \A k \in 2 .. p : k \in 2 .. L
      BY <1>1
    <3>3. \A k \in 1 + 1 .. p : Depth(Toks, k) > Depth(Toks, 1)
      <4> SUFFICES ASSUME NEW k \in 1 + 1 .. p PROVE Depth(Toks, k) > Depth(Toks, 1)
        OBVIOUS
      <4>1. k \in 2 .. L /\ k \in Nat \ {0}
        BY <1>1, <3>2
      <4>2. Depth(Toks, k) >= 1 /\ Depth(Toks, k) \in Int
        BY <1>1, <4>1, DepthStep
      <4> QED BY <1>1, <4>2
    <3>4. Opening(Toks, 1)
      BY <1>5 DEF Opening
    <3> QED BY <2>2, <3>1, <3>3, <3>4 DEF Under
  <2>8. Left'
    BY <2>2, <2>5, <2>7 DEF Left
  <2> QED BY <1>1, <1>5, <2>1, <2>6, <2>8, AfterParsing
<1> QED BY <1>4, <1>5

\* What takes the place of the head of a list.
InPlace(r, f, s) ==
  /\ \A m \in DOMAIN r : (\E k \in DOMAIN f : r[m] = f[k]) \/ (\E k \in DOMAIN s : r[m] = s[k])
  /\ \A k \in DOMAIN f : \E m \in DOMAIN r : r[m] = f[k]
  /\ \A k \in DOMAIN s : k # 1 => \E m \in DOMAIN r : r[m] = s[k]

LEMMA InPlaceOfHead ==
  ASSUME NEW C, NEW f \in Seq(C), NEW s \in Seq(C), s # <<>>, NEW r, r = f \o Tail(s)
  PROVE  r \in Seq(C) /\ InPlace(r, f, s)
<1> DEFINE t == Tail(s)
<1>1. /\ Len(f) \in Nat /\ DOMAIN f = 1 .. Len(f)
      /\ Len(s) \in Nat \ {0} /\ DOMAIN s = 1 .. Len(s)
  OBVIOUS
<1>2. t \in Seq(C) /\ Len(t) = Len(s) - 1 /\ DOMAIN t = 1 .. Len(s) - 1 /\ \A k \in DOMAIN t : t[k] = s[k + 1]
  BY <1>1
<1> HIDE DEF t
<1>3. /\ r \in Seq(C) /\ Len(r) = Len(f) + Len(t) /\ DOMAIN r = 1 .. Len(f) + Len(t)
      /\ \A m \in 1 .. Len(f) : r[m] = f[m]
      /\ \A m \in Len(f) + 1 .. Len(f) + Len(t) : r[m] = t[m - Len(f)]
  BY <1>1, <1>2 DEF t
<1>4. ASSUME NEW m \in DOMAIN r
      PROVE  (\E k \in DOMAIN f : r[m] = f[k]) \/ (\E k \in DOMAIN s : r[m] = s[k])
  <2>1. CASE m \in 1 .. Len(f)
    <3>1. m \in DOMAIN f /\ r[m] = f[m]
      BY <1>1, <1>3, <2>1
    <3> QED BY <3>1
  <2>2. CASE m \notin 1 .. Len(f)
    <3>1. m \in Len(f) + 1 .. Len(f) + Len(t) /\ m - Len(f) \in DOMAIN t /\ m - Len(f) + 1 \in DOMAIN s
      BY <1>1, <1>2, <1>3, <2>2
    <3>2. r[m] = s[m - Len(f) + 1]
      BY <1>2, <1>3, <3>1
    <3> QED BY <3>1, <3>2
  <2> QED BY <2>1, <2>2
<1>5. ASSUME NEW k \in DOMAIN f PROVE \E m \in DOMAIN r : r[m] = f[k]
  <2>1. k \in DOMAIN r /\ r[k] = f[k]
    BY <1>1, <1>2, <1>3
  <2> QED BY <2>1
<1>6. ASSUME NEW k \in DOMAIN s, k # 1 PROVE \E m \in DOMAIN r : r[m] = s[k]
  <2> DEFINE m == Len(f) + (k - 1)
  <2>1. /\ k \in 1 .. Len(s) /\ k - 1 \in DOMAIN t /\ (k - 1) + 1 = k
        /\ m \in Len(f) + 1 .. Len(f) + Len(t) /\ m - Len(f) = k - 1
    BY <1>1, <1>2, <1>6
  <2>2. r[m] = s[k]
    <3>1. t[k - 1] = s[(k - 1) + 1]
      BY <1>2, <2>1
    <3>2. r[m] = t[m - Len(f)]
      BY <1>3, <2>1
    <3> HIDE DEF m
    <3> QED BY <2>1, <3>1, <3>2
  <2>3. m \in DOMAIN r
    BY <1>1, <1>2, <1>3, <2>1
  <2> QED BY <2>2, <2>3
<1>7. InPlace(r, f, s)
  BY <1>4, <1>5, <1>6 DEF InPlace
<1> QED BY <1>3, <1>7

\* A value gives way to what stands in it.
LEMMA VisitStep ==
  ASSUME IInv, Visit
  PROVE  IInv'
<1>1. /\ stage = "walking" /\ pending # <<>> /\ Pending /\ Left /\ Toks[1].t = "{"
  BY DEF IInv, AtStage, Visit
<1>2. pending \in Seq(Waiting) /\ 1 \in DOMAIN pending /\ Head(pending) = pending[1]
  <2>1. pending \in Seq(Waiting)
    BY <1>1 DEF Pending
  <2>2. \A C : \A q \in Seq(C) : q # <<>> => 1 \in DOMAIN q /\ Head(q) = q[1]
    OBVIOUS
  <2>3. pending # <<>>
    BY <1>1
  <2> QED BY <2>1, <2>2, <2>3
<1>3. PICK a : a = pending[1].value
  OBVIOUS
<1>4. Value(a) /\ pending[1].depth = Depth(Toks, a) /\ Depth(Toks, a) <= MaxDepth
  BY <1>1, <1>2, <1>3 DEF Pending
<1>5. PICK d : d = Entered(objects[a], Depth(Toks, a))
  OBVIOUS
<1>6. PICK s : s = IF objects[a].t \in {"{", "["} THEN objects[a].items ELSE <<>>
  OBVIOUS
<1>7. IF ShapeAllowed(objects[a], d)
      THEN /\ pending' = [m \in DOMAIN s |-> [value |-> s[m], depth |-> d]] \o Tail(pending)
           /\ UNCHANGED <<text, stage, pos, open, objects, document>>
      ELSE Refuse
  BY <1>2, <1>3, <1>4, <1>5, <1>6 DEF Visit
<1>8. /\ objects[a].t = Toks[a].t
      /\ ShapeAllowed(objects[a], d) <=> Walked(a)
      /\ Opening(Toks, a) => Lists(objects[a].items, Items(Toks, a))
      /\ ~Walked(a) => ~InFormat
  BY <1>1, <1>4, <1>5, ShapeIsWalked
<1>9. CASE ~ShapeAllowed(objects[a], d)
  BY <1>7, <1>8, <1>9, RefuseStep
<1>10. CASE ShapeAllowed(objects[a], d)
  <2> DEFINE f == [m \in DOMAIN s |-> [value |-> s[m], depth |-> d]]
  <2>1. pending' = f \o Tail(pending) /\ stage' = stage /\ UNCHANGED <<text, pos, open, objects, document>>
    BY <1>7, <1>10
  <2>2. /\ L \in Nat /\ DOMAIN Toks = 1 .. L /\ a \in 1 .. L /\ a \in Nat \ {0} /\ MaxDepth \in Nat
        /\ Depth(Toks, a) \in Int
    BY <1>4, TextFacts, DepthStep, LimitAssumption DEF Value, IInv
  <2>3. /\ Walked(a) /\ d <= MaxDepth
        /\ Opening(Toks, a) => d = Depth(Toks, a) + 1
    BY <1>5, <1>8, <1>10 DEF ShapeAllowed, Entered, Opening
  <2>4. PICK inside \in SUBSET Nat :
           /\ Lists(s, inside)
           /\ \A j \in inside : Value(j) /\ Depth(Toks, j) = d
           /\ Opening(Toks, a) => inside = Items(Toks, a)
    <3>1. CASE Opening(Toks, a)
      <4>1. s = objects[a].items
        BY <1>6, <1>8, <3>1 DEF Opening
      <4>2. Items(Toks, a) \in SUBSET Nat /\ Inside(Toks, a) \in SUBSET (a + 1 .. L)
        BY <2>2, InsideAre DEF L
      <4>3. \A j \in a + 1 .. L : j \in DOMAIN Toks
        BY <2>2
      <4>4. \A j \in Items(Toks, a) : j \in Inside(Toks, a) /\ Toks[j].t # "key"
        BY DEF Items
      <4>5. \A j \in Inside(Toks, a) : ~Closing(Toks, j) /\ Depth(Toks, j) = Depth(Toks, a) + 1
        BY DEF Inside
      <4>6. \A j \in Items(Toks, a) : j \in DOMAIN Toks
        BY <4>2, <4>3, <4>4
      <4>7. \A j \in Items(Toks, a) : Value(j) /\ Depth(Toks, j) = d
        BY <2>3, <3>1, <4>4, <4>5, <4>6 DEF Value
      <4> QED BY <1>8, <3>1, <4>1, <4>2, <4>7
    <3>2. CASE ~Opening(Toks, a)
      <4>1. s = <<>>
        BY <1>6, <1>8, <3>2 DEF Opening
      <4>2. Lists(s, {})
        BY <4>1, ListsNothing
      <4> QED BY <3>2, <4>2
    <3> QED BY <3>1, <3>2
  <2>5. /\ Len(s) \in Nat /\ DOMAIN s = 1 .. Len(s) /\ \A m \in DOMAIN s : s[m] \in inside /\ s[m] \in Nat
        /\ \A j \in inside : \E m \in DOMAIN s : s[m] = j
    <3>1. /\ Len(s) \in Nat /\ DOMAIN s = 1 .. Len(s) /\ \A m \in DOMAIN s : s[m] \in inside
      BY <2>4, ListsAreInjective
    <3>2. \A j \in inside : j \in Nat
      OBVIOUS
    <3> QED BY <2>4, <3>1, <3>2 DEF Lists
  <2>6. d \in Nat
    <3>1. Depth(Toks, a) \in Nat
      <4>1. a = 1 \/ a \in 2 .. L
        BY <2>2
      <4>2. Depth(Toks, 1) = 0 /\ \A i \in 2 .. L : Depth(Toks, i) >= 1
        BY TextFacts DEF IInv
      <4> QED BY <2>2, <4>1, <4>2
    <3>2. d = Depth(Toks, a) \/ d = Depth(Toks, a) + 1
      BY <1>5 DEF Entered
    <3> QED BY <3>1, <3>2
  <2>7. /\ f \in Seq(Waiting) /\ DOMAIN f = DOMAIN s
        /\ \A m \in DOMAIN f : f[m].value = s[m] /\ f[m].depth = d
    <3>1. \A m \in DOMAIN s : [value |-> s[m], depth |-> d] \in Waiting
      BY <2>5, <2>6 DEF Waiting
    <3>2. f = [m \in 1 .. Len(s) |-> [value |-> s[m], depth |-> d]] /\ Len(s) \in Nat
      BY <2>5
    <3>3. DOMAIN f = DOMAIN s /\ \A m \in DOMAIN s : f[m] = [value |-> s[m], depth |-> d]
      OBVIOUS
    <3>4. \A m \in DOMAIN f : f[m].value = s[m] /\ f[m].depth = d
      BY <3>3
    <3>5. \A m \in 1 .. Len(s) : f[m] \in Waiting
      BY <2>5, <3>1, <3>3
    <3>6. DOMAIN f = 1 .. Len(s) /\ f = [m \in 1 .. Len(s) |-> f[m]]
      BY <2>5, <3>3
    <3> HIDE DEF f
    <3> QED BY <3>2, <3>3, <3>4, <3>5, <3>6
  <2>8. PICK r : r = f \o Tail(pending)
    OBVIOUS
  <2>9. /\ r \in Seq(Waiting) /\ pending' = r
        /\ \A m \in DOMAIN r : (\E k \in DOMAIN f : r[m] = f[k]) \/ (\E k \in DOMAIN pending : r[m] = pending[k])
        /\ \A k \in DOMAIN f : \E m \in DOMAIN r : r[m] = f[k]
        /\ \A k \in DOMAIN pending : k # 1 => \E m \in DOMAIN r : r[m] = pending[k]
    <3>1. pending' = r
      BY <2>1, <2>8
    <3>2. f \in Seq(Waiting) /\ pending \in Seq(Waiting) /\ pending # <<>>
      BY <1>1, <1>2, <2>7
    <3> HIDE DEF f
    <3>3. r \in Seq(Waiting) /\ InPlace(r, f, pending)
      BY <2>8, <3>2, InPlaceOfHead
    <3> QED BY <3>1, <3>3 DEF InPlace
  <2> HIDE DEF f
  <2>10. Toks' = Toks
    BY <2>1 DEF Toks
  <2>11. ASSUME NEW m \in DOMAIN r
         PROVE  Value(r[m].value) /\ r[m].depth = Depth(Toks, r[m].value) /\ r[m].depth <= MaxDepth
    <3>1. CASE \E k \in DOMAIN f : r[m] = f[k]
      <4>1. PICK k \in DOMAIN f : r[m] = f[k]
        BY <3>1
      <4>2. s[k] \in inside /\ r[m].value = s[k] /\ r[m].depth = d
        BY <2>5, <2>7, <4>1
      <4> QED BY <2>3, <2>4, <4>2
    <3>2. CASE \E k \in DOMAIN pending : r[m] = pending[k]
      BY <1>1, <3>2 DEF Pending
    <3> QED BY <2>9, <3>1, <3>2
  <2>12. Pending'
    <3>1. \A p : Value(p)' <=> Value(p)
      BY <2>10 DEF Value
    <3> QED BY <2>9, <2>10, <2>11, <3>1 DEF Pending
  <2>13. ASSUME NEW p \in DOMAIN Toks, Value(p), ~Walked(p)
         PROVE  \E m \in DOMAIN r : Under(p, r[m].value)
    <3>1. PICK k \in DOMAIN pending : Under(p, pending[k].value)
      BY <1>1, <2>13 DEF Left
    <3>2. CASE k # 1
      BY <2>9, <3>1, <3>2
    <3>3. CASE k = 1
      <4>1. Under(p, a) /\ p # a
        BY <1>3, <2>3, <2>13, <3>1, <3>3
      <4>2. PICK j \in Items(Toks, a) : Opening(Toks, a) /\ Under(p, j)
        BY <1>4, <2>13, <4>1, UnderAnItem
      <4>3. PICK n \in DOMAIN s : s[n] = j
        BY <2>4, <2>5, <4>2
      <4>4. PICK m \in DOMAIN r : r[m] = f[n]
        BY <2>7, <2>9, <4>3
      <4> QED BY <2>7, <4>2, <4>3, <4>4
    <3> QED BY <3>2, <3>3
  <2>14. Left'
    <3>1. \A p, q : (Under(p, q)' <=> Under(p, q)) /\ (Value(p)' <=> Value(p)) /\ (Walked(p)' <=> Walked(p))
      BY <2>10 DEF Under, Value, Walked
    <3> QED BY <2>9, <2>10, <2>13, <3>1 DEF Left
  <2>15. stage' = "walking"
    BY <1>1, <2>1
  <2> QED BY <1>1, <2>1, <2>12, <2>14, <2>15, AfterParsing
<1> QED BY <1>9, <1>10

LEMMA LoadStep ==
  ASSUME IInv, Load
  PROVE  IInv'
<1>1. /\ stage = "walking" /\ stage' = "loaded" /\ pending = <<>>
      /\ UNCHANGED <<text, pos, open, objects, document, pending>>
  BY DEF Load
<1>2. Pending /\ Left /\ Toks[1].t = "{"
  BY <1>1 DEF IInv, AtStage
<1>3. Pending' /\ Left'
  <2>1. Toks' = Toks /\ pending' = pending
    BY <1>1 DEF Toks
  <2>2. \A p, q : (Under(p, q)' <=> Under(p, q)) /\ (Value(p)' <=> Value(p)) /\ (Walked(p)' <=> Walked(p))
    BY <2>1 DEF Under, Value, Walked
  <2>3. Pending'
    BY <1>2, <2>1, <2>2 DEF Pending
  <2>4. Left'
    BY <1>2, <2>1, <2>2 DEF Left
  <2> QED BY <2>3, <2>4
<1> QED BY <1>1, <1>2, <1>3, AfterParsing

-----------------------------------------------------------------------------

LEMMA InitHolds ==
  ASSUME Init
  PROVE  IInv
<1>1. /\ text \in Texts /\ stage = "given" /\ pos = 0 /\ open = <<>>
      /\ DOMAIN objects = DOMAIN Toks
  BY DEF Init, Toks
<1>2. Depth(Toks, 1) = 0 /\ L \in Nat
  BY <1>1, TextFacts
<1>3. Nested
  BY <1>1, <1>2 DEF Nested
<1>4. Made
  BY <1>1 DEF Made
<1>5. AtStage
  BY <1>1 DEF AtStage
<1> QED BY <1>1, <1>2, <1>3, <1>4, <1>5 DEF IInv, Stages

LEMMA StepKeeps ==
  ASSUME IInv, [Next]_vars
  PROVE  IInv'
<1>1. CASE CheckSize
  BY <1>1, CheckSizeStep
<1>2. CASE Open
  BY <1>2, OpenStep
<1>3. CASE NameMember
  BY <1>3, NameMemberStep
<1>4. CASE Close
  BY <1>4, CloseStep
<1>5. CASE ReadLiteral
  BY <1>5, ReadLiteralStep
<1>6. CASE CheckTop
  BY <1>6, CheckTopStep
<1>7. CASE Visit
  BY <1>7, VisitStep
<1>8. CASE Load
  BY <1>8, LoadStep
<1>9. CASE UNCHANGED vars
  <2>1. /\ text' = text /\ stage' = stage /\ pos' = pos /\ open' = open /\ objects' = objects
        /\ document' = document /\ pending' = pending /\ Toks' = Toks /\ L' = L
    BY <1>9 DEF vars, Toks, L
  <2>2. Nested => Nested'
    BY <2>1 DEF Nested, Around, Collected, ReadUpto
  <2>3. Made => Made'
    BY <2>1 DEF Made, Faithful, StillOpen
  <2>4. \A p, q : (Under(p, q)' <=> Under(p, q)) /\ (Value(p)' <=> Value(p)) /\ (Walked(p)' <=> Walked(p))
    BY <2>1 DEF Under, Value, Walked
  <2>5. (Pending => Pending') /\ (Left => Left')
    BY <2>1, <2>4 DEF Pending, Left
  <2>6. InFormat' <=> InFormat
    BY <2>1 DEF InFormat
  <2>7. AtStage => AtStage'
    BY <2>1, <2>5, <2>6 DEF AtStage
  <2>8. text' \in Texts /\ stage' \in Stages /\ pos' \in 0 .. L' /\ AtStage'
    BY <2>1, <2>7 DEF IInv, Stages
  <2>9. stage' # "refused" => Nested' /\ Made'
    BY <2>1, <2>2, <2>3 DEF IInv
  <2> QED BY <2>8, <2>9 DEF IInv
<1> QED BY <1>1, <1>2, <1>3, <1>4, <1>5, <1>6, <1>7, <1>8, <1>9 DEF Next

\* Of every text, at every token, the parser holds what the text says up to there
\* and the walk what it has yet to see.
THEOREM Invariance == Spec => []IInv
<1>1. Init => IInv
  BY InitHolds
<1>2. IInv /\ [Next]_vars => IInv'
  BY StepKeeps
<1> QED BY <1>1, <1>2, PTL DEF Spec

\* What was parsed and walked to the end met every limit.
LEMMA LoadedIsInFormat ==
  ASSUME IInv, stage = "loaded"
  PROVE  InFormat
<1>1. /\ pending = <<>> /\ Left /\ Toks[1].t = "{" /\ text.bytes <= MaxBytes
      /\ DOMAIN Toks = 1 .. L /\ Json(Toks)
  BY TextFacts DEF IInv, AtStage
<1>2. \A p \in DOMAIN Toks : Value(p) => Walked(p)
  <2>1. DOMAIN pending = {}
    <3>1. pending = <<>>
      BY <1>1
    <3>2. DOMAIN <<>> = {}
      OBVIOUS
    <3> QED BY <3>1, <3>2
  <2> QED BY <1>1, <2>1 DEF Left
<1>3. \A p \in DOMAIN Toks : Closing(Toks, p) \/ Faithful(p)
  BY AllMade
<1>4. ASSUME NEW i \in DOMAIN Toks PROVE Conforms(Toks, i)
  <2>1. CASE Closing(Toks, i)
    <3>1. Toks[i].t \in {"}", "]"}
      BY <2>1 DEF Closing
    <3> QED BY <3>1 DEF Conforms, Opening
  <2>2. CASE Toks[i].t = "key"
    <3>1. PICK o \in DOMAIN Toks : Toks[o].t = "{" /\ i \in Inside(Toks, o)
      BY <1>1, <2>2 DEF Json
    <3>2. Value(o) /\ i \in Names(Toks, o)
      BY <2>2, <3>1 DEF Value, Closing, Names
    <3>3. TextConforms(Toks[i].chars)
      BY <1>2, <3>1, <3>2 DEF Walked
    <3> QED BY <2>2, <3>3 DEF Conforms, TextConforms, Opening
  <2>3. CASE ~Closing(Toks, i) /\ Toks[i].t # "key"
    <3>1. Walked(i) /\ Faithful(i)
      BY <1>2, <1>3, <2>3 DEF Value
    <3>2. /\ Toks[i].t = "{" => NamesConform(Toks, i)
          /\ ~Opening(Toks, i) => LiteralAllowed(Toks[i])
      BY <2>3, <3>1, WhatIsMade
    <3>3. Toks[i].t # "NaN" /\ (Toks[i].t = "float" => Toks[i].num # 0)
      BY <3>2 DEF LiteralAllowed, Opening
    <3> QED BY <2>3, <3>1, <3>2, <3>3 DEF Walked, Conforms, TextConforms
  <2> QED BY <2>1, <2>2, <2>3
<1> QED BY <1>1, <1>4 DEF InFormat, Toks

\* A text loads only if it is in the format and is refused only if it is not: of
\* every text, with every setting of the limits (canonical.py:52-75, 142-149).
THEOREM FormatIsExact == Spec => []LoadsExactlyTheFormat
<1>1. IInv => LoadsExactlyTheFormat
  BY LoadedIsInFormat DEF LoadsExactlyTheFormat, IInv, AtStage
<1> QED BY <1>1, Invariance, PTL

=============================================================================
