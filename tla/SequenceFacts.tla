--------------------------- MODULE SequenceFacts ---------------------------
(***************************************************************************)
(* What the proof modules need to know of the operations that the lists of *)
(* the server are modelled with: erasing an entry of a std::vector,        *)
(* appending one, and the least and the greatest of a set of numbers.      *)
(* These are facts of data, without variables.                             *)
(***************************************************************************)
EXTENDS SequencesExt, Integers, SequenceTheorems, FiniteSetTheorems, TLAPS

\* A nonempty set of numbers has a least member (what a scan from below finds).
LEMMA LeastExists ==
  ASSUME NEW S \in SUBSET Nat, S # {}
  PROVE  \E m \in S : \A n \in S : m <= n
<1>1. PICK m \in S : \A n \in S : ~(<<n, m>> \in OpToRel(<, Nat))
  BY NatLessThanWellFounded, WFMin
<1>2. \A n \in S : ~(n < m)
  BY <1>1 DEF OpToRel
<1> QED
  BY <1>2

\* A bounded set of positions that is not empty has a last one.
LEMMA GreatestExists ==
  ASSUME NEW n \in Nat, NEW S \in SUBSET (1..n), S # {}
  PROVE  \E m \in S : \A x \in S : x <= m
<1> DEFINE T == {y \in Nat : \E x \in S : y = n - x}
<1>1. T \in SUBSET Nat /\ T # {}
  <2>1. PICK x : x \in S
    OBVIOUS
  <2>2. n - x \in T
    BY <2>1
  <2> QED
    BY <2>2
<1>2. PICK t \in T : \A y \in T : t <= y
  BY <1>1, LeastExists
<1>3. PICK m \in S : t = n - m
  OBVIOUS
<1>4. ASSUME NEW x \in S PROVE x <= m
  <2>1. n - m <= n - x
    BY <1>2, <1>3
  <2> QED
    BY <2>1
<1> QED
  BY <1>4

\* The entries of a list.
LEMMA EntriesOf ==
  ASSUME NEW S, NEW s \in Seq(S)
  PROVE  /\ DOMAIN s = 1..Len(s) /\ Len(s) \in Nat
         /\ \A e : e \in ToSet(s) <=> \E i \in 1..Len(s) : s[i] = e
         /\ ToSet(s) \subseteq S
         /\ IsInjective(s) <=> \A i, j \in 1..Len(s) : s[i] = s[j] => i = j
BY LenProperties DEF ToSet, IsInjective

\* Erasing an entry moves the later ones down by one.
LEMMA Erased ==
  ASSUME NEW S, NEW s \in Seq(S), NEW i \in 1..Len(s)
  PROVE  /\ RemoveAt(s, i) \in Seq(S)
         /\ Len(RemoveAt(s, i)) = Len(s) - 1
         /\ \A j \in 1..Len(s) - 1 :
              RemoveAt(s, i)[j] = IF j < i THEN s[j] ELSE s[j + 1]
<1> DEFINE front == SubSeq(s, 1, i - 1)
           back  == SubSeq(s, i + 1, Len(s))
<1>1. Len(s) \in Nat /\ \A j \in 1..Len(s) : s[j] \in S
  BY LenProperties, ElementOfSeq
<1>2. /\ front \in Seq(S) /\ Len(front) = i - 1
      /\ \A j \in 1..i - 1 : front[j] = s[j]
  <2>1. \A j \in 1..i - 1 : s[j] \in S
    BY <1>1
  <2>2. /\ front \in Seq(S)
        /\ Len(front) = IF 1 <= i - 1 THEN i - 1 - 1 + 1 ELSE 0
        /\ \A j \in 1..i - 1 - 1 + 1 : front[j] = s[1 + j - 1]
    BY <2>1, SubSeqProperties
  <2> QED
    BY <2>2
<1>3. /\ back \in Seq(S) /\ Len(back) = Len(s) - i
      /\ \A j \in 1..Len(s) - i : back[j] = s[i + j]
  <2>1. \A j \in i + 1..Len(s) : s[j] \in S
    BY <1>1
  <2>2. /\ back \in Seq(S)
        /\ Len(back) = IF i + 1 <= Len(s) THEN Len(s) - (i + 1) + 1 ELSE 0
        /\ \A j \in 1..Len(s) - (i + 1) + 1 : back[j] = s[i + 1 + j - 1]
    BY <1>1, <2>1, SubSeqProperties
  <2> QED
    BY <1>1, <2>2
<1>4. /\ front \o back \in Seq(S)
      /\ Len(front \o back) = Len(front) + Len(back)
      /\ \A j \in 1..Len(front) + Len(back) :
           (front \o back)[j] =
              IF j <= Len(front) THEN front[j] ELSE back[j - Len(front)]
  BY <1>2, <1>3, ConcatProperties
<1>5. RemoveAt(s, i) = front \o back
  BY DEF RemoveAt
<1> HIDE DEF front, back
<1>6. Len(front \o back) = Len(s) - 1
  BY <1>1, <1>2, <1>3, <1>4
<1>7. ASSUME NEW j \in 1..Len(s) - 1
      PROVE  (front \o back)[j] = IF j < i THEN s[j] ELSE s[j + 1]
  <2>1. CASE j < i
    BY <1>1, <1>2, <1>3, <1>4, <2>1
  <2>2. CASE ~(j < i)
    <3>1. j - (i - 1) \in 1..Len(s) - i /\ i + (j - (i - 1)) = j + 1
      BY <1>1, <2>2
    <3>2. (front \o back)[j] = back[j - (i - 1)]
      BY <1>1, <1>2, <1>3, <1>4, <2>2
    <3> QED
      BY <1>3, <2>2, <3>1, <3>2
  <2> QED
    BY <2>1, <2>2
<1> QED
  BY <1>4, <1>5, <1>6, <1>7

\* Of a list without repetitions, erasing an entry takes out just its element.
LEMMA ErasedInjective ==
  ASSUME NEW S, NEW s \in Seq(S), NEW i \in 1..Len(s), IsInjective(s)
  PROVE  /\ IsInjective(RemoveAt(s, i))
         /\ ToSet(RemoveAt(s, i)) = ToSet(s) \ {s[i]}
<1> DEFINE rest == RemoveAt(s, i)
<1>0. Len(s) \in Nat
  BY EntriesOf
<1>1. /\ rest \in Seq(S) /\ Len(rest) = Len(s) - 1 /\ Len(s) \in Nat
      /\ \A j \in 1..Len(s) - 1 : rest[j] = IF j < i THEN s[j] ELSE s[j + 1]
  BY <1>0, Erased
<1>2. \A j, k \in 1..Len(s) : s[j] = s[k] => j = k
  BY EntriesOf
<1> HIDE DEF rest
<1>3. IsInjective(rest)
  <2>1. SUFFICES ASSUME NEW j \in 1..Len(rest), NEW k \in 1..Len(rest),
                        rest[j] = rest[k]
                 PROVE  j = k
    <3>1. IsInjective(rest) <=> \A m, n \in 1..Len(rest) : rest[m] = rest[n] => m = n
      BY <1>1, EntriesOf
    <3> QED
      BY <3>1
  <2>2. PICK a \in 1..Len(s) : a = (IF j < i THEN j ELSE j + 1) /\ rest[j] = s[a]
    BY <1>1
  <2>3. PICK b \in 1..Len(s) : b = (IF k < i THEN k ELSE k + 1) /\ rest[k] = s[b]
    BY <1>1
  <2>4. a = b
    BY <1>2, <2>1, <2>2, <2>3
  <2> QED
    BY <1>1, <2>2, <2>3, <2>4
<1>4. ASSUME NEW e, e \in ToSet(rest) PROVE e \in ToSet(s) \ {s[i]}
  <2>1. PICK j \in 1..Len(s) - 1 : rest[j] = e
    BY <1>1, <1>4, EntriesOf
  <2>2. PICK k \in 1..Len(s) : s[k] = e /\ k # i
    BY <1>1, <2>1
  <2> QED
    BY <1>2, <2>2, EntriesOf
<1>5. ASSUME NEW e, e \in ToSet(s), e # s[i] PROVE e \in ToSet(rest)
  <2>1. PICK k \in 1..Len(s) : s[k] = e
    BY <1>5, EntriesOf
  <2>2. k # i
    BY <1>5, <2>1
  <2>3. CASE k < i
    <3>1. k \in 1..Len(s) - 1 /\ rest[k] = e
      BY <1>1, <2>1, <2>3
    <3> QED
      BY <1>1, <3>1, EntriesOf
  <2>4. CASE k > i
    <3>1. k - 1 \in 1..Len(s) - 1 /\ rest[k - 1] = e
      BY <1>1, <2>1, <2>4
    <3> QED
      BY <1>1, <3>1, EntriesOf
  <2> QED
    BY <1>1, <2>2, <2>3, <2>4
<1> QED
  BY <1>3, <1>4, <1>5 DEF rest

\* Appending an element that is not listed keeps a list without repetitions.
LEMMA Appended ==
  ASSUME NEW S, NEW s \in Seq(S), NEW e \in S
  PROVE  /\ Append(s, e) \in Seq(S)
         /\ Len(Append(s, e)) = Len(s) + 1
         /\ ToSet(Append(s, e)) = ToSet(s) \cup {e}
         /\ IsInjective(s) /\ e \notin ToSet(s) => IsInjective(Append(s, e))
<1> DEFINE t == Append(s, e)
<1>1. /\ t \in Seq(S) /\ Len(t) = Len(s) + 1 /\ Len(s) \in Nat
      /\ \A i \in 1..Len(s) : t[i] = s[i]
      /\ t[Len(s) + 1] = e
  BY AppendProperties, EntriesOf
<1> HIDE DEF t
<1>2. ASSUME NEW x PROVE x \in ToSet(t) <=> x \in ToSet(s) \cup {e}
  <2>1. x \in ToSet(t) <=> \E i \in 1..Len(s) + 1 : t[i] = x
    BY <1>1, EntriesOf
  <2>2. x \in ToSet(s) <=> \E i \in 1..Len(s) : s[i] = x
    BY EntriesOf
  <2> QED
    BY <1>1, <2>1, <2>2
<1>3. ASSUME IsInjective(s), e \notin ToSet(s) PROVE IsInjective(t)
  <2>1. SUFFICES ASSUME NEW i \in 1..Len(t), NEW j \in 1..Len(t), t[i] = t[j]
                 PROVE  i = j
    BY <1>1, EntriesOf
  <2>2. /\ \A k, l \in 1..Len(s) : s[k] = s[l] => k = l
        /\ \A k \in 1..Len(s) : s[k] # e
    BY <1>3, EntriesOf
  <2> QED
    BY <1>1, <2>1, <2>2
<1> QED
  BY <1>1, <1>2, <1>3 DEF t

-----------------------------------------------------------------------------
\* e has exactly one entry in s.
Once(s, e) == \E i \in DOMAIN s : s[i] = e /\ \A j \in DOMAIN s : s[j] = e => j = i

\* Counting the entries of e.
LEMMA OnceCounted ==
  ASSUME NEW S, NEW s \in Seq(S), NEW e
  PROVE  Cardinality({i \in DOMAIN s : s[i] = e}) = 1 <=> Once(s, e)
<1> DEFINE at == {i \in DOMAIN s : s[i] = e}
<1>1. DOMAIN s = 1..Len(s) /\ Len(s) \in Nat
  BY EntriesOf
<1>2. IsFiniteSet(at)
  <2>1. IsFiniteSet(1..Len(s)) /\ at \in SUBSET (1..Len(s))
    BY <1>1, FS_Interval
  <2> QED
    BY <2>1, FS_Subset
<1>3. Cardinality(at) = 1 <=> \E i : at = {i}
  BY <1>2, FS_Singleton
<1>4. (\E i : at = {i}) <=> Once(s, e)
  <2>1. \A i : at = {i} <=> i \in at /\ \A j \in at : j = i
    OBVIOUS
  <2>2. Once(s, e) <=> \E i : i \in at /\ \A j \in at : j = i
    BY DEF Once
  <2> QED
    BY <2>1, <2>2
<1> QED
  BY <1>3, <1>4

\* Erasing an entry, repetitions or not: other elements keep theirs, and the
\* element erased is gone if it had just that one.
LEMMA ErasedOthers ==
  ASSUME NEW S, NEW s \in Seq(S), NEW i \in 1..Len(s), NEW e
  PROVE  LET rest == RemoveAt(s, i)
         IN  /\ e \in ToSet(rest) => e \in ToSet(s)
             /\ e \in ToSet(s) /\ e # s[i] => e \in ToSet(rest)
             /\ Once(s, e) /\ e # s[i] => Once(rest, e)
             /\ Once(s, e) /\ e = s[i] => e \notin ToSet(rest)
<1> DEFINE rest == RemoveAt(s, i)
<1>1. Len(s) \in Nat /\ DOMAIN s = 1..Len(s)
  BY EntriesOf
<1>2. /\ rest \in Seq(S) /\ Len(rest) = Len(s) - 1
      /\ \A j \in 1..Len(s) - 1 : rest[j] = IF j < i THEN s[j] ELSE s[j + 1]
  BY <1>1, Erased
<1> HIDE DEF rest
<1>3. DOMAIN rest = 1..Len(s) - 1
  BY <1>2, EntriesOf
<1>4. /\ \A x : x \in ToSet(rest) <=> \E j \in 1..Len(s) - 1 : rest[j] = x
      /\ \A x : x \in ToSet(s) <=> \E j \in 1..Len(s) : s[j] = x
  BY <1>1, <1>3 DEF ToSet
<1>5. \A j \in 1..Len(s) : j # i =>
        \E l \in 1..Len(s) - 1 : l = (IF j < i THEN j ELSE j - 1) /\ rest[l] = s[j]
  BY <1>1, <1>2
<1>6. \A l \in 1..Len(s) - 1 :
        \E j \in 1..Len(s) : j # i /\ j = (IF l < i THEN l ELSE l + 1) /\ rest[l] = s[j]
  BY <1>1, <1>2
<1>7. e \in ToSet(rest) => e \in ToSet(s)
  BY <1>4, <1>6
<1>8. e \in ToSet(s) /\ e # s[i] => e \in ToSet(rest)
  BY <1>4, <1>5
<1>9. ASSUME Once(s, e), e # s[i] PROVE Once(rest, e)
  <2>1. PICK j \in 1..Len(s) : s[j] = e /\ \A k \in 1..Len(s) : s[k] = e => k = j
    BY <1>1, <1>9 DEF Once
  <2>2. PICK l \in 1..Len(s) - 1 : l = (IF j < i THEN j ELSE j - 1) /\ rest[l] = e
    BY <1>5, <1>9, <2>1
  <2>3. ASSUME NEW m \in 1..Len(s) - 1, rest[m] = e PROVE m = l
    <3>1. PICK k \in 1..Len(s) : /\ k # i /\ k = (IF m < i THEN m ELSE m + 1)
                                 /\ s[k] = e
      BY <1>6, <2>3
    <3>2. k = j
      BY <2>1, <3>1
    <3> QED
      BY <1>1, <2>2, <3>1, <3>2
  <2> QED
    BY <1>3, <2>2, <2>3 DEF Once
<1>10. ASSUME Once(s, e), e = s[i] PROVE e \notin ToSet(rest)
  BY <1>1, <1>4, <1>6, <1>10 DEF Once
<1> QED
  BY <1>7, <1>8, <1>9, <1>10 DEF rest

\* Appending an element: the others keep their entries, a new one has one.
LEMMA AppendedOthers ==
  ASSUME NEW S, NEW s \in Seq(S), NEW x \in S, NEW e
  PROVE  /\ Once(s, e) /\ e # x => Once(Append(s, x), e)
         /\ x \notin ToSet(s) => Once(Append(s, x), x)
<1> DEFINE t == Append(s, x)
<1>1. /\ t \in Seq(S) /\ Len(t) = Len(s) + 1 /\ Len(s) \in Nat
      /\ \A i \in 1..Len(s) : t[i] = s[i]
      /\ t[Len(s) + 1] = x /\ DOMAIN s = 1..Len(s)
  BY AppendProperties, EntriesOf
<1> HIDE DEF t
<1>2. DOMAIN t = 1..Len(s) + 1
  BY <1>1, EntriesOf
<1>3. \A i \in 1..Len(s) + 1 : i \in 1..Len(s) \/ i = Len(s) + 1
  BY <1>1
<1>4. Once(s, e) /\ e # x => Once(t, e)
  BY <1>1, <1>2, <1>3 DEF Once
<1>5. ASSUME x \notin ToSet(s) PROVE Once(t, x)
  <2>1. \A i \in 1..Len(s) : s[i] # x
    BY <1>1, <1>5 DEF ToSet
  <2>2. Len(s) + 1 \in 1..Len(s) + 1
    BY <1>1
  <2> QED
    BY <1>1, <1>2, <1>3, <2>1, <2>2 DEF Once
<1> QED
  BY <1>4, <1>5 DEF t

\* A list has no more elements than entries.
LEMMA ElementsBounded ==
  ASSUME NEW S, NEW s \in Seq(S)
  PROVE  IsFiniteSet(ToSet(s)) /\ Cardinality(ToSet(s)) <= Len(s)
<1>1. DOMAIN s = 1..Len(s) /\ Len(s) \in Nat /\ s \in [1..Len(s) -> S]
  BY LenProperties
<1>2. s \in Surjection(1..Len(s), ToSet(s))
  BY <1>1 DEF Surjection, ToSet
<1>3. ExistsSurjection(1..Len(s), ToSet(s))
  BY <1>2 DEF ExistsSurjection
<1> QED
  BY <1>1, <1>3, FS_NatSurjection, FS_SurjCardinalityBound

-----------------------------------------------------------------------------
\* A list of two different elements.
LEMMA ShortLists ==
  ASSUME NEW S, NEW a \in S, NEW b \in S, a # b
  PROVE  /\ <<a, b>> \in Seq(S) /\ Len(<<a, b>>) = 2
         /\ ToSet(<<a, b>>) = {a, b} /\ IsInjective(<<a, b>>)
BY DEF ToSet, IsInjective

\* A list of one element.
LEMMA SingleList ==
  ASSUME NEW S, NEW a \in S
  PROVE  /\ <<a>> \in Seq(S) /\ Len(<<a>>) = 1 /\ <<a>> # <<>>
         /\ ToSet(<<a>>) = {a} /\ Once(<<a>>, a)
BY DEF ToSet, Once

\* A list without any.
LEMMA EmptyList ==
  ASSUME NEW S
  PROVE  /\ <<>> \in Seq(S) /\ Len(<<>>) = 0
         /\ ToSet(<<>>) = {} /\ IsInjective(<<>>)
BY DEF ToSet, IsInjective
=============================================================================
