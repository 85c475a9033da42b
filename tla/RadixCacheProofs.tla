-------------------------- MODULE RadixCacheProofs --------------------------
(***************************************************************************)
(* The prefix tree of RadixCache, for every page size: what a walk finds,  *)
(* what a split adds, why the tree stays one, and that each operation      *)
(* keeps TreeInv, which gives TreeSound, LockRefExact and LeasePinned.     *)
(* Nothing here depends on who calls the tree: ServingCacheProofs puts the *)
(* operations together with the pools and their callers.                   *)
(***************************************************************************)
EXTENDS RadixCache, FiniteSetTheorems, SequenceTheorems, TLAPS

Strings == Seq(Token)

\* A set of naturals that is not empty has a least element.
LEMMA LeastOf ==
  ASSUME NEW S \in SUBSET Nat, S # {}
  PROVE  \E n \in S : \A m \in S : n <= m
<1>1. PICK n \in S : \A m \in S : ~(<<m, n>> \in OpToRel(<, Nat))
  BY WFMin, NatLessThanWellFounded
<1>2. \A m \in S : ~(m < n)
  BY <1>1 DEF OpToRel
<1> QED
  BY <1>2

\* A set of naturals that is bounded and not empty has a greatest element.
LEMMA GreatestOf ==
  ASSUME NEW S \in SUBSET Nat, S # {}, NEW b \in Nat, \A n \in S : n <= b
  PROVE  \E n \in S : \A m \in S : m <= n
<1> DEFINE D == {b - n : n \in S}
<1>1. D \in SUBSET Nat /\ D # {}
  <2>1. ASSUME NEW n \in S PROVE b - n \in Nat
    <3>1. n \in Nat /\ n <= b
      OBVIOUS
    <3> QED
      BY <3>1
  <2> QED
    BY <2>1
<1>2. PICK d \in D : \A e \in D : d <= e
  <2> HIDE DEF D
  <2> QED
    BY <1>1, LeastOf
<1>3. PICK n \in S : d = b - n
  BY <1>2
<1>4. ASSUME NEW m \in S PROVE m <= n
  <2>1. b - m \in D /\ m \in Nat /\ n \in Nat
    OBVIOUS
  <2>2. b - n <= b - m
    BY <1>2, <1>3, <2>1
  <2> QED
    BY <2>1, <2>2
<1> QED
  BY <1>4
-----------------------------------------------------------------------------
(* Beginnings of strings. *)

\* The first n tokens of a string are a string of n tokens.
LEMMA UptoIs ==
  ASSUME NEW s \in Strings, NEW n \in 0 .. Len(s)
  PROVE  /\ Upto(s, n) \in Strings /\ Len(Upto(s, n)) = n
         /\ \A i \in 1 .. n : Upto(s, n)[i] = s[i]
<1>1. Len(s) \in Nat /\ \A i \in 1 .. n : s[i] \in Token
  BY DEF Strings
<1>2. /\ Upto(s, n) \in Seq(Token)
      /\ Len(Upto(s, n)) = IF 1 <= n THEN n - 1 + 1 ELSE 0
      /\ \A i \in 1 .. n - 1 + 1 : Upto(s, n)[i] = s[1 + i - 1]
  BY <1>1, SubSeqProperties DEF Upto
<1>3. n \in Nat /\ n - 1 + 1 = n /\ \A i \in 1 .. n : 1 + i - 1 = i
  BY <1>1
<1> QED
  BY <1>2, <1>3 DEF Strings

\* Strings of one length with the same tokens are the same.
LEMMA SameString ==
  ASSUME NEW s \in Strings, NEW t \in Strings, Len(s) = Len(t),
         \A i \in 1 .. Len(s) : s[i] = t[i]
  PROVE  s = t
  BY SeqEqual DEF Strings

\* A beginning of a beginning is a beginning.
LEMMA UptoUpto ==
  ASSUME NEW s \in Strings
  PROVE  /\ Len(s) \in Nat /\ Upto(s, Len(s)) = s /\ Upto(s, 0) = Root
         /\ \A m \in 0 .. Len(s) : \A n \in 0 .. m : Upto(Upto(s, m), n) = Upto(s, n)
<1>1. Len(s) \in Nat
  BY DEF Strings
<1>2. Upto(s, Len(s)) = s
  <2>1. Len(s) \in 0 .. Len(s)
    BY <1>1
  <2> QED
    BY <2>1, UptoIs, SameString
<1>3. Upto(s, 0) = Root
  BY SubSeqEmpty DEF Upto, Root
<1>4. ASSUME NEW m \in 0 .. Len(s), NEW n \in 0 .. m
      PROVE  Upto(Upto(s, m), n) = Upto(s, n)
  <2>1. Upto(s, m) \in Strings /\ Len(Upto(s, m)) = m /\ \A i \in 1 .. m : Upto(s, m)[i] = s[i]
    BY UptoIs
  <2>2. n \in 0 .. Len(s) /\ n \in 0 .. Len(Upto(s, m))
    BY <1>1, <2>1
  <2>3. /\ Upto(Upto(s, m), n) \in Strings /\ Len(Upto(Upto(s, m), n)) = n
        /\ \A i \in 1 .. n : Upto(Upto(s, m), n)[i] = Upto(s, m)[i]
    BY <2>1, <2>2, UptoIs
  <2>4. /\ Upto(s, n) \in Strings /\ Len(Upto(s, n)) = n
        /\ \A i \in 1 .. n : Upto(s, n)[i] = s[i]
    BY <2>2, UptoIs
  <2>5. \A i \in 1 .. n : Upto(Upto(s, m), n)[i] = Upto(s, n)[i]
    BY <1>1, <2>1, <2>3, <2>4
  <2> QED
    BY <2>3, <2>4, <2>5, SameString
<1> QED
  BY <1>1, <1>2, <1>3, <1>4

\* IsPrefix of the community modules, in the words of the model.
LEMMA PrefixIs ==
  ASSUME NEW s \in Strings, NEW t \in Strings
  PROVE  IsPrefix(s, t) <=> Len(s) <= Len(t) /\ Upto(t, Len(s)) = s
  BY UptoUpto DEF IsPrefix, Upto

\* How prefixes compare.
LEMMA PrefixOrder ==
  /\ Root \in Strings /\ Len(Root) = 0
  /\ \A s \in Strings : IsPrefix(Root, s) /\ IsPrefix(s, s) /\ (Len(s) = 0 => s = Root)
  /\ \A s, t \in Strings : IsPrefix(s, t) => Len(s) <= Len(t)
  /\ \A s, t, u \in Strings : IsPrefix(s, t) /\ IsPrefix(t, u) => IsPrefix(s, u)
  /\ \A s, t \in Strings : IsPrefix(s, t) /\ Len(t) <= Len(s) => s = t
  /\ \A s, t, u \in Strings : IsPrefix(s, u) /\ IsPrefix(t, u) /\ Len(s) <= Len(t) => IsPrefix(s, t)
  /\ \A s \in Strings : \A n \in 0 .. Len(s) : IsPrefix(Upto(s, n), s)
  /\ \A s, t \in Strings : \A n \in 0 .. Len(s) : IsPrefix(s, t) => Upto(s, n) = Upto(t, n)
<1>1. Root \in Strings /\ Len(Root) = 0
  BY DEF Root, Strings
<1>2. ASSUME NEW s \in Strings
      PROVE  IsPrefix(Root, s) /\ IsPrefix(s, s) /\ (Len(s) = 0 => s = Root)
  <2>1. Len(s) \in Nat /\ Upto(s, Len(s)) = s /\ Upto(s, 0) = Root
    BY UptoUpto
  <2> QED
    BY <1>1, <2>1, PrefixIs
<1>3. ASSUME NEW s \in Strings, NEW t \in Strings, IsPrefix(s, t) PROVE Len(s) <= Len(t)
  BY <1>3, PrefixIs
<1>4. ASSUME NEW s \in Strings, NEW t \in Strings, NEW n \in 0 .. Len(s), IsPrefix(s, t)
      PROVE  Upto(s, n) = Upto(t, n)
  <2>1. Len(s) <= Len(t) /\ Upto(t, Len(s)) = s
    BY <1>4, PrefixIs
  <2>2. Len(s) \in Nat /\ Len(t) \in Nat
    BY UptoUpto
  <2>3. Len(s) \in 0 .. Len(t)
    BY <2>1, <2>2, SMTT(30)
  <2> QED
    BY <2>1, <2>3, UptoUpto
<1>5. ASSUME NEW s \in Strings, NEW t \in Strings, NEW u \in Strings, IsPrefix(s, t), IsPrefix(t, u)
      PROVE  IsPrefix(s, u)
  <2>1. Len(s) <= Len(t) /\ Upto(t, Len(s)) = s /\ Len(t) <= Len(u)
    BY <1>5, PrefixIs
  <2>2. Len(s) \in Nat /\ Len(t) \in Nat /\ Len(u) \in Nat
    BY UptoUpto
  <2>3. Len(s) \in 0 .. Len(t) /\ Len(s) <= Len(u)
    BY <2>1, <2>2
  <2>4. Upto(t, Len(s)) = Upto(u, Len(s))
    BY <1>4, <1>5, <2>3
  <2> QED
    BY <2>1, <2>3, <2>4, PrefixIs
<1>6. ASSUME NEW s \in Strings, NEW t \in Strings, IsPrefix(s, t), Len(t) <= Len(s) PROVE s = t
  <2>1. Len(s) <= Len(t) /\ Upto(t, Len(s)) = s
    BY <1>6, PrefixIs
  <2>2. Len(s) \in Nat /\ Len(t) \in Nat /\ Upto(t, Len(t)) = t
    BY UptoUpto
  <2>3. Len(s) = Len(t)
    BY <1>6, <2>1, <2>2
  <2> QED
    BY <2>1, <2>2, <2>3
<1>7. ASSUME NEW s \in Strings, NEW t \in Strings, NEW u \in Strings, IsPrefix(s, u), IsPrefix(t, u),
             Len(s) <= Len(t)
      PROVE  IsPrefix(s, t)
  <2>1. Upto(u, Len(s)) = s
    BY <1>7, PrefixIs
  <2>2. Len(s) \in 0 .. Len(t)
    BY <1>7, UptoUpto
  <2>3. Upto(t, Len(s)) = Upto(u, Len(s))
    BY <1>4, <1>7, <2>2
  <2> QED
    BY <1>7, <2>1, <2>3, PrefixIs
<1>8. ASSUME NEW s \in Strings, NEW n \in 0 .. Len(s) PROVE IsPrefix(Upto(s, n), s)
  <2>1. Upto(s, n) \in Strings /\ Len(Upto(s, n)) = n /\ n <= Len(s)
    BY UptoIs, UptoUpto
  <2> QED
    BY <2>1, PrefixIs
<1> QED
  BY <1>1, <1>2, <1>3, <1>4, <1>5, <1>6, <1>7, <1>8

\* CommonLength is how far two strings agree.
LEMMA CommonIs ==
  ASSUME NEW s \in Strings, NEW t \in Strings
  PROVE  /\ CommonLength(s, t) \in Nat
         /\ CommonLength(s, t) <= Len(s) /\ CommonLength(s, t) <= Len(t)
         /\ Upto(s, CommonLength(s, t)) = Upto(t, CommonLength(s, t))
         /\ \A i \in 0 .. Len(s) : i <= Len(t) /\ Upto(s, i) = Upto(t, i) => i <= CommonLength(s, t)
<1> DEFINE A == {i \in 0 .. Len(s) : i <= Len(t) /\ Upto(s, i) = Upto(t, i)}
<1>1. Len(s) \in Nat /\ Len(t) \in Nat /\ Upto(s, 0) = Root /\ Upto(t, 0) = Root
  BY UptoUpto
<1>2. A \in SUBSET Nat /\ 0 \in A /\ \A i \in A : i <= Len(s)
  BY <1>1
<1>3. PICK k \in A : \A i \in A : i <= k
  <2> HIDE DEF A
  <2>1. A # {}
    BY <1>2
  <2> QED
    BY <1>1, <1>2, <2>1, GreatestOf
<1>4. k \in 0 .. Len(s) /\ k <= Len(t) /\ Upto(s, k) = Upto(t, k) /\ k \in Nat
  BY <1>1, <1>3
<1>5. {i \in 1 .. Len(s) : i <= Len(t) /\ Upto(s, i) = Upto(t, i)} = 1 .. k
  <2>1. ASSUME NEW i \in 1 .. Len(s), i <= Len(t), Upto(s, i) = Upto(t, i) PROVE i \in 1 .. k
    <3>1. i \in A
      BY <1>1, <2>1
    <3> HIDE DEF A
    <3> QED
      BY <1>1, <1>3, <1>4, <3>1
  <2>2. ASSUME NEW i \in 1 .. k PROVE i \in 1 .. Len(s) /\ i <= Len(t) /\ Upto(s, i) = Upto(t, i)
    <3>1. i \in 1 .. Len(s) /\ i <= Len(t) /\ i \in 0 .. k /\ k \in 0 .. Len(t)
      BY <1>1, <1>4
    <3>2. Upto(Upto(s, k), i) = Upto(s, i) /\ Upto(Upto(t, k), i) = Upto(t, i)
      BY <1>4, <3>1, UptoUpto
    <3> QED
      BY <1>4, <3>1, <3>2
  <2> HIDE DEF A
  <2> QED
    BY <2>1, <2>2
<1>6. Cardinality(1 .. k) = k
  BY <1>4, FS_Interval
<1>7. CommonLength(s, t) = k
  BY <1>5, <1>6 DEF CommonLength
<1> QED
  BY <1>3, <1>4, <1>7
-----------------------------------------------------------------------------
(* Pages. *)

Whole(n) == n % PageSize = 0

\* The end of the page of position i.
PageEnd(i) == Aligned(i + PageSize - 1)

\* Division by the page size leaves less than a page.
LEMMA Remainders ==
  ASSUME NEW n \in Nat
  PROVE  \E q \in Nat, r \in 0 .. PageSize - 1 : q = n \div PageSize /\ r = n % PageSize /\ n = q * PageSize + r
<1>1. PageSize \in Nat \ {0} /\ n \div PageSize \in Nat /\ n % PageSize \in 0 .. PageSize - 1
  BY PageSizeAssumption
<1>2. PICK q \in Nat, r \in 0 .. PageSize - 1 : q = n \div PageSize /\ r = n % PageSize
  BY <1>1
<1>3. n = q * PageSize + r
  BY <1>1, <1>2, SMTT(30)
<1> QED
  BY <1>2, <1>3

\* The multiples of the page size have no remainder.
LEMMA Multiples ==
  ASSUME NEW p \in Nat, NEW q \in Nat
  PROVE  /\ Whole(q * PageSize) /\ q * PageSize \in Nat
         /\ p * PageSize < q * PageSize => p * PageSize + PageSize <= q * PageSize
<1>1. PageSize \in Nat \ {0}
  BY PageSizeAssumption
<1>2. q * PageSize \in Nat
  BY <1>1
<1>3. PICK k \in Nat, r \in 0 .. PageSize - 1 : r = (q * PageSize) % PageSize /\ q * PageSize = k * PageSize + r
  BY <1>2, Remainders
<1>4. r = (q - k) * PageSize
  BY <1>1, <1>3
<1>5. ASSUME q - k >= 1 PROVE r = 0
  BY <1>1, <1>4, <1>5
<1>6. ASSUME q - k <= 0 PROVE r = 0
  BY <1>1, <1>4, <1>6
<1>7. Whole(q * PageSize)
  <2>1. r = 0
    BY <1>5, <1>6
  <2> QED
    BY <1>3, <2>1 DEF Whole
<1>8. ASSUME p * PageSize < q * PageSize PROVE p * PageSize + PageSize <= q * PageSize
  <2>1. q * PageSize - p * PageSize = (q - p) * PageSize
    BY <1>1
  <2>2. CASE q - p >= 1
    BY <1>1, <2>1, <2>2
  <2>3. CASE q - p <= 0
    BY <1>1, <1>8, <2>1, <2>3
  <2> QED
    BY <2>2, <2>3
<1> QED
  BY <1>2, <1>7, <1>8

\* Aligned rounds down to a page, PageEnd up.
LEMMA PagesAre ==
  /\ PageSize \in Nat \ {0} /\ Whole(0)
  /\ \A n \in Nat : Aligned(n) \in Nat /\ Whole(Aligned(n)) /\ Aligned(n) <= n /\ n < Aligned(n) + PageSize
  /\ \A a, b \in Nat : Whole(a) /\ Whole(b) /\ a < b => a + PageSize <= b
  /\ \A a, n \in Nat : Whole(a) /\ a <= n => a <= Aligned(n)
  /\ \A i \in Nat : PageEnd(i) \in Nat /\ Whole(PageEnd(i)) /\ i <= PageEnd(i)
  /\ \A a, i \in Nat : Whole(a) /\ i <= a => PageEnd(i) <= a
<1>1. PageSize \in Nat \ {0} /\ Whole(0)
  BY PageSizeAssumption DEF Whole
<1>2. ASSUME NEW n \in Nat
      PROVE  Aligned(n) \in Nat /\ Whole(Aligned(n)) /\ Aligned(n) <= n /\ n < Aligned(n) + PageSize
  <2>1. PICK q \in Nat, r \in 0 .. PageSize - 1 : q = n \div PageSize /\ n = q * PageSize + r
    BY Remainders
  <2>2. Aligned(n) = q * PageSize
    BY <2>1 DEF Aligned
  <2>3. PICK a \in Nat : a = q * PageSize /\ Whole(a)
    BY Multiples
  <2> QED
    BY <1>1, <2>1, <2>2, <2>3
<1>3. ASSUME NEW a \in Nat, NEW b \in Nat, Whole(a), Whole(b), a < b
      PROVE  a + PageSize <= b
  <2>1. PICK p \in Nat, r \in 0 .. PageSize - 1 : r = a % PageSize /\ a = p * PageSize + r
    BY Remainders
  <2>2. PICK q \in Nat, t \in 0 .. PageSize - 1 : t = b % PageSize /\ b = q * PageSize + t
    BY Remainders
  <2>3. r = 0 /\ t = 0
    BY <1>3, <2>1, <2>2 DEF Whole
  <2>4. a = p * PageSize /\ b = q * PageSize
    BY <1>1, <2>1, <2>2, <2>3
  <2> QED
    BY <1>3, <2>4, Multiples
<1>4. ASSUME NEW a \in Nat, NEW n \in Nat, Whole(a), a <= n PROVE a <= Aligned(n)
  <2>1. PICK b \in Nat : b = Aligned(n) /\ Whole(b) /\ n < b + PageSize
    BY <1>2
  <2>2. ~(b < a)
    BY <1>1, <1>3, <1>4, <2>1
  <2> QED
    BY <2>1, <2>2
<1>5. ASSUME NEW i \in Nat
      PROVE  PageEnd(i) \in Nat /\ Whole(PageEnd(i)) /\ i <= PageEnd(i) /\ PageEnd(i) < i + PageSize
  <2>1. i + PageSize - 1 \in Nat
    BY <1>1
  <2>2. PICK b \in Nat : b = PageEnd(i) /\ Whole(b) /\ b <= i + PageSize - 1 /\ i + PageSize - 1 < b + PageSize
    BY <1>2, <2>1 DEF PageEnd
  <2> QED
    BY <1>1, <2>2
<1>6. ASSUME NEW a \in Nat, NEW i \in Nat, Whole(a), i <= a PROVE PageEnd(i) <= a
  <2>1. PICK b \in Nat : b = PageEnd(i) /\ Whole(b) /\ b < i + PageSize
    BY <1>5
  <2>2. ~(a < b)
    BY <1>1, <1>3, <1>6, <2>1
  <2> QED
    BY <2>1, <2>2
<1> QED
  BY <1>1, <1>2, <1>3, <1>4, <1>5, <1>6
-----------------------------------------------------------------------------
(* Strings of whole pages form a tree under IsPrefix, in which two strings    *)
(* have a greatest common prefix.                                             *)

Paged == {s \in Strings : Whole(Len(s))}

Shared(m, n) == Upto(m, Aligned(CommonLength(m, n)))

\* What two keys share in whole pages is a prefix of both, and the longest such.
LEMMA SharedIs ==
  ASSUME NEW m \in Paged, NEW n \in Paged
  PROVE  /\ Shared(m, n) \in Paged /\ IsPrefix(Shared(m, n), m) /\ IsPrefix(Shared(m, n), n)
         /\ Len(Shared(m, n)) = Aligned(CommonLength(m, n))
         /\ Shared(m, n) = Upto(n, Aligned(CommonLength(m, n)))
         /\ \A x \in Paged : IsPrefix(x, m) /\ IsPrefix(x, n) => IsPrefix(x, Shared(m, n)) /\ Len(x) <= CommonLength(m, n)
<1>0. m \in Strings /\ n \in Strings
  BY DEF Paged
<1>1. PICK k \in Nat : /\ k = CommonLength(m, n) /\ k <= Len(m) /\ k <= Len(n) /\ Upto(m, k) = Upto(n, k)
                       /\ \A i \in 0 .. Len(m) : i <= Len(n) /\ Upto(m, i) = Upto(n, i) => i <= k
  BY <1>0, CommonIs
<1>2. PICK a \in Nat : a = Aligned(k) /\ Whole(a) /\ a <= k
  BY PagesAre
<1>3. Len(m) \in Nat /\ Len(n) \in Nat
  BY <1>0, UptoUpto
<1>4. a \in 0 .. k /\ k \in 0 .. Len(m) /\ k \in 0 .. Len(n) /\ a \in 0 .. Len(m) /\ a \in 0 .. Len(n)
  BY <1>1, <1>2, <1>3
<1>5. Upto(m, a) = Upto(n, a)
  <2>1. Upto(Upto(m, k), a) = Upto(m, a) /\ Upto(Upto(n, k), a) = Upto(n, a)
    BY <1>0, <1>4, UptoUpto
  <2> QED
    BY <1>1, <2>1
<1>6. PICK p : p = Shared(m, n) /\ p = Upto(m, a) /\ p = Upto(n, a)
  BY <1>1, <1>2, <1>5 DEF Shared
<1>7. p \in Strings /\ Len(p) = a
  BY <1>0, <1>4, <1>6, UptoIs
<1>8. p \in Paged /\ IsPrefix(p, m) /\ IsPrefix(p, n)
  <2>1. IsPrefix(Upto(m, a), m) /\ IsPrefix(Upto(n, a), n)
    BY <1>0, <1>4, PrefixOrder
  <2> QED
    BY <1>2, <1>6, <1>7, <2>1 DEF Paged
<1>9. ASSUME NEW x \in Paged, IsPrefix(x, m), IsPrefix(x, n)
      PROVE  IsPrefix(x, p) /\ Len(x) <= k
  <2>1. x \in Strings /\ Whole(Len(x)) /\ Len(x) \in Nat
    BY UptoUpto DEF Paged
  <2>2. Len(x) <= Len(m) /\ Upto(m, Len(x)) = x /\ Len(x) <= Len(n) /\ Upto(n, Len(x)) = x
    BY <1>0, <1>9, <2>1, PrefixIs
  <2>3. Len(x) \in 0 .. Len(m)
    BY <1>3, <2>1, <2>2
  <2>4. Len(x) <= k
    BY <1>1, <2>2, <2>3
  <2>5. Len(x) <= a
    BY <1>2, <2>1, <2>4, PagesAre
  <2> QED
    BY <1>0, <1>7, <1>8, <1>9, <2>1, <2>4, <2>5, PrefixOrder
<1> QED
  BY <1>1, <1>2, <1>6, <1>7, <1>8, <1>9

\* The greatest common prefix is recognised by that.
LEMMA SharedUnique ==
  ASSUME NEW m \in Paged, NEW n \in Paged, NEW p \in Paged, IsPrefix(p, m), IsPrefix(p, n),
         \A x \in Paged : IsPrefix(x, m) /\ IsPrefix(x, n) => IsPrefix(x, p)
  PROVE  Shared(m, n) = p
<1>1. PICK q \in Paged : q = Shared(m, n)
  BY SharedIs
<1>2. IsPrefix(q, p) /\ IsPrefix(p, q)
  BY <1>1, SharedIs
<1>3. p \in Strings /\ q \in Strings
  BY DEF Paged
<1>4. Len(p) <= Len(q)
  BY <1>2, <1>3, PrefixOrder
<1> QED
  BY <1>1, <1>2, <1>3, <1>4, PrefixOrder

\* Positions of two strings are the same when a common prefix has them.
LEMMA SamePosition ==
  ASSUME NEW m \in Paged, NEW n \in Paged, NEW i \in 1 .. Len(m), NEW j \in 1 .. Len(n)
  PROVE  At(m, i) = At(n, j) <=> i = j /\ \E x \in Paged : IsPrefix(x, m) /\ IsPrefix(x, n) /\ i <= Len(x)
<1>0. m \in Strings /\ n \in Strings /\ Len(m) \in Nat /\ Len(n) \in Nat /\ Whole(Len(m)) /\ Whole(Len(n))
  BY UptoUpto DEF Paged
<1>1. PICK e \in Nat : e = PageEnd(i) /\ Whole(e) /\ i <= e /\ e <= Len(m) /\ (i = j => e <= Len(n))
  <2>1. i \in Nat /\ i <= Len(m) /\ (i = j => i <= Len(n))
    BY <1>0
  <2> QED
    BY <1>0, <2>1, PagesAre
<1>2. At(m, i) = <<Upto(m, e), i>> /\ At(n, i) = <<Upto(n, e), i>>
  BY <1>1 DEF At, PageEnd
<1>3. ASSUME At(m, i) = At(n, j)
      PROVE  i = j /\ \E x \in Paged : IsPrefix(x, m) /\ IsPrefix(x, n) /\ i <= Len(x)
  <2>1. i = j
    BY <1>3 DEF At
  <2>2. Upto(m, e) = Upto(n, e)
    BY <1>2, <1>3, <2>1
  <2>3. e \in 0 .. Len(m) /\ e \in 0 .. Len(n)
    BY <1>0, <1>1, <2>1
  <2>4. Upto(m, e) \in Strings /\ Len(Upto(m, e)) = e /\ IsPrefix(Upto(m, e), m) /\ IsPrefix(Upto(n, e), n)
    BY <1>0, <2>3, UptoIs, PrefixOrder
  <2>5. Upto(m, e) \in Paged
    BY <1>1, <2>4 DEF Paged
  <2> QED
    BY <1>1, <2>1, <2>2, <2>4, <2>5
<1>4. ASSUME i = j, NEW x \in Paged, IsPrefix(x, m), IsPrefix(x, n), i <= Len(x)
      PROVE  At(m, i) = At(n, j)
  <2>1. x \in Strings /\ Len(x) \in Nat /\ Whole(Len(x))
    BY UptoUpto DEF Paged
  <2>2. e <= Len(x)
    <3>1. i \in Nat
      BY <1>0
    <3> QED
      BY <1>1, <1>4, <2>1, <3>1, PagesAre
  <2>3. e \in 0 .. Len(x)
    BY <2>1, <2>2
  <2>4. Upto(x, e) = Upto(m, e) /\ Upto(x, e) = Upto(n, e)
    BY <1>0, <1>4, <2>1, <2>3, PrefixOrder
  <2> QED
    BY <1>2, <1>4, <2>4
<1> QED
  BY <1>3, <1>4

\* IsPrefix orders the strings of whole pages; those before one string are a chain.
LEMMA PagedOrder ==
  /\ Root \in Paged /\ Len(Root) = 0
  /\ \A s \in Paged : Len(s) \in Nat /\ IsPrefix(Root, s) /\ IsPrefix(s, s) /\ (Len(s) = 0 => s = Root)
  /\ \A s, t \in Paged : IsPrefix(s, t) => Len(s) <= Len(t)
  /\ \A s, t \in Paged : IsPrefix(s, t) /\ s # t => Len(s) + PageSize <= Len(t)
  /\ \A s, t, u \in Paged : IsPrefix(s, t) /\ IsPrefix(t, u) => IsPrefix(s, u)
  /\ \A s, t, u \in Paged : IsPrefix(s, u) /\ IsPrefix(t, u) /\ Len(s) <= Len(t) => IsPrefix(s, t)
<1>1. Paged \subseteq Strings /\ \A s \in Paged : Len(s) \in Nat /\ Whole(Len(s))
  BY UptoUpto DEF Paged
<1>2. Root \in Paged /\ Len(Root) = 0
  BY PrefixOrder, PagesAre DEF Paged
<1>3. ASSUME NEW s \in Paged, NEW t \in Paged, IsPrefix(s, t), s # t
      PROVE  Len(s) + PageSize <= Len(t)
  <2>1. s \in Strings /\ t \in Strings /\ Len(s) \in Nat /\ Len(t) \in Nat /\ Whole(Len(s)) /\ Whole(Len(t))
    BY <1>1
  <2>2. ~(Len(t) <= Len(s))
    BY <1>3, <2>1, PrefixOrder
  <2> QED
    BY <2>1, <2>2, PagesAre
<1>4. \A s \in Paged : IsPrefix(Root, s) /\ IsPrefix(s, s) /\ (Len(s) = 0 => s = Root)
  BY <1>1, PrefixOrder
<1>5. \A s, t \in Paged : IsPrefix(s, t) => Len(s) <= Len(t)
  BY <1>1, PrefixOrder
<1>6. \A s, t, u \in Paged : IsPrefix(s, t) /\ IsPrefix(t, u) => IsPrefix(s, u)
  BY <1>1, PrefixOrder
<1>7. \A s, t, u \in Paged : IsPrefix(s, u) /\ IsPrefix(t, u) /\ Len(s) <= Len(t) => IsPrefix(s, t)
  BY <1>1, PrefixOrder
<1> QED
  BY <1>1, <1>2, <1>3, <1>4, <1>5, <1>6, <1>7

\* Of two prefixes of one key the shorter is a prefix of the longer.
LEMMA Chain ==
  ASSUME NEW s \in Paged, NEW t \in Paged, NEW u \in Paged, IsPrefix(s, u), IsPrefix(t, u)
  PROVE  IsPrefix(s, t) \/ IsPrefix(t, s)
<1>1. Len(s) \in Nat /\ Len(t) \in Nat
  BY PagedOrder
<1>2. Len(s) <= Len(t) \/ Len(t) <= Len(s)
  BY <1>1
<1> QED
  BY <1>2, PagedOrder

\* Keys that are prefixes of each other are the same.
LEMMA Mutual ==
  ASSUME NEW s \in Paged, NEW t \in Paged, IsPrefix(s, t), IsPrefix(t, s)
  PROVE  s = t
<1>1. s \in Strings /\ t \in Strings /\ Len(t) <= Len(s)
  BY PrefixOrder DEF Paged
<1> QED
  BY <1>1, PrefixOrder
-----------------------------------------------------------------------------
(* The tree: a set of strings with the common prefixes of any two.            *)

Tree(N) ==
  /\ N \subseteq Paged \ {Root}
  /\ \A m, n \in N : Shared(m, n) \in N \cup {Root}

\* Deepest picks a longest member, or the root when there is none.
LEMMA DeepestIs ==
  ASSUME NEW S \in SUBSET Paged, NEW b \in Nat, \A n \in S : Len(n) <= b
  PROVE  Deepest(S) \in S \cup {Root} /\ \A m \in S : Len(m) <= Len(Deepest(S))
<1> DEFINE L == {Len(n) : n \in S}
<1>1. \A n \in S : Len(n) \in Nat
  BY PagedOrder
<1>2. \E n \in S \cup {Root} : \A m \in S : Len(m) <= Len(n)
  <2>1. CASE S = {}
    BY <2>1
  <2>2. CASE S # {}
    <3>1. L \in SUBSET Nat /\ L # {} /\ \A n \in L : n <= b
      BY <1>1, <2>2
    <3>2. PICK k \in L : \A m \in L : m <= k
      <4> HIDE DEF L
      <4> QED
        BY <3>1, GreatestOf
    <3>3. PICK n \in S : k = Len(n)
      BY <3>2
    <3>4. \A m \in S : Len(m) <= Len(n)
      BY <3>2, <3>3
    <3> QED
      BY <3>4
  <2> QED
    BY <2>1, <2>2
<1> QED
  BY <1>2 DEF Deepest

\* The walk of a key gets stuck at the deepest node before it.
LEMMA StuckIs ==
  ASSUME Tree(nodes), NEW key \in Paged
  PROVE  /\ Stuck(key) \in nodes \cup {Root} /\ Stuck(key) \in Paged /\ IsPrefix(Stuck(key), key)
         /\ \A n \in nodes : IsPrefix(n, key) => IsPrefix(n, Stuck(key))
<1>1. Along(key) \in SUBSET Paged /\ Len(key) \in Nat /\ \A n \in Along(key) : Len(n) <= Len(key)
  BY PagedOrder DEF Along, Tree
<1>2. Stuck(key) \in Along(key) \cup {Root} /\ \A m \in Along(key) : Len(m) <= Len(Stuck(key))
  BY <1>1, DeepestIs DEF Stuck
<1>3. PICK s \in Paged : s = Stuck(key) /\ IsPrefix(s, key) /\ s \in nodes \cup {Root}
  BY <1>1, <1>2, PagedOrder DEF Along
<1>4. ASSUME NEW n \in nodes, IsPrefix(n, key) PROVE IsPrefix(n, s)
  <2>1. n \in Along(key) /\ n \in Paged
    BY <1>4 DEF Along, Tree
  <2>2. Len(n) <= Len(s)
    BY <1>2, <1>3, <2>1
  <2> QED
    BY <1>3, <1>4, <2>1, <2>2, PagedOrder
<1> QED
  BY <1>3, <1>4

\* Below a string, the way to a node leads through a child.
LEMMA ChildTowards ==
  ASSUME Tree(nodes), NEW s \in Paged, NEW m \in Below(s)
  PROVE  \E c \in Children(s) : IsPrefix(c, m)
<1> DEFINE C == {c \in Below(s) : IsPrefix(c, m)}
<1> DEFINE L == {Len(c) : c \in C}
<1>1. Below(s) \subseteq nodes /\ nodes \subseteq Paged /\ m \in C
  BY PagedOrder DEF Below, Tree
<1>2. \A c \in C : Len(c) \in Nat
  BY <1>1, PagedOrder
<1>3. L \in SUBSET Nat /\ L # {}
  BY <1>1, <1>2
<1>4. PICK k \in L : \A j \in L : k <= j
  <2> HIDE DEF L
  <2> QED
    BY <1>3, LeastOf
<1>5. PICK c \in C : k = Len(c)
  BY <1>4
<1>6. ASSUME NEW d \in Below(s), IsPrefix(d, c) PROVE d = c
  <2>1. c \in Paged /\ d \in Paged /\ m \in Paged
    BY <1>1
  <2>2. IsPrefix(d, m)
    BY <1>5, <1>6, <2>1, PagedOrder
  <2>3. Len(c) <= Len(d)
    BY <1>4, <1>5, <2>2
  <2> QED
    BY <1>6, <2>1, <2>3, PrefixOrder DEF Paged
<1> QED
  BY <1>5, <1>6 DEF Children

\* Splitting an edge the walk leaves in the middle makes a node of what the key
\* and the edge have in common.
LEMMA SplitPointIs ==
  ASSUME Tree(nodes), NEW key \in Paged, NEW c \in LeftEdges(key)
  PROVE  /\ c \in nodes /\ c \in Paged /\ c \in Children(Stuck(key))
         /\ SplitPoint(c, key) \in Paged /\ SplitPoint(c, key) = Shared(c, key)
         /\ IsPrefix(SplitPoint(c, key), key) /\ IsPrefix(SplitPoint(c, key), c)
         /\ Len(Stuck(key)) < Len(SplitPoint(c, key))
         /\ SplitPoint(c, key) \notin nodes \cup {Root}
<1>1. /\ c \in Children(Stuck(key)) /\ c \in nodes /\ c \in Paged
      /\ CommonLength(c, key) >= Len(Stuck(key)) + PageSize
  BY DEF LeftEdges, Children, Below, Tree
<1>2. PICK s \in Paged : s = Stuck(key) /\ \A n \in nodes : IsPrefix(n, key) => IsPrefix(n, s)
  BY StuckIs
<1>3. PICK p \in Paged : /\ p = SplitPoint(c, key) /\ p = Shared(c, key) /\ IsPrefix(p, key) /\ IsPrefix(p, c)
                         /\ Len(p) = Aligned(CommonLength(c, key))
  BY <1>1, SharedIs DEF SplitPoint
<1>4. Len(s) < Len(p)
  <2>1. CommonLength(c, key) \in Nat
    BY <1>1, CommonIs DEF Paged
  <2>2. Len(s) \in Nat /\ Len(p) \in Nat /\ PageSize \in Nat \ {0}
    BY PagedOrder, PagesAre
  <2>3. CommonLength(c, key) < Len(p) + PageSize
    BY <1>3, <2>1, PagesAre
  <2> QED
    BY <1>1, <1>2, <2>1, <2>2, <2>3
<1>5. p \notin nodes
  <2> SUFFICES ASSUME p \in nodes PROVE FALSE
    OBVIOUS
  <2>1. IsPrefix(p, s)
    BY <1>2, <1>3
  <2>2. Len(p) <= Len(s) /\ Len(p) \in Nat /\ Len(s) \in Nat
    BY <2>1, PagedOrder
  <2> QED
    BY <1>4, <2>2
<1>6. p # Root
  <2>1. Len(s) \in Nat /\ Len(Root) = 0
    BY PagedOrder
  <2> QED
    BY <1>4, <2>1
<1> QED
  BY <1>1, <1>2, <1>3, <1>4, <1>5, <1>6

\* What the key has in common with a node, the walk finds: on the path to where it
\* gets stuck, or on an edge it leaves in the middle.
LEMMA WalkReaches ==
  ASSUME Tree(nodes), NEW key \in Paged, NEW n \in nodes, NEW q \in Paged,
         IsPrefix(q, key), IsPrefix(q, n)
  PROVE  \/ IsPrefix(q, Stuck(key))
         \/ \E c \in LeftEdges(key) : IsPrefix(c, n) /\ IsPrefix(q, SplitPoint(c, key))
<1>1. PICK s \in Paged : s = Stuck(key) /\ IsPrefix(s, key) /\ \A m \in nodes : IsPrefix(m, key) => IsPrefix(m, s)
  BY StuckIs
<1>2. n \in Paged
  BY DEF Tree
<1>3. CASE IsPrefix(q, s)
  BY <1>1, <1>3
<1>4. CASE ~IsPrefix(q, s)
  <2>1. IsPrefix(s, q) /\ s # q
    BY <1>1, <1>4, Chain, PagedOrder
  <2>2. Len(s) + PageSize <= Len(q)
    BY <2>1, PagedOrder
  <2>3. IsPrefix(s, n) /\ s # n
    <3>1. IsPrefix(s, n)
      BY <1>2, <2>1, PagedOrder
    <3>2. s # n
      BY <1>4
    <3> QED
      BY <3>1, <3>2
  <2>4. n \in Below(s)
    BY <2>3 DEF Below, IsStrictPrefix
  <2>5. PICK c \in Children(s) : IsPrefix(c, n)
    BY <2>4, ChildTowards
  <2>6. c \in nodes /\ c \in Paged /\ IsPrefix(s, c) /\ s # c
    BY <2>5 DEF Children, Below, Tree, IsStrictPrefix
  <2>7. ~IsPrefix(c, key)
    <3> SUFFICES ASSUME IsPrefix(c, key) PROVE FALSE
      OBVIOUS
    <3>1. IsPrefix(c, s)
      BY <1>1, <2>6
    <3> QED
      BY <2>6, <3>1, Mutual
  <2>8. IsPrefix(q, c)
    <3>1. IsPrefix(q, c) \/ IsPrefix(c, q)
      BY <1>2, <2>5, <2>6, Chain
    <3>2. ASSUME IsPrefix(c, q) PROVE FALSE
      BY <2>6, <2>7, <3>2, PagedOrder
    <3> QED
      BY <3>1, <3>2
  <2>9. Len(q) <= CommonLength(c, key) /\ IsPrefix(q, Shared(c, key))
    BY <2>6, <2>8, SharedIs
  <2>10. CommonLength(c, key) >= Len(Stuck(key)) + PageSize
    <3>1. CommonLength(c, key) \in Nat /\ Len(s) \in Nat /\ Len(q) \in Nat /\ PageSize \in Nat
      BY <2>6, CommonIs, PagedOrder, PagesAre DEF Paged
    <3> QED
      BY <1>1, <2>2, <2>9, <3>1
  <2>11. c \in LeftEdges(key)
    BY <1>1, <2>5, <2>10 DEF LeftEdges
  <2>12. SplitPoint(c, key) = Shared(c, key)
    BY <2>11, SplitPointIs
  <2> QED
    BY <2>5, <2>9, <2>11, <2>12
<1> QED
  BY <1>3, <1>4

\* At most one edge is left in the middle.
LEMMA OneLeft ==
  ASSUME Tree(nodes), NEW key \in Paged, NEW c \in LeftEdges(key), NEW d \in LeftEdges(key)
  PROVE  c = d
<1>1. PICK s \in Paged : s = Stuck(key) /\ IsPrefix(s, key)
  BY StuckIs
<1>2. PICK p \in Paged : p = SplitPoint(c, key)
  BY SplitPointIs
<1>3. PICK q \in Paged : q = SplitPoint(d, key)
  BY SplitPointIs
<1>4. /\ c \in nodes /\ c \in Paged /\ c \in Children(s) /\ IsPrefix(p, key) /\ IsPrefix(p, c) /\ Len(s) < Len(p)
      /\ d \in nodes /\ d \in Paged /\ d \in Children(s) /\ IsPrefix(q, key) /\ IsPrefix(q, d) /\ Len(s) < Len(q)
  BY <1>1, <1>2, <1>3, SplitPointIs
<1>5. PICK x \in Paged : IsPrefix(x, c) /\ IsPrefix(x, d) /\ Len(s) < Len(x)
  <2>1. IsPrefix(p, q) \/ IsPrefix(q, p)
    BY <1>4, Chain
  <2>2. CASE IsPrefix(p, q)
    BY <1>4, <2>2, PagedOrder
  <2>3. CASE IsPrefix(q, p)
    BY <1>4, <2>3, PagedOrder
  <2> QED
    BY <2>1, <2>2, <2>3
<1>6. PICK y \in Paged : /\ y = Shared(c, d) /\ IsPrefix(x, y) /\ IsPrefix(y, c) /\ IsPrefix(y, d)
                         /\ y \in nodes \cup {Root}
  <2>1. Shared(c, d) \in nodes \cup {Root}
    BY <1>4 DEF Tree
  <2> QED
    BY <1>4, <1>5, <2>1, SharedIs
<1>7. Len(s) \in Nat /\ Len(x) \in Nat /\ Len(y) \in Nat /\ Len(Root) = 0 /\ Len(x) <= Len(y)
  BY <1>6, PagedOrder
<1>8. y \in nodes /\ s # y
  BY <1>5, <1>6, <1>7
<1>9. IsPrefix(s, y)
  <2>1. IsPrefix(s, c)
    BY <1>4 DEF Children, Below, IsStrictPrefix
  <2>2. Len(s) <= Len(y)
    BY <1>5, <1>7
  <2> QED
    BY <1>4, <1>6, <2>1, <2>2, PagedOrder
<1>10. y \in Below(s)
  BY <1>8, <1>9 DEF Below, IsStrictPrefix
<1> QED
  BY <1>4, <1>6, <1>10 DEF Children

\* What is below the new node is below the child whose edge was split.
LEMMA BelowSplit ==
  ASSUME Tree(nodes), NEW key \in Paged, NEW c \in LeftEdges(key), NEW m \in nodes,
         IsPrefix(SplitPoint(c, key), m)
  PROVE  IsPrefix(c, m)
<1>1. PICK s \in Paged : s = Stuck(key) /\ IsPrefix(s, key)
  BY StuckIs
<1>2. PICK p \in Paged : p = SplitPoint(c, key)
  BY SplitPointIs
<1>3. /\ c \in nodes /\ c \in Paged /\ c \in Children(s) /\ IsPrefix(p, key) /\ IsPrefix(p, c) /\ Len(s) < Len(p)
      /\ m \in Paged /\ IsPrefix(p, m)
  BY <1>1, <1>2, SplitPointIs DEF Tree
<1>4. PICK y \in Paged : /\ IsPrefix(p, y) /\ IsPrefix(y, c) /\ IsPrefix(y, m) /\ y \in nodes \cup {Root}
  <2>1. Shared(c, m) \in nodes \cup {Root}
    BY <1>3 DEF Tree
  <2> QED
    BY <1>3, <2>1, SharedIs
<1>5. Len(s) \in Nat /\ Len(p) \in Nat /\ Len(y) \in Nat /\ Len(Root) = 0 /\ Len(p) <= Len(y)
  BY <1>4, PagedOrder
<1>6. y \in nodes /\ s # y
  BY <1>3, <1>4, <1>5
<1>7. IsPrefix(s, y)
  <2>1. IsPrefix(s, c)
    BY <1>3 DEF Children, Below, IsStrictPrefix
  <2>2. Len(s) <= Len(y)
    BY <1>3, <1>5
  <2> QED
    BY <1>3, <1>4, <2>1, <2>2, PagedOrder
<1>8. y \in Below(s)
  BY <1>6, <1>7 DEF Below, IsStrictPrefix
<1>9. y = c
  BY <1>3, <1>4, <1>8 DEF Children
<1> QED
  BY <1>4, <1>9

\* What the key and a node have in common is a node once the edge is split.
LEMMA SharedWithKey ==
  ASSUME Tree(nodes), NEW key \in Paged, NEW n \in nodes
  PROVE  Shared(key, n) \in SplitNodes(key) \cup {Root}
<1>1. n \in Paged /\ nodes \subseteq SplitNodes(key)
  BY DEF Tree, SplitNodes
<1>2. PICK q \in Paged : /\ q = Shared(key, n) /\ IsPrefix(q, key) /\ IsPrefix(q, n)
                         /\ \A x \in Paged : IsPrefix(x, key) /\ IsPrefix(x, n) => IsPrefix(x, q)
  BY <1>1, SharedIs
<1>3. PICK s \in Paged : s = Stuck(key) /\ IsPrefix(s, key) /\ s \in nodes \cup {Root}
  BY StuckIs
<1>4. CASE IsPrefix(q, s)
  <2>1. CASE s = Root
    <3>1. Len(q) <= 0 /\ Len(q) \in Nat
      BY <1>4, <2>1, PagedOrder
    <3> QED
      BY <1>2, <3>1, PagedOrder
  <2>2. CASE s \in nodes
    <3>1. \A x \in Paged : IsPrefix(x, s) /\ IsPrefix(x, n) => IsPrefix(x, q)
      BY <1>2, <1>3, PagedOrder
    <3>2. Shared(s, n) = q
      BY <1>1, <1>2, <1>4, <3>1, SharedUnique
    <3> QED
      BY <1>1, <1>2, <2>2, <3>2 DEF Tree
  <2> QED
    BY <1>3, <2>1, <2>2
<1>5. CASE \E c \in LeftEdges(key) : IsPrefix(c, n) /\ IsPrefix(q, SplitPoint(c, key))
  <2>1. PICK c \in LeftEdges(key) : IsPrefix(c, n) /\ IsPrefix(q, SplitPoint(c, key))
    BY <1>5
  <2>2. PICK p \in Paged : p = SplitPoint(c, key) /\ IsPrefix(p, key) /\ IsPrefix(p, c)
    BY SplitPointIs
  <2>3. c \in Paged
    BY SplitPointIs
  <2>4. IsPrefix(p, q)
    BY <1>1, <1>2, <2>1, <2>2, <2>3, PagedOrder
  <2>5. p = q
    BY <2>1, <2>2, <2>4, Mutual
  <2> QED
    BY <1>2, <2>2, <2>5 DEF SplitNodes
<1> QED
  BY <1>2, <1>3, <1>4, <1>5, WalkReaches

\* What two keys share does not depend on their order.
LEMMA SharedSym ==
  ASSUME NEW m \in Paged, NEW n \in Paged
  PROVE  Shared(m, n) = Shared(n, m) /\ (IsPrefix(m, n) => Shared(m, n) = m)
<1>1. PICK p \in Paged : /\ p = Shared(m, n) /\ IsPrefix(p, m) /\ IsPrefix(p, n)
                         /\ \A x \in Paged : IsPrefix(x, m) /\ IsPrefix(x, n) => IsPrefix(x, p)
  BY SharedIs
<1>2. Shared(n, m) = p
  BY <1>1, SharedUnique
<1>3. ASSUME IsPrefix(m, n) PROVE p = m
  <2>1. IsPrefix(m, p)
    BY <1>1, <1>3, PagedOrder
  <2> QED
    BY <1>1, <2>1, Mutual
<1> QED
  BY <1>1, <1>2, <1>3

\* A split, and an insertion after it, leave a tree.
LEMMA SplitKeepsTree ==
  ASSUME Tree(nodes), NEW key \in Paged
  PROVE  /\ Tree(SplitNodes(key))
         /\ key # Root => Tree(SplitNodes(key) \cup {key})
         /\ nodes \subseteq SplitNodes(key)
         /\ \A p \in SplitNodes(key) \ nodes : IsPrefix(p, key) /\ \E c \in LeftEdges(key) : p = SplitPoint(c, key)
<1> DEFINE N == SplitNodes(key)
<1> DEFINE M == N \cup {key, Root}
<1>1. nodes \subseteq N /\ nodes \subseteq Paged
  BY DEF SplitNodes, Tree
<1>2. ASSUME NEW p \in N \ nodes
      PROVE  p \in Paged /\ p # Root /\ IsPrefix(p, key) /\ \E c \in LeftEdges(key) : p = SplitPoint(c, key)
  <2>1. PICK c \in LeftEdges(key) : p = SplitPoint(c, key)
    BY <1>2 DEF SplitNodes
  <2> QED
    BY <2>1, SplitPointIs
<1>3. N \subseteq Paged \ {Root}
  BY <1>1, <1>2 DEF Tree
<1>4. ASSUME NEW m \in N \cup {key}, IsPrefix(m, key), NEW n \in nodes
      PROVE  Shared(m, n) \in N \cup {Root}
  <2>1. m \in Paged /\ n \in Paged /\ m \in N \cup {key}
    BY <1>1, <1>3
  <2>2. PICK q \in Paged : /\ q = Shared(key, n) /\ IsPrefix(q, key) /\ IsPrefix(q, n)
                           /\ \A x \in Paged : IsPrefix(x, key) /\ IsPrefix(x, n) => IsPrefix(x, q)
    BY <2>1, SharedIs
  <2>3. q \in N \cup {Root}
    BY <2>2, SharedWithKey
  <2>4. CASE IsPrefix(q, m)
    <3>1. \A x \in Paged : IsPrefix(x, m) /\ IsPrefix(x, n) => IsPrefix(x, q)
      BY <1>4, <2>1, <2>2, PagedOrder
    <3>2. Shared(m, n) = q
      BY <2>1, <2>2, <2>4, <3>1, SharedUnique
    <3> QED
      BY <2>3, <3>2
  <2>5. CASE IsPrefix(m, q)
    <3>1. IsPrefix(m, n)
      BY <2>1, <2>2, <2>5, PagedOrder
    <3>2. Shared(m, n) = m
      BY <2>1, <3>1, SharedSym
    <3>3. m = key => m = q
      BY <2>1, <2>2, <2>5, Mutual
    <3> QED
      BY <2>1, <2>3, <3>2, <3>3
  <2> QED
    BY <1>4, <2>1, <2>2, <2>4, <2>5, Chain
<1>5. ASSUME NEW m \in N \cup {key}, NEW n \in N \cup {key}, IsPrefix(m, key), IsPrefix(n, key)
      PROVE  Shared(m, n) \in {m, n}
  <2>1. m \in Paged /\ n \in Paged
    BY <1>3
  <2>2. IsPrefix(m, n) \/ IsPrefix(n, m)
    BY <1>5, <2>1, Chain
  <2> QED
    BY <2>1, <2>2, SharedSym
<1>6. IsPrefix(key, key)
  BY PagedOrder
<1>7. ASSUME NEW m \in N, NEW n \in N PROVE Shared(m, n) \in N \cup {Root}
  <2>1. CASE m \in nodes /\ n \in nodes
    BY <1>1, <2>1 DEF Tree
  <2>2. CASE m \notin nodes /\ n \in nodes
    BY <1>2, <1>4, <1>7, <2>2
  <2>3. CASE m \in nodes /\ n \notin nodes
    <3>1. Shared(n, m) \in N \cup {Root}
      BY <1>2, <1>4, <1>7, <2>3
    <3> QED
      BY <1>3, <3>1, SharedSym
  <2>4. CASE m \notin nodes /\ n \notin nodes
    BY <1>2, <1>5, <1>7, <2>4
  <2> QED
    BY <2>1, <2>2, <2>3, <2>4
<1>8. ASSUME NEW n \in N PROVE Shared(key, n) \in N \cup {Root, key} /\ Shared(n, key) \in N \cup {Root, key}
  <2>1. Shared(key, n) \in N \cup {Root, key}
    <3>1. CASE n \in nodes
      BY <1>4, <1>6, <3>1
    <3>2. CASE n \notin nodes
      BY <1>2, <1>5, <1>6, <1>8, <3>2
    <3> QED
      BY <3>1, <3>2
  <2> QED
    BY <1>3, <2>1, SharedSym
<1>9. Shared(key, key) = key
  BY <1>6, SharedSym
<1>10. Tree(N)
  BY <1>3, <1>7 DEF Tree
<1>11. ASSUME key # Root PROVE Tree(N \cup {key})
  <2>1. N \cup {key} \subseteq Paged \ {Root}
    BY <1>3, <1>11
  <2>2. ASSUME NEW m \in N \cup {key}, NEW n \in N \cup {key} PROVE Shared(m, n) \in (N \cup {key}) \cup {Root}
    BY <1>7, <1>8, <1>9
  <2> QED
    BY <2>1, <2>2 DEF Tree
<1> QED
  BY <1>1, <1>2, <1>10, <1>11
\* Positions of one key with different indices differ: they count as many.
LEMMA EdgeCount ==
  ASSUME NEW key, NEW k \in Nat, NEW n \in Nat, k <= n
  PROVE  /\ IsFiniteSet({At(key, i) : i \in k + 1 .. n})
         /\ Cardinality({At(key, i) : i \in k + 1 .. n}) = n - k
<1> DEFINE edge == {At(key, i) : i \in k + 1 .. n}
<1> DEFINE I == k + 1 .. n
<1> DEFINE f == [i \in I |-> At(key, i)]
<1>1. IsFiniteSet(I) /\ Cardinality(I) = n - k
  <2>1. k + 1 \in Int /\ n \in Int
    OBVIOUS
  <2>2. IsFiniteSet(k + 1 .. n) /\ Cardinality(k + 1 .. n) = IF k + 1 > n THEN 0 ELSE n - (k + 1) + 1
    BY <2>1, FS_Interval
  <2> QED
    BY <2>2
<1>2. f \in [I -> edge]
  OBVIOUS
<1>3. f \in Surjection(I, edge)
  <2>1. \A p \in edge : \E i \in I : f[i] = p
    OBVIOUS
  <2> QED
    BY <1>2, <2>1 DEF Surjection
<1>4. f \in Injection(I, edge)
  <2>1. ASSUME NEW i \in I, NEW j \in I, f[i] = f[j] PROVE i = j
    BY <2>1 DEF At
  <2> QED
    BY <1>2, <2>1 DEF Injection, IsInjective
<1>5. IsFiniteSet(edge) /\ Cardinality(edge) = Cardinality(I)
  <2> HIDE DEF I, f, edge
  <2> QED
    BY <1>1, <1>3, <1>4, FS_Surjection
<1> QED
  BY <1>1, <1>5

-----------------------------------------------------------------------------
(* What is cached. *)

\* How far insert's walk gets, and the positions of a set of nodes.
Reached(key) == Deepest({n \in SplitNodes(key) : IsPrefix(n, key)})
Positions(n) == {At(n, i) : i \in 1 .. Len(n)}
CachedIn(N) == UNION {Positions(n) : n \in N}

\* The walk of an insertion reaches all the key has in common with the tree.
LEMMA ReachedIs ==
  ASSUME Tree(nodes), NEW key \in Paged
  PROVE  /\ Reached(key) \in SplitNodes(key) \cup {Root} /\ Reached(key) \in Paged
         /\ IsPrefix(Reached(key), key) /\ CachedLength(key) = Len(Reached(key))
         /\ \A n \in nodes, q \in Paged : IsPrefix(q, key) /\ IsPrefix(q, n) => IsPrefix(q, Reached(key))
         /\ Reached(key) = Root \/ \E n \in nodes : IsPrefix(Reached(key), n)
<1> DEFINE S == {n \in SplitNodes(key) : IsPrefix(n, key)}
<1>1. SplitNodes(key) \subseteq Paged /\ Root \notin SplitNodes(key) /\ nodes \subseteq SplitNodes(key)
  BY SplitKeepsTree DEF Tree
<1>2. S \in SUBSET Paged /\ Len(key) \in Nat /\ \A n \in S : Len(n) <= Len(key)
  BY <1>1, PagedOrder
<1>3. Deepest(S) \in S \cup {Root} /\ \A m \in S : Len(m) <= Len(Deepest(S))
  <2> HIDE DEF S
  <2> QED
    BY <1>2, DeepestIs
<1>4. PICK d : d = Reached(key) /\ d \in S \cup {Root} /\ \A m \in S : Len(m) <= Len(d)
  BY <1>3 DEF Reached
<1>5. d \in Paged /\ IsPrefix(d, key)
  BY <1>2, <1>4, PagedOrder
<1>6. CachedLength(key) = Len(d)
  BY <1>4 DEF CachedLength, Reached
<1>7. ASSUME NEW m \in SplitNodes(key) \cup {Root}, NEW q \in Paged, IsPrefix(q, key), IsPrefix(q, m), IsPrefix(m, key)
      PROVE  IsPrefix(q, d)
  <2>1. m \in Paged
    BY <1>1, PagedOrder
  <2>2. Len(m) <= Len(d)
    <3>1. CASE m = Root
      <4>1. Len(Root) = 0 /\ Len(d) \in Nat
        BY <1>5, PagedOrder
      <4> QED
        BY <3>1, <4>1
    <3>2. CASE m # Root
      BY <1>4, <1>7, <3>2
    <3> QED
      BY <3>1, <3>2
  <2>3. IsPrefix(m, d)
    BY <1>5, <1>7, <2>1, <2>2, PagedOrder
  <2> QED
    BY <1>5, <1>7, <2>1, <2>3, PagedOrder
<1>8. ASSUME NEW n \in nodes, NEW q \in Paged, IsPrefix(q, key), IsPrefix(q, n)
      PROVE  IsPrefix(q, d)
  <2>1. CASE IsPrefix(q, Stuck(key))
    <3>1. Stuck(key) \in SplitNodes(key) \cup {Root} /\ IsPrefix(Stuck(key), key)
      BY <1>1, StuckIs
    <3> QED
      BY <1>7, <1>8, <2>1, <3>1
  <2>2. CASE \E c \in LeftEdges(key) : IsPrefix(c, n) /\ IsPrefix(q, SplitPoint(c, key))
    <3>1. PICK c \in LeftEdges(key) : IsPrefix(q, SplitPoint(c, key))
      BY <2>2
    <3>2. SplitPoint(c, key) \in SplitNodes(key) /\ IsPrefix(SplitPoint(c, key), key)
      BY SplitPointIs DEF SplitNodes
    <3> QED
      BY <1>7, <1>8, <3>1, <3>2
  <2> QED
    BY <1>8, <2>1, <2>2, WalkReaches
<1>9. d = Root \/ \E n \in nodes : IsPrefix(d, n)
  <2>1. CASE d \in nodes
    BY <1>5, <2>1, PagedOrder
  <2>2. CASE d \in SplitNodes(key) \ nodes
    <3>1. PICK c \in LeftEdges(key) : d = SplitPoint(c, key)
      BY <2>2 DEF SplitNodes
    <3> QED
      BY <3>1, SplitPointIs
  <2> QED
    BY <1>4, <2>1, <2>2
<1> QED
  BY <1>4, <1>5, <1>6, <1>8, <1>9

\* A split moves no value: the positions stay the same.
LEMMA SplitCachesNothing ==
  ASSUME Tree(nodes), NEW key \in Paged
  PROVE  CachedIn(SplitNodes(key)) = CachedIn(nodes)
<1>1. nodes \subseteq SplitNodes(key) /\ nodes \subseteq Paged
  BY DEF SplitNodes, Tree
<1>2. ASSUME NEW p \in SplitNodes(key) \ nodes, NEW i \in 1 .. Len(p) PROVE At(p, i) \in CachedIn(nodes)
  <2>1. PICK c \in LeftEdges(key) : p = SplitPoint(c, key)
    BY <1>2 DEF SplitNodes
  <2>2. c \in nodes /\ c \in Paged /\ p \in Paged /\ IsPrefix(p, c)
    BY <2>1, SplitPointIs
  <2>3. Len(p) \in Nat /\ Len(c) \in Nat /\ Len(p) <= Len(c) /\ IsPrefix(p, p)
    BY <2>2, PagedOrder
  <2>4. i \in 1 .. Len(c) /\ i <= Len(p)
    BY <2>3
  <2>5. At(p, i) = At(c, i)
    BY <2>2, <2>3, <2>4, SamePosition
  <2> QED
    BY <2>2, <2>4, <2>5 DEF CachedIn, Positions
<1>3. CachedIn(SplitNodes(key)) \subseteq CachedIn(nodes)
  BY <1>2 DEF CachedIn, Positions
<1> QED
  BY <1>1, <1>3 DEF CachedIn

\* The positions of a key that are cached are those the walk reaches.
LEMMA CachedUpto ==
  ASSUME Tree(nodes), NEW key \in Paged, NEW i \in 1 .. Len(key)
  PROVE  At(key, i) \in CachedIn(nodes) <=> i <= CachedLength(key)
<1>1. PICK d \in Paged : /\ d = Reached(key) /\ IsPrefix(d, key) /\ CachedLength(key) = Len(d)
                         /\ \A n \in nodes, q \in Paged : IsPrefix(q, key) /\ IsPrefix(q, n) => IsPrefix(q, d)
                         /\ d = Root \/ \E n \in nodes : IsPrefix(d, n)
  BY ReachedIs
<1>2. nodes \subseteq Paged /\ Len(key) \in Nat /\ Len(d) \in Nat /\ i \in Nat /\ 1 <= i
  BY PagedOrder DEF Tree
<1>3. ASSUME At(key, i) \in CachedIn(nodes) PROVE i <= Len(d)
  <2>0. PICK n \in nodes : \E j \in 1 .. Len(n) : At(key, i) = At(n, j)
    BY <1>3 DEF CachedIn, Positions
  <2>1. PICK j \in 1 .. Len(n) : At(key, i) = At(n, j)
    BY <2>0
  <2>2. PICK x \in Paged : IsPrefix(x, key) /\ IsPrefix(x, n) /\ i <= Len(x)
    BY <1>2, <2>1, SamePosition
  <2>3. IsPrefix(x, d)
    BY <1>1, <2>2
  <2>4. Len(x) <= Len(d) /\ Len(x) \in Nat
    BY <2>3, PagedOrder
  <2> QED
    BY <1>2, <2>2, <2>4
<1>4. ASSUME i <= Len(d) PROVE At(key, i) \in CachedIn(nodes)
  <2>1. d # Root
    <3>1. Len(Root) = 0
      BY PagedOrder
    <3> QED
      BY <1>2, <1>4, <3>1
  <2>2. PICK n \in nodes : IsPrefix(d, n)
    BY <1>1, <2>1
  <2>3. n \in Paged /\ Len(n) \in Nat /\ Len(d) <= Len(n)
    BY <1>2, <2>2, PagedOrder
  <2>4. i \in 1 .. Len(n)
    BY <1>2, <1>4, <2>3
  <2>5. At(key, i) = At(n, i)
    BY <1>1, <1>4, <2>2, <2>3, <2>4, SamePosition
  <2> QED
    BY <2>4, <2>5 DEF CachedIn, Positions
<1> QED
  BY <1>1, <1>3, <1>4

\* An insertion adds the rest of the key, each position once.
LEMMA InsertCaches ==
  ASSUME Tree(nodes), NEW key \in Paged
  PROVE  LET fresh == {At(key, i) : i \in CachedLength(key) + 1 .. Len(key)}
         IN  /\ CachedLength(key) \in 0 .. Len(key) /\ Whole(CachedLength(key))
             /\ CachedIn(SplitNodes(key) \cup {key}) = CachedIn(nodes) \cup fresh
             /\ CachedIn(nodes) \cap fresh = {}
             /\ IsFiniteSet(fresh) /\ Cardinality(fresh) = Len(key) - CachedLength(key)
<1> DEFINE fresh == {At(key, i) : i \in CachedLength(key) + 1 .. Len(key)}
<1>1. PICK k \in Nat : k = CachedLength(key) /\ k <= Len(key) /\ Len(key) \in Nat /\ Whole(k)
  <2>1. Reached(key) \in Paged /\ IsPrefix(Reached(key), key) /\ CachedLength(key) = Len(Reached(key))
    BY ReachedIs
  <2>2. Whole(Len(Reached(key)))
    BY <2>1 DEF Paged
  <2> QED
    BY <2>1, <2>2, PagedOrder
<1>2. CachedIn(SplitNodes(key) \cup {key}) = CachedIn(nodes) \cup Positions(key)
  <2>1. CachedIn(SplitNodes(key) \cup {key}) = CachedIn(SplitNodes(key)) \cup Positions(key)
    BY DEF CachedIn
  <2> QED
    BY <2>1, SplitCachesNothing
<1>3. ASSUME NEW i \in 1 .. Len(key)
      PROVE  IF i <= k THEN At(key, i) \in CachedIn(nodes)
             ELSE At(key, i) \in fresh /\ At(key, i) \notin CachedIn(nodes)
  <2>1. CASE i <= k
    BY <1>1, <2>1, CachedUpto
  <2>2. CASE ~(i <= k)
    <3>1. At(key, i) \notin CachedIn(nodes)
      BY <1>1, <2>2, CachedUpto
    <3>2. i \in CachedLength(key) + 1 .. Len(key)
      BY <1>1, <2>2
    <3> QED
      BY <2>2, <3>1, <3>2
  <2> QED
    BY <2>1, <2>2
<1>4. \A i \in CachedLength(key) + 1 .. Len(key) : i \in 1 .. Len(key) /\ ~(i <= k)
  BY <1>1
<1>5. fresh \subseteq Positions(key)
  BY <1>4 DEF Positions
<1>6. Positions(key) \subseteq CachedIn(nodes) \cup fresh /\ CachedIn(nodes) \cap fresh = {}
  <2>1. Positions(key) \subseteq CachedIn(nodes) \cup fresh
    BY <1>3 DEF Positions
  <2>2. CachedIn(nodes) \cap fresh = {}
    BY <1>3, <1>4
  <2> QED
    BY <2>1, <2>2
<1>7. IsFiniteSet(fresh) /\ Cardinality(fresh) = Len(key) - k
  <2>1. fresh = {At(key, i) : i \in k + 1 .. Len(key)}
    BY <1>1
  <2>2. k \in Nat /\ Len(key) \in Nat /\ k <= Len(key)
    BY <1>1
  <2>3. /\ IsFiniteSet({At(key, i) : i \in k + 1 .. Len(key)})
        /\ Cardinality({At(key, i) : i \in k + 1 .. Len(key)}) = Len(key) - k
    BY <2>2, EdgeCount
  <2> QED
    BY <2>1, <2>3
<1>8. CachedIn(SplitNodes(key) \cup {key}) = CachedIn(nodes) \cup fresh
  BY <1>2, <1>5, <1>6
<1>9. CachedLength(key) \in 0 .. Len(key) /\ Whole(CachedLength(key))
  BY <1>1
<1>10. Cardinality(fresh) = Len(key) - CachedLength(key)
  BY <1>1, <1>7
<1> QED
  BY <1>6, <1>7, <1>8, <1>9, <1>10
-----------------------------------------------------------------------------
(* Leaves: what eviction takes, and where extend hangs a token.               *)

\* The parent of a node, and the positions on the edge between them.
LEMMA ParentIs ==
  ASSUME Tree(nodes), NEW n \in nodes
  PROVE  /\ Parent(n) \in nodes \cup {Root} /\ Parent(n) \in Paged
         /\ IsPrefix(Parent(n), n) /\ Len(Parent(n)) < Len(n)
         /\ \A m \in nodes : IsPrefix(m, n) /\ m # n => IsPrefix(m, Parent(n))
<1> DEFINE S == {m \in nodes : IsStrictPrefix(m, n)}
<1>1. nodes \subseteq Paged /\ n \in Paged /\ n # Root /\ Len(n) \in Nat
  BY PagedOrder DEF Tree
<1>2. S \in SUBSET Paged /\ \A m \in S : Len(m) <= Len(n)
  BY <1>1, PagedOrder DEF IsStrictPrefix
<1>3. Deepest(S) \in S \cup {Root} /\ \A m \in S : Len(m) <= Len(Deepest(S))
  <2> HIDE DEF S
  <2> QED
    BY <1>1, <1>2, DeepestIs
<1>4. PICK p : p = Parent(n) /\ p \in S \cup {Root} /\ \A m \in S : Len(m) <= Len(p)
  BY <1>3 DEF Parent
<1>5. p \in Paged /\ IsPrefix(p, n) /\ p # n /\ p \in nodes \cup {Root}
  BY <1>1, <1>2, <1>4, PagedOrder DEF IsStrictPrefix
<1>6. Len(p) < Len(n)
  <2>1. Len(p) + PageSize <= Len(n) /\ Len(p) \in Nat /\ PageSize \in Nat \ {0}
    BY <1>1, <1>5, PagedOrder, PagesAre
  <2> QED
    BY <1>1, <2>1
<1>7. ASSUME NEW m \in nodes, IsPrefix(m, n), m # n PROVE IsPrefix(m, p)
  <2>1. m \in Paged /\ m \in S
    BY <1>1, <1>7 DEF IsStrictPrefix
  <2> QED
    BY <1>1, <1>4, <1>5, <1>7, <2>1, PagedOrder
<1> QED
  BY <1>4, <1>5, <1>6, <1>7

\* A leaf takes exactly its edge with it.
LEMMA LeafLeaves ==
  ASSUME Tree(nodes), NEW n \in nodes, Below(n) = {}
  PROVE  /\ Tree(nodes \ {n})
         /\ EdgeOf(n) \cap CachedIn(nodes \ {n}) = {}
         /\ CachedIn(nodes) = CachedIn(nodes \ {n}) \cup EdgeOf(n)
         /\ IsFiniteSet(EdgeOf(n)) /\ Cardinality(EdgeOf(n)) = Len(n) - Len(Parent(n))
         /\ Len(n) - Len(Parent(n)) \in Nat
<1>1. PICK p \in Paged : /\ p = Parent(n) /\ p \in nodes \cup {Root} /\ IsPrefix(p, n) /\ Len(p) < Len(n)
                         /\ \A m \in nodes : IsPrefix(m, n) /\ m # n => IsPrefix(m, p)
  BY ParentIs
<1>2. nodes \subseteq Paged /\ n \in Paged /\ n # Root /\ Len(n) \in Nat /\ Len(p) \in Nat /\ Root \notin nodes
  BY PagedOrder DEF Tree
<1>3. ASSUME NEW m \in nodes, IsPrefix(n, m) PROVE m = n
  BY <1>3 DEF Below, IsStrictPrefix
<1>4. Tree(nodes \ {n})
  <2>1. ASSUME NEW a \in nodes \ {n}, NEW b \in nodes \ {n} PROVE Shared(a, b) # n
    <3>1. IsPrefix(Shared(a, b), a)
      BY <1>2, SharedIs
    <3> QED
      BY <1>3, <3>1
  <2> QED
    BY <2>1 DEF Tree
<1>5. ASSUME NEW m \in nodes \ {n}, NEW j \in 1 .. Len(m), NEW i \in Len(p) + 1 .. Len(n)
      PROVE  At(n, i) # At(m, j)
  <2>1. SUFFICES ASSUME At(n, i) = At(m, j) PROVE FALSE
    OBVIOUS
  <2>2. i \in 1 .. Len(n) /\ m \in Paged /\ i \in Nat /\ Len(p) < i
    BY <1>2
  <2>3. PICK x \in Paged : IsPrefix(x, n) /\ IsPrefix(x, m) /\ i <= Len(x)
    BY <1>2, <2>1, <2>2, SamePosition
  <2>4. PICK q \in Paged : q = Shared(n, m) /\ IsPrefix(q, n) /\ IsPrefix(q, m) /\ IsPrefix(x, q)
    BY <1>2, <2>2, <2>3, SharedIs
  <2>5. Len(x) \in Nat /\ Len(q) \in Nat /\ Len(x) <= Len(q)
    BY <2>4, PagedOrder
  <2>6. q \in nodes
    <3>1. Len(q) # 0
      BY <2>2, <2>3, <2>5
    <3>2. q \in nodes \cup {Root}
      BY <2>2, <2>4 DEF Tree
    <3> QED
      BY <3>1, <3>2, PagedOrder
  <2>7. q # n
    BY <1>3, <2>4
  <2>8. IsPrefix(q, p)
    BY <1>1, <2>4, <2>6, <2>7
  <2>9. Len(q) <= Len(p)
    BY <2>8, PagedOrder
  <2> QED
    BY <1>2, <2>2, <2>3, <2>5, <2>9
<1>6. EdgeOf(n) \cap CachedIn(nodes \ {n}) = {}
  BY <1>1, <1>5 DEF EdgeOf, CachedIn, Positions
<1>7. CachedIn(nodes) = CachedIn(nodes \ {n}) \cup EdgeOf(n)
  <2>1. ASSUME NEW i \in 1 .. Len(n) PROVE At(n, i) \in EdgeOf(n) \cup CachedIn(nodes \ {n})
    <3>1. CASE Len(p) + 1 <= i
      <4>1. i \in Len(p) + 1 .. Len(n)
        BY <1>2, <3>1
      <4> QED
        BY <1>1, <4>1 DEF EdgeOf
    <3>2. CASE i <= Len(p)
      <4>1. i \in 1 .. Len(p) /\ Len(p) # 0
        BY <1>2, <3>2
      <4>2. IsPrefix(p, p) /\ At(n, i) = At(p, i)
        <5>1. IsPrefix(p, p)
          BY PagedOrder
        <5> QED
          BY <1>1, <1>2, <3>2, <4>1, <5>1, SamePosition
      <4>3. p \in nodes \ {n}
        BY <1>1, <4>1, PagedOrder
      <4> QED
        BY <4>1, <4>2, <4>3 DEF CachedIn, Positions
    <3> QED
      BY <1>2, <3>1, <3>2
  <2>2. CachedIn(nodes) = CachedIn(nodes \ {n}) \cup Positions(n)
    BY DEF CachedIn
  <2>3. EdgeOf(n) \subseteq Positions(n)
    <3>1. Len(p) + 1 .. Len(n) \subseteq 1 .. Len(n)
      BY <1>2
    <3> QED
      BY <1>1, <3>1 DEF EdgeOf, Positions
  <2>4. Positions(n) \subseteq EdgeOf(n) \cup CachedIn(nodes \ {n})
    BY <2>1 DEF Positions
  <2> QED
    BY <2>2, <2>3, <2>4
<1>8. IsFiniteSet(EdgeOf(n)) /\ Cardinality(EdgeOf(n)) = Len(n) - Len(p)
  <2>1. EdgeOf(n) = {At(n, i) : i \in Len(p) + 1 .. Len(n)}
    BY <1>1 DEF EdgeOf
  <2>2. Len(p) <= Len(n)
    BY <1>1, <1>2
  <2> QED
    BY <1>2, <2>1, <2>2, EdgeCount
<1>9. Len(n) - Len(p) \in Nat
  BY <1>1, <1>2
<1> QED
  BY <1>1, <1>4, <1>6, <1>7, <1>8, <1>9

\* One token more is one page more when pages hold a single token.
LEMMA AppendIs ==
  ASSUME PageSize = 1, NEW s \in Paged, NEW t \in Token
  PROVE  /\ Append(s, t) \in Paged /\ Len(Append(s, t)) = Len(s) + 1 /\ Append(s, t) # Root
         /\ IsPrefix(s, Append(s, t)) /\ Append(s, t)[Len(s) + 1] = t
         /\ \A x \in Paged : IsPrefix(x, Append(s, t)) /\ x # Append(s, t) => IsPrefix(x, s)
         /\ \A x \in Paged : IsPrefix(Append(s, t), x) => x[Len(s) + 1] = t /\ Len(x) >= Len(s) + 1
<1>1. s \in Seq(Token) /\ s \in Strings /\ Len(s) \in Nat
  BY DEF Paged, Strings
<1>2. PICK c \in Strings : /\ c = Append(s, t) /\ Len(c) = Len(s) + 1 /\ c[Len(s) + 1] = t
                           /\ \A i \in 1 .. Len(s) : c[i] = s[i]
  <2>1. /\ Append(s, t) \in Seq(Token) /\ Len(Append(s, t)) = Len(s) + 1
        /\ \A i \in 1 .. Len(s) : Append(s, t)[i] = s[i]
        /\ Append(s, t)[Len(s) + 1] = t
    BY <1>1, AppendProperties
  <2> QED
    BY <2>1 DEF Strings
<1>3. c \in Paged /\ c # Root
  <2>1. \A n \in Nat : n % 1 = 0
    OBVIOUS
  <2>2. Whole(Len(s) + 1)
    BY <1>1, <2>1 DEF Whole
  <2> QED
    BY <1>1, <1>2, <2>2, PagedOrder DEF Paged
<1>4. IsPrefix(s, c)
  <2>1. Len(s) \in 0 .. Len(c)
    BY <1>1, <1>2
  <2>2. PICK u \in Strings : u = Upto(c, Len(s)) /\ Len(u) = Len(s) /\ \A i \in 1 .. Len(s) : u[i] = c[i]
    BY <2>1, UptoIs
  <2>3. u = s
    BY <1>1, <1>2, <2>2, SameString
  <2>4. Len(s) <= Len(c) /\ Upto(c, Len(s)) = s
    BY <1>1, <1>2, <2>2, <2>3
  <2> QED
    BY <1>1, <2>4, PrefixIs
<1>5. ASSUME NEW x \in Paged, IsPrefix(x, c), x # c PROVE IsPrefix(x, s)
  <2>1. Len(x) \in Nat /\ Len(x) + 1 <= Len(c)
    BY <1>3, <1>5, PagedOrder
  <2>2. Len(x) <= Len(s)
    BY <1>1, <1>2, <2>1
  <2> QED
    BY <1>3, <1>4, <1>5, <2>2, PagedOrder
<1>6. ASSUME NEW x \in Paged, IsPrefix(c, x) PROVE x[Len(s) + 1] = t /\ Len(x) >= Len(s) + 1
  <2>1. x \in Strings /\ Len(c) <= Len(x) /\ Upto(x, Len(c)) = c
    BY <1>6, PrefixIs DEF Paged
  <2>2. Len(x) \in Nat /\ Len(c) \in 0 .. Len(x) /\ Len(s) + 1 \in 1 .. Len(c)
    BY <1>1, <1>2, <2>1, UptoUpto
  <2>3. c[Len(s) + 1] = x[Len(s) + 1]
    BY <2>1, <2>2, UptoIs
  <2> QED
    BY <1>2, <2>1, <2>3
<1> QED
  BY <1>2, <1>3, <1>4, <1>5, <1>6

\* Hanging a token below a node keeps the tree, unless a child with a longer edge
\* starts with that token, when the code raises instead.
LEMMA ChildHangs ==
  ASSUME Tree(nodes), PageSize = 1, NEW s \in nodes \cup {Root}, NEW t \in Token,
         Append(s, t) \notin nodes,
         ~ \E c \in Children(s) : Len(c) > Len(s) + 1 /\ c[Len(s) + 1] = t
  PROVE  LET child == Append(s, t)
         IN  /\ \A n \in nodes : ~IsPrefix(child, n)
             /\ Tree(nodes \cup {child})
             /\ CachedIn(nodes \cup {child}) = CachedIn(nodes) \cup {At(child, Len(child))}
             /\ At(child, Len(child)) \notin CachedIn(nodes)
<1>1. s \in Paged /\ nodes \subseteq Paged /\ Root \notin nodes /\ Len(s) \in Nat
  BY PagedOrder DEF Tree
<1>2. PICK c \in Paged : /\ c = Append(s, t) /\ Len(c) = Len(s) + 1 /\ c # Root /\ IsPrefix(s, c)
                         /\ \A x \in Paged : IsPrefix(x, c) /\ x # c => IsPrefix(x, s)
                         /\ \A x \in Paged : IsPrefix(c, x) => x[Len(s) + 1] = t /\ Len(x) >= Len(s) + 1
  BY <1>1, AppendIs
<1>3. ASSUME NEW n \in nodes, IsPrefix(c, n) PROVE FALSE
  <2>1. n \in Below(s)
    <3>1. IsPrefix(s, n) /\ Len(c) <= Len(n)
      BY <1>1, <1>2, <1>3, PagedOrder
    <3>2. s # n
      BY <1>1, <1>2, <3>1
    <3> QED
      BY <3>1, <3>2 DEF Below, IsStrictPrefix
  <2>2. PICK d \in Children(s) : IsPrefix(d, n)
    BY <1>1, <2>1, ChildTowards
  <2>3. d \in nodes /\ d \in Paged /\ IsPrefix(s, d) /\ s # d /\ Len(d) \in Nat
    BY <1>1, <2>2, PagedOrder DEF Children, Below, IsStrictPrefix
  <2>4. Len(s) + 1 <= Len(d)
    BY <1>1, <2>3, PagedOrder
  <2>5. IsPrefix(c, d)
    BY <1>1, <1>2, <1>3, <2>2, <2>3, <2>4, PagedOrder
  <2>6. c # d /\ d[Len(s) + 1] = t
    BY <1>2, <2>3, <2>5
  <2>7. Len(c) + 1 <= Len(d)
    BY <1>2, <2>3, <2>5, <2>6, PagedOrder
  <2>8. Len(d) > Len(s) + 1
    BY <1>1, <1>2, <2>3, <2>7
  <2> QED
    BY <2>2, <2>6, <2>8
<1>4. ASSUME NEW n \in nodes PROVE Shared(c, n) \in nodes \cup {Root} /\ Shared(n, c) \in nodes \cup {Root}
  <2>1. PICK q \in Paged : /\ q = Shared(c, n) /\ IsPrefix(q, c) /\ IsPrefix(q, n)
                           /\ \A x \in Paged : IsPrefix(x, c) /\ IsPrefix(x, n) => IsPrefix(x, q)
    BY <1>1, SharedIs
  <2>2. IsPrefix(q, s)
    BY <1>2, <1>3, <2>1
  <2>3. \A x \in Paged : IsPrefix(x, s) /\ IsPrefix(x, n) => IsPrefix(x, q)
    BY <1>1, <1>2, <2>1, PagedOrder
  <2>4. Shared(s, n) = q
    BY <1>1, <2>1, <2>2, <2>3, SharedUnique
  <2>5. q \in nodes \cup {Root}
    <3>1. CASE s \in nodes
      BY <2>4, <3>1 DEF Tree
    <3>2. CASE s = Root
      BY <2>2, <3>2, PagedOrder, Mutual
    <3> QED
      BY <3>1, <3>2
  <2> QED
    BY <1>1, <2>1, <2>5, SharedSym
<1>5. Tree(nodes \cup {c})
  <2>1. Shared(c, c) = c
    BY SharedSym, PagedOrder
  <2> QED
    BY <1>1, <1>2, <1>4, <2>1 DEF Tree
<1>6. At(c, Len(c)) \notin CachedIn(nodes)
  <2>1. ASSUME NEW n \in nodes, NEW j \in 1 .. Len(n), At(c, Len(c)) = At(n, j) PROVE FALSE
    <3>1. Len(c) \in 1 .. Len(c)
      BY <1>1, <1>2
    <3>2. PICK x \in Paged : IsPrefix(x, c) /\ IsPrefix(x, n) /\ Len(c) <= Len(x)
      BY <1>1, <2>1, <3>1, SamePosition
    <3>3. IsPrefix(c, c)
      BY PagedOrder
    <3>4. IsPrefix(c, x)
      BY <3>2, <3>3, PagedOrder
    <3> QED
      BY <1>1, <1>3, <3>2, <3>4, PagedOrder
  <2> QED
    BY <2>1 DEF CachedIn, Positions
<1>7. CachedIn(nodes \cup {c}) = CachedIn(nodes) \cup {At(c, Len(c))}
  <2>1. ASSUME NEW i \in 1 .. Len(c), i # Len(c) PROVE At(c, i) \in CachedIn(nodes)
    <3>1. i \in 1 .. Len(s) /\ i <= Len(s) /\ Len(s) # 0
      BY <1>1, <1>2, <2>1
    <3>2. s \in nodes /\ IsPrefix(s, s)
      BY <1>1, <3>1, PagedOrder
    <3>3. \E x \in Paged : IsPrefix(x, c) /\ IsPrefix(x, s) /\ i <= Len(x)
      BY <1>1, <1>2, <3>1, <3>2
    <3>4. At(c, i) = At(s, i)
      BY <1>1, <3>1, <3>3, SamePosition
    <3> QED
      BY <3>1, <3>2, <3>4 DEF CachedIn, Positions
  <2>2. CachedIn(nodes \cup {c}) = CachedIn(nodes) \cup Positions(c)
    BY DEF CachedIn
  <2>3. Len(c) \in 1 .. Len(c)
    BY <1>1, <1>2
  <2>4. Positions(c) \subseteq CachedIn(nodes) \cup {At(c, Len(c))} /\ At(c, Len(c)) \in Positions(c)
    BY <2>1, <2>3 DEF Positions
  <2> QED
    BY <2>2, <2>4
<1> QED
  BY <1>2, <1>3, <1>5, <1>6, <1>7

\* Below every node there is a leaf.
LEMMA LeafBelow ==
  ASSUME Tree(nodes), NEW n \in nodes, NEW b \in Nat, \A m \in nodes : Len(m) <= b
  PROVE  \E leaf \in nodes : Below(leaf) = {} /\ IsPrefix(n, leaf)
<1> DEFINE L == {Len(m) : m \in {x \in nodes : IsPrefix(n, x)}}
<1>1. nodes \subseteq Paged /\ \A m \in nodes : Len(m) \in Nat /\ IsPrefix(m, m)
  BY PagedOrder DEF Tree
<1>2. L \in SUBSET Nat /\ L # {} /\ \A k \in L : k <= b
  BY <1>1
<1>3. PICK k \in L : \A j \in L : j <= k
  <2> HIDE DEF L
  <2> QED
    BY <1>2, GreatestOf
<1>4. PICK leaf \in nodes : IsPrefix(n, leaf) /\ Len(leaf) = k
  BY <1>3
<1>5. ASSUME NEW m \in Below(leaf) PROVE FALSE
  <2>1. m \in nodes /\ IsPrefix(leaf, m) /\ leaf # m
    BY <1>5 DEF Below, IsStrictPrefix
  <2>2. IsPrefix(n, m) /\ Len(leaf) + PageSize <= Len(m)
    BY <1>1, <1>4, <2>1, PagedOrder
  <2>3. Len(m) <= k /\ k \in Nat /\ Len(m) \in Nat /\ PageSize \in Nat \ {0}
    BY <1>1, <1>3, <1>4, <2>1, <2>2, PagesAre
  <2> QED
    BY <1>4, <2>2, <2>3
<1> QED
  BY <1>4, <1>5
-----------------------------------------------------------------------------
(* What every operation keeps.                                                *)

\* The shape of the tree's state.
TreeTypes ==
  /\ slotAt \in [CachedIn(nodes) -> Slot]
  /\ IsFiniteSet(CachedIn(nodes)) /\ cachedTokens = Cardinality(CachedIn(nodes))
  /\ resumable \subseteq nodes
  /\ DOMAIN ckptAt \subseteq resumable /\ ckptAt \in [DOMAIN ckptAt -> Ckpt]
  /\ lockRef \in [nodes -> Nat]
  /\ DOMAIN leases \subseteq LeaseId /\ IsFiniteSet(DOMAIN leases)

\* The inductive invariant of the tree.
TreeInv == TreeTypes /\ Tree(nodes) /\ LockRefExact /\ LeasePinned

Holders(table, n) == {l \in DOMAIN table : IsPrefix(n, table[l].node)}

\* A lease is on the root or on a node a match may stop at, which is in the tree.
LEMMA LeasedNodes ==
  ASSUME TreeInv, NEW l \in DOMAIN leases
  PROVE  leases[l].node \in resumable \cup {Root} /\ leases[l].node \in nodes \cup {Root} /\ leases[l].node \in Paged
  BY PagedOrder DEF TreeInv, TreeTypes, LeasePinned, Tree

\* The table gained the leases of L at the node end.
Taken(old, new, L, end) ==
  /\ IsFiniteSet(DOMAIN old)
  /\ (L = {} \/ \E l : L = {l}) /\ L \cap DOMAIN old = {} /\ DOMAIN new = DOMAIN old \cup L
  /\ \A l \in DOMAIN old : new[l] = old[l]
  /\ \A l \in L : new[l].node = end

\* Taking leases at a node raises the counts of its path, and of no other node.
LEMMA LocksAdd ==
  ASSUME NEW old, NEW new, NEW L, NEW end, NEW n, Taken(old, new, L, end)
  PROVE  /\ Cardinality(Holders(old, n)) \in Nat
         /\ Cardinality(Holders(new, n)) = Cardinality(Holders(old, n)) + Cardinality(L) * Locks(n, end)
         /\ Cardinality(L) \in Nat /\ Locks(n, end) \in Nat /\ IsFiniteSet(DOMAIN new)
<1>1. IsFiniteSet(Holders(old, n)) /\ Cardinality(Holders(old, n)) \in Nat
  BY FS_Subset, FS_CardinalityType DEF Holders, Taken
<1>2. Locks(n, end) \in Nat
  BY DEF Locks
<1>3. CASE L = {}
  <2>1. Cardinality(L) = 0 /\ Holders(new, n) = Holders(old, n) /\ DOMAIN new = DOMAIN old
    BY <1>3, FS_EmptySet DEF Holders, Taken
  <2> QED
    BY <1>1, <1>2, <2>1 DEF Taken
<1>4. CASE \E l : L = {l}
  <2>1. PICK l : L = {l}
    BY <1>4
  <2>2. Cardinality(L) = 1 /\ l \notin DOMAIN old /\ IsFiniteSet(DOMAIN new)
    <3>1. IsFiniteSet(DOMAIN old) /\ l \notin DOMAIN old /\ DOMAIN new = DOMAIN old \cup {l}
      BY <2>1 DEF Taken
    <3> QED
      BY <2>1, <3>1, FS_Singleton, FS_AddElement
  <2>3. CASE IsPrefix(n, end)
    <3>1. Holders(new, n) = Holders(old, n) \cup {l} /\ l \notin Holders(old, n)
      BY <2>1, <2>2, <2>3 DEF Holders, Taken
    <3>2. Cardinality(Holders(new, n)) = Cardinality(Holders(old, n)) + 1
      BY <1>1, <3>1, FS_AddElement
    <3> QED
      BY <1>1, <1>2, <2>2, <2>3, <3>2 DEF Locks
  <2>4. CASE ~IsPrefix(n, end)
    <3>1. Holders(new, n) = Holders(old, n)
      BY <2>1, <2>2, <2>4 DEF Holders, Taken
    <3> QED
      BY <1>1, <1>2, <2>2, <2>4, <3>1 DEF Locks
  <2> QED
    BY <2>3, <2>4
<1> QED
  BY <1>3, <1>4 DEF Taken

\* The lock counts a split leaves are right: who leases below the new node leases
\* below the child it was put over.
LEMMA SplitLockIs ==
  ASSUME TreeInv, NEW key \in Paged, NEW n \in SplitNodes(key)
  PROVE  SplitLock(n, key) = Cardinality(Holders(leases, n)) /\ SplitLock(n, key) \in Nat
<1>0. Tree(nodes) /\ lockRef \in [nodes -> Nat] /\ \A m \in nodes : lockRef[m] = Cardinality(Holders(leases, m))
  BY DEF TreeInv, TreeTypes, LockRefExact, Holders
<1>1. CASE n \in nodes
  BY <1>0, <1>1 DEF SplitLock
<1>2. CASE n \notin nodes
  <2>1. PICK c \in LeftEdges(key) : n = SplitPoint(c, key)
    BY <1>2 DEF SplitNodes
  <2>2. (CHOOSE d \in LeftEdges(key) : TRUE) = c
    BY <1>0, OneLeft
  <2>3. SplitLock(n, key) = lockRef[c]
    BY <1>2, <2>2 DEF SplitLock
  <2>4. c \in nodes /\ c \in Paged /\ n \in Paged /\ IsPrefix(n, c) /\ n # Root
    BY <1>0, <2>1, SplitPointIs
  <2>5. ASSUME NEW l \in DOMAIN leases PROVE IsPrefix(n, leases[l].node) <=> IsPrefix(c, leases[l].node)
    <3>1. PICK m \in Paged : m = leases[l].node /\ m \in nodes \cup {Root}
      BY LeasedNodes
    <3>2. IsPrefix(c, m) => IsPrefix(n, m)
      BY <2>4, <3>1, PagedOrder
    <3>3. m = Root => ~IsPrefix(n, m)
      BY <2>4, PagedOrder, Mutual
    <3>4. m \in nodes /\ IsPrefix(n, m) => IsPrefix(c, m)
      BY <1>0, <2>1, <3>1, BelowSplit
    <3> QED
      BY <3>1, <3>2, <3>3, <3>4
  <2>6. Holders(leases, n) = Holders(leases, c)
    BY <2>5 DEF Holders
  <2> QED
    BY <1>0, <2>3, <2>4, <2>6
<1> QED
  BY <1>1, <1>2

\* A node that grows no other node keeps its values.
LEMMA ValuesStay ==
  ASSUME TreeInv, NEW n \in nodes \cup {Root}, NEW table,
         \A p \in CachedIn(nodes) : table[p] = slotAt[p]
  PROVE  PathValues(n) = [i \in 1 .. Len(n) |-> table[At(n, i)]]
<1>1. \A i \in 1 .. Len(n) : At(n, i) \in CachedIn(nodes)
  <2>1. CASE n = Root
    <3>1. 1 .. Len(n) = {}
      BY <2>1, PagedOrder
    <3> QED
      BY <3>1
  <2>2. CASE n \in nodes
    BY <2>2 DEF CachedIn, Positions
  <2> QED
    BY <2>1, <2>2
<1> QED
  BY <1>1 DEF PathValues

\* match_prefix: the walk may split an edge, and the match locks its path.
LEMMA MatchKeeps ==
  ASSUME TreeInv, NEW l \in LeaseId, NEW key \in Strings, MatchPrefix(l, key)
  PROVE  TreeInv' /\ \E usable \in Paged : IsPrefix(usable, key) /\ nodes' = SplitNodes(usable)
<1>0. Tree(nodes) /\ TreeTypes
  BY DEF TreeInv
<1>1. PICK usable \in Paged : usable = Upto(key, Aligned(Len(key))) /\ IsPrefix(usable, key)
  <2>1. Len(key) \in Nat /\ Aligned(Len(key)) \in 0 .. Len(key) /\ Whole(Aligned(Len(key)))
    BY UptoUpto, PagesAre
  <2>2. Upto(key, Aligned(Len(key))) \in Paged
    BY <2>1, UptoIs DEF Paged
  <2> QED
    BY <2>1, <2>2, PrefixOrder
<1>2. PICK best \in Paged : best = Deepest(Along(usable) \cap resumable) /\
                           best \in resumable \cup {Root} /\ best \in nodes \cup {Root}
  <2>1. Len(usable) \in Nat /\ Along(usable) \cap resumable \in SUBSET Paged /\
        \A n \in Along(usable) \cap resumable : Len(n) <= Len(usable)
    BY <1>0, PagedOrder DEF Along, Tree
  <2>2. Deepest(Along(usable) \cap resumable) \in (Along(usable) \cap resumable) \cup {Root}
    BY <2>1, DeepestIs
  <2> QED
    BY <2>1, <2>2, PagedOrder DEF Along
<1>3. /\ l \notin DOMAIN leases /\ nodes' = SplitNodes(usable)
      /\ lockRef' = [n \in SplitNodes(usable) |-> SplitLock(n, usable) + Locks(n, best)]
      /\ leases' = Put(leases, l, Lease(best, PathValues(best), CkptOf(best)))
      /\ slotAt' = slotAt /\ cachedTokens' = cachedTokens /\ resumable' = resumable /\ ckptAt' = ckptAt
  BY <1>1, <1>2 DEF MatchPrefix
<1>4. /\ DOMAIN leases' = DOMAIN leases \cup {l} /\ \A m \in DOMAIN leases : leases'[m] = leases[m]
      /\ leases'[l] = Lease(best, PathValues(best), CkptOf(best)) /\ leases'[l].node = best
  BY <1>3 DEF Put, Lease
<1>5. Tree(nodes') /\ nodes \subseteq nodes' /\ CachedIn(nodes') = CachedIn(nodes)
  BY <1>0, <1>1, <1>3, SplitKeepsTree, SplitCachesNothing
<1>6. ASSUME NEW n \in nodes'
      PROVE  lockRef'[n] = Cardinality(Holders(leases', n)) /\ lockRef'[n] \in Nat
  <2>1. lockRef'[n] = SplitLock(n, usable) + Locks(n, best)
    BY <1>3
  <2>2. SplitLock(n, usable) = Cardinality(Holders(leases, n)) /\ SplitLock(n, usable) \in Nat
    BY <1>1, <1>3, SplitLockIs
  <2>3. /\ Cardinality(Holders(leases', n)) = Cardinality(Holders(leases, n)) + Cardinality({l}) * Locks(n, best)
        /\ Locks(n, best) \in Nat
    <3>1. Taken(leases, leases', {l}, best)
      BY <1>0, <1>3, <1>4 DEF TreeTypes, Taken
    <3> QED
      BY <3>1, LocksAdd
  <2> QED
    BY <2>1, <2>2, <2>3, FS_Singleton
<1>7. TreeTypes'
  <2>1. DOMAIN leases' \subseteq LeaseId /\ IsFiniteSet(DOMAIN leases')
    BY <1>0, <1>4, FS_AddElement DEF TreeTypes
  <2>2. lockRef' \in [nodes' -> Nat]
    BY <1>3, <1>6
  <2> QED
    BY <1>0, <1>3, <1>5, <2>1, <2>2 DEF TreeTypes
<1>8. LockRefExact'
  BY <1>6 DEF LockRefExact, Holders
<1>9. LeasePinned'
  <2>1. ASSUME NEW m \in DOMAIN leases'
        PROVE  /\ leases'[m].node = Root \/ leases'[m].node \in resumable'
               /\ leases'[m].values = [i \in 1 .. Len(leases'[m].node) |-> slotAt'[At(leases'[m].node, i)]]
               /\ leases'[m].ckpt \subseteq IF leases'[m].node \in DOMAIN ckptAt' THEN {ckptAt'[leases'[m].node]} ELSE {}
    <3>1. CASE m \in DOMAIN leases
      <4>1. /\ leases[m].node = Root \/ leases[m].node \in resumable
            /\ leases[m].values = [i \in 1 .. Len(leases[m].node) |-> slotAt[At(leases[m].node, i)]]
            /\ leases[m].ckpt \subseteq IF leases[m].node \in DOMAIN ckptAt THEN {ckptAt[leases[m].node]} ELSE {}
        BY <3>1 DEF TreeInv, LeasePinned, PathValues, CkptOf
      <4>2. leases'[m] = leases[m]
        BY <1>4, <3>1
      <4> QED
        BY <1>3, <4>1, <4>2
    <3>2. CASE m = l
      <4>1. leases'[l].values = PathValues(best) /\ leases'[l].ckpt = CkptOf(best)
        BY <1>4 DEF Lease
      <4> QED
        BY <1>2, <1>3, <1>4, <3>2, <4>1, ZenonT(60) DEF PathValues, CkptOf
    <3> QED
      BY <1>4, <3>1, <3>2
  <2> QED
    BY <2>1 DEF LeasePinned, PathValues, CkptOf
<1>10. Tree(nodes)'
  BY <1>5
<1> QED
  BY <1>1, <1>3, <1>7, <1>8, <1>9, <1>10 DEF TreeInv

\* release: the path is unlocked.
LEMMA ReleaseKeeps ==
  ASSUME TreeInv, NEW l, ReleaseLease(l)
  PROVE  TreeInv'
<1>1. /\ l \in DOMAIN leases /\ lockRef' = [n \in nodes |-> lockRef[n] - Locks(n, leases[l].node)]
      /\ leases' = [m \in DOMAIN leases \ {l} |-> leases[m]]
      /\ nodes' = nodes /\ slotAt' = slotAt /\ cachedTokens' = cachedTokens
      /\ resumable' = resumable /\ ckptAt' = ckptAt
  BY DEF ReleaseLease
<1>2. ASSUME NEW n \in nodes
      PROVE  lockRef'[n] = Cardinality(Holders(leases', n)) /\ lockRef'[n] \in Nat
  <2>1. IsFiniteSet(DOMAIN leases) /\ IsFiniteSet(Holders(leases, n)) /\ lockRef[n] = Cardinality(Holders(leases, n))
    BY FS_Subset DEF TreeInv, TreeTypes, LockRefExact, Holders
  <2>2. Cardinality(Holders(leases, n)) \in Nat /\ Cardinality(Holders(leases', n)) \in Nat
    <3>1. IsFiniteSet(Holders(leases', n))
      <4>1. Holders(leases', n) \in SUBSET DOMAIN leases
        BY <1>1 DEF Holders
      <4> QED
        BY <2>1, <4>1, FS_Subset
    <3> QED
      BY <2>1, <3>1, FS_CardinalityType
  <2>3. lockRef'[n] = lockRef[n] - Locks(n, leases[l].node)
    BY <1>1
  <2>4. CASE IsPrefix(n, leases[l].node)
    <3>1. Holders(leases', n) = Holders(leases, n) \ {l} /\ l \in Holders(leases, n)
      BY <1>1, <2>4 DEF Holders
    <3>2. Cardinality(Holders(leases', n)) = Cardinality(Holders(leases, n)) - 1
      BY <2>1, <3>1, FS_RemoveElement
    <3> QED
      BY <2>1, <2>2, <2>3, <2>4, <3>2 DEF Locks
  <2>5. CASE ~IsPrefix(n, leases[l].node)
    <3>1. Holders(leases', n) = Holders(leases, n)
      BY <1>1, <2>5 DEF Holders
    <3> QED
      BY <2>1, <2>2, <2>3, <2>5, <3>1 DEF Locks
  <2> QED
    BY <2>4, <2>5
<1>3. TreeTypes'
  <2>1. IsFiniteSet(DOMAIN leases') /\ DOMAIN leases' \subseteq LeaseId
    BY <1>1, FS_RemoveElement DEF TreeInv, TreeTypes
  <2>2. lockRef' \in [nodes -> Nat]
    BY <1>1, <1>2
  <2> QED
    BY <1>1, <2>1, <2>2 DEF TreeInv, TreeTypes
<1>4. LockRefExact'
  BY <1>1, <1>2 DEF LockRefExact, Holders
<1>5. LeasePinned'
  <2>1. \A m \in DOMAIN leases' : m \in DOMAIN leases /\ leases'[m] = leases[m]
    BY <1>1
  <2> QED
    BY <1>1, <2>1 DEF TreeInv, LeasePinned, PathValues, CkptOf
<1>6. Tree(nodes)'
  BY <1>1 DEF TreeInv, Tree
<1> QED
  BY <1>3, <1>4, <1>5, <1>6 DEF TreeInv

\* What insert does to the values: cached ones stay, the rest of the key is added.
LEMMA InsertValues ==
  ASSUME TreeInv, NEW key \in Paged, NEW values \in Seq(Slot), NEW ckpt, NEW L, Insert(key, values, ckpt, L)
  PROVE  /\ key # Root /\ Len(values) = Len(key) /\ Len(key) \in Nat
         /\ CachedLength(key) \in 0 .. Len(key)
         /\ nodes' = SplitNodes(key) \cup {key}
         /\ CachedIn(nodes') = CachedIn(nodes) \cup {At(key, i) : i \in CachedLength(key) + 1 .. Len(key)}
         /\ slotAt' \in [CachedIn(nodes') -> Slot]
         /\ \A p \in CachedIn(nodes) : slotAt'[p] = slotAt[p]
         /\ \A i \in CachedLength(key) + 1 .. Len(key) : slotAt'[At(key, i)] = values[i] /\ At(key, i) \notin CachedIn(nodes)
         /\ \A i \in 1 .. CachedLength(key) : At(key, i) \in CachedIn(nodes)
         /\ IsFiniteSet(CachedIn(nodes')) /\ cachedTokens' = Cardinality(CachedIn(nodes'))
<1> DEFINE fresh == {At(key, i) : i \in CachedLength(key) + 1 .. Len(key)}
<1>0. Tree(nodes) /\ TreeTypes
  BY DEF TreeInv
<1>1. /\ Len(key) > 0 /\ Len(values) = Len(key)
      /\ nodes' = SplitNodes(key) \cup {key}
      /\ slotAt' = Extended(slotAt, [p \in fresh |-> values[p[2]]])
      /\ cachedTokens' = cachedTokens + (Len(key) - CachedLength(key))
  BY DEF Insert, Insertable
<1>2. Len(key) \in Nat /\ key # Root
  <2>1. Len(Root) = 0
    BY PagedOrder
  <2> QED
    BY <1>1, <2>1, PagedOrder
<1>3. PICK k \in Nat : k = CachedLength(key) /\ k <= Len(key)
  <2>1. CachedLength(key) \in 0 .. Len(key)
    BY <1>0, InsertCaches
  <2> QED
    BY <1>2, <2>1
<1>4. CachedIn(SplitNodes(key) \cup {key}) = CachedIn(nodes) \cup fresh /\ CachedIn(nodes) \cap fresh = {}
  BY <1>0, InsertCaches
<1>5. IsFiniteSet(fresh) /\ Cardinality(fresh) = Len(key) - CachedLength(key)
  BY <1>0, InsertCaches
<1>6. \A i \in 1 .. Len(key) : At(key, i) \in CachedIn(nodes) <=> i <= k
  BY <1>0, <1>3, CachedUpto
<1>7. \A p \in fresh : p[2] \in 1 .. Len(key) /\ values[p[2]] \in Slot
  <2>1. ASSUME NEW i \in CachedLength(key) + 1 .. Len(key)
        PROVE  At(key, i)[2] = i /\ i \in 1 .. Len(key) /\ values[i] \in Slot
    <3>1. i \in 1 .. Len(key)
      BY <1>2, <1>3
    <3>2. values[i] \in Slot
      BY <1>1, <3>1
    <3> QED
      BY <3>1, <3>2 DEF At
  <2> QED
    BY <2>1
<1>8. DOMAIN slotAt' = CachedIn(nodes) \cup fresh /\ \A p \in CachedIn(nodes) : slotAt'[p] = slotAt[p] /\ slotAt[p] \in Slot
  <2> HIDE DEF fresh
  <2> QED
    BY <1>0, <1>1 DEF Extended, TreeTypes
<1>9. \A p \in fresh : slotAt'[p] = values[p[2]]
  <2>1. DOMAIN slotAt = CachedIn(nodes)
    BY <1>0 DEF TreeTypes
  <2> HIDE DEF fresh
  <2> QED
    BY <1>1, <1>4, <2>1 DEF Extended
<1>10. slotAt' \in [CachedIn(nodes') -> Slot]
  <2>1. slotAt' = [p \in DOMAIN slotAt' |-> slotAt'[p]]
    BY <1>1 DEF Extended
  <2> HIDE DEF fresh
  <2> QED
    BY <1>1, <1>4, <1>7, <1>8, <1>9, <2>1
<1>11. \A i \in CachedLength(key) + 1 .. Len(key) : slotAt'[At(key, i)] = values[i] /\ At(key, i) \notin CachedIn(nodes)
  <2>1. \A i : At(key, i)[2] = i
    BY DEF At
  <2> QED
    BY <1>4, <1>9, <2>1
<1>12. \A i \in 1 .. CachedLength(key) : At(key, i) \in CachedIn(nodes)
  <2>1. \A i \in 1 .. k : i \in 1 .. Len(key) /\ i <= k
    BY <1>2, <1>3
  <2> QED
    BY <1>3, <1>6, <2>1
<1>13. IsFiniteSet(CachedIn(nodes')) /\ cachedTokens' = Cardinality(CachedIn(nodes'))
  <2>1. IsFiniteSet(CachedIn(nodes)) /\ cachedTokens = Cardinality(CachedIn(nodes)) /\ cachedTokens \in Nat
    BY <1>0, FS_CardinalityType DEF TreeTypes
  <2> HIDE DEF fresh
  <2>2. /\ IsFiniteSet(CachedIn(nodes) \cup fresh)
        /\ Cardinality(CachedIn(nodes) \cup fresh) = Cardinality(CachedIn(nodes)) + Cardinality(fresh)
    <3>1. IsFiniteSet(CachedIn(nodes) \cup fresh) /\ Cardinality(CachedIn(nodes) \cup fresh)
             = Cardinality(CachedIn(nodes)) + Cardinality(fresh) - Cardinality({})
      BY <1>4, <1>5, <2>1, FS_Union
    <3>2. Cardinality({}) = 0 /\ Cardinality(fresh) \in Nat /\ Cardinality(CachedIn(nodes)) \in Nat
      BY <1>5, <2>1, FS_EmptySet, FS_CardinalityType
    <3> QED
      BY <3>1, <3>2
  <2> QED
    BY <1>1, <1>4, <1>5, <2>1, <2>2
<1>14. CachedLength(key) \in 0 .. Len(key)
  BY <1>2, <1>3
<1> QED
  BY <1>1, <1>2, <1>4, <1>8, <1>10, <1>11, <1>12, <1>13, <1>14

\* insert and insert_and_match keep the tree, its locks and what the leases say.
LEMMA InsertKeeps ==
  ASSUME TreeInv, NEW key \in Paged, NEW values \in Seq(Slot), NEW ckpt \in SUBSET Ckpt, NEW L \in SUBSET LeaseId,
         L = {} \/ \E l : L = {l}, Insert(key, values, ckpt, L)
  PROVE  TreeInv'
<1>0. Tree(nodes) /\ TreeTypes
  BY DEF TreeInv
<1>1. PICK split : split = SplitNodes(key)
  OBVIOUS
<1>2. PICK atLease :
      /\ L \cap DOMAIN leases = {}
      /\ nodes' = split \cup {key} /\ resumable' = resumable \cup {key}
      /\ ckptAt' = IF key \in DOMAIN ckptAt \/ ckpt = {} THEN ckptAt ELSE Put(ckptAt, key, CHOOSE c \in ckpt : TRUE)
      /\ lockRef' = [n \in split \cup {key} |->
                       (IF n \in split THEN SplitLock(n, key) ELSE 0) + Cardinality(L) * Locks(n, key)]
      /\ leases' = Extended(leases, [l \in L |-> atLease])
      /\ atLease = Lease(key, [i \in 1 .. Len(key) |-> slotAt'[At(key, i)]],
                         IF key \in DOMAIN ckptAt' THEN {ckptAt'[key]} ELSE {})
  BY <1>1 DEF Insert
<1>3. /\ key # Root /\ slotAt' \in [CachedIn(nodes') -> Slot] /\ \A p \in CachedIn(nodes) : slotAt'[p] = slotAt[p]
      /\ IsFiniteSet(CachedIn(nodes')) /\ cachedTokens' = Cardinality(CachedIn(nodes'))
  BY InsertValues
<1>4. Tree(nodes') /\ nodes \subseteq split /\ split \subseteq Paged /\ split \subseteq nodes'
  <2>1. Tree(SplitNodes(key)) /\ Tree(SplitNodes(key) \cup {key}) /\ nodes \subseteq SplitNodes(key)
    BY <1>0, <1>3, SplitKeepsTree
  <2> QED
    BY <1>1, <1>2, <2>1 DEF Tree
<1>5. /\ DOMAIN ckptAt' \subseteq resumable' /\ ckptAt' \in [DOMAIN ckptAt' -> Ckpt]
      /\ \A n \in DOMAIN ckptAt : n \in DOMAIN ckptAt' /\ ckptAt'[n] = ckptAt[n]
  <2>1. CASE key \in DOMAIN ckptAt \/ ckpt = {}
    <3>1. ckptAt' = ckptAt
      BY <1>2, <2>1
    <3> QED
      BY <1>0, <1>2, <3>1 DEF TreeTypes
  <2>2. CASE key \notin DOMAIN ckptAt /\ ckpt # {}
    <3>1. PICK c \in Ckpt : c = CHOOSE d \in ckpt : TRUE
      BY <2>2
    <3>2. ckptAt' = Put(ckptAt, key, c)
      BY <1>2, <2>2, <3>1
    <3> QED
      BY <1>0, <1>2, <2>2, <3>2 DEF TreeTypes, Put
  <2> QED
    BY <2>1, <2>2
<1>6. /\ DOMAIN leases' = DOMAIN leases \cup L /\ \A m \in DOMAIN leases : leases'[m] = leases[m]
      /\ \A m \in L : leases'[m] = atLease
  BY <1>2 DEF Extended
<1>6a. /\ atLease.node = key /\ atLease.values = [i \in 1 .. Len(key) |-> slotAt'[At(key, i)]]
       /\ atLease.ckpt = IF key \in DOMAIN ckptAt' THEN {ckptAt'[key]} ELSE {}
  <2>1. \A n, v, k : Lease(n, v, k).node = n /\ Lease(n, v, k).values = v /\ Lease(n, v, k).ckpt = k
    BY DEF Lease
  <2>2. atLease = Lease(key, [i \in 1 .. Len(key) |-> slotAt'[At(key, i)]],
                        IF key \in DOMAIN ckptAt' THEN {ckptAt'[key]} ELSE {})
    BY <1>2
  <2> QED
    BY <2>1, <2>2
<1>7. Taken(leases, leases', L, key)
  <2>1. IsFiniteSet(DOMAIN leases) /\ \A m \in L : leases'[m].node = key
    BY <1>0, <1>6, <1>6a DEF TreeTypes
  <2> QED
    BY <1>2, <1>6, <2>1 DEF Taken
<1>8. ASSUME NEW n \in nodes'
      PROVE  lockRef'[n] = Cardinality(Holders(leases', n)) /\ lockRef'[n] \in Nat
  <2>1. /\ Cardinality(Holders(leases', n)) = Cardinality(Holders(leases, n)) + Cardinality(L) * Locks(n, key)
        /\ Cardinality(L) \in Nat /\ Locks(n, key) \in Nat
    BY <1>7, LocksAdd
  <2>2. PICK more \in Nat : more = Cardinality(L) * Locks(n, key)
    BY <2>1
  <2>3. CASE n \in split
    <3>1. SplitLock(n, key) = Cardinality(Holders(leases, n)) /\ SplitLock(n, key) \in Nat
      BY <1>1, <2>3, SplitLockIs
    <3> QED
      BY <1>2, <2>1, <2>2, <2>3, <3>1
  <2>4. CASE n = key /\ n \notin split
    <3>1. ASSUME NEW l \in DOMAIN leases, IsPrefix(key, leases[l].node) PROVE FALSE
      <4>1. PICK m \in Paged : m = leases[l].node /\ m \in nodes \cup {Root}
        BY LeasedNodes
      <4>2. m # Root
        BY <1>3, <3>1, <4>1, PagedOrder, Mutual
      <4>3. IsPrefix(key, key)
        BY PagedOrder
      <4>4. IsPrefix(key, Reached(key)) /\ Reached(key) \in Paged /\
           IsPrefix(Reached(key), key) /\ Reached(key) \in SplitNodes(key) \cup {Root}
        BY <1>0, <3>1, <4>1, <4>2, <4>3, ReachedIs
      <4>5. Reached(key) = key
        BY <4>4, Mutual
      <4> QED
        BY <1>1, <1>3, <2>4, <4>4, <4>5
    <3>2. Holders(leases, n) = {}
      BY <2>4, <3>1 DEF Holders
    <3>3. Cardinality(Holders(leases, n)) = 0
      BY <3>2, FS_EmptySet
    <3> QED
      BY <1>2, <2>1, <2>2, <2>4, <3>3
  <2> QED
    BY <1>2, <2>3, <2>4
<1>9. TreeTypes'
  <2>1. lockRef' \in [nodes' -> Nat]
    BY <1>2, <1>8
  <2>2. resumable' \subseteq nodes'
    BY <1>0, <1>2, <1>4 DEF TreeTypes
  <2>3. DOMAIN leases' \subseteq LeaseId /\ IsFiniteSet(DOMAIN leases')
    BY <1>0, <1>6, <1>7, LocksAdd DEF TreeTypes
  <2> QED
    BY <1>3, <1>5, <2>1, <2>2, <2>3 DEF TreeTypes
<1>10. LockRefExact'
  BY <1>8 DEF LockRefExact, Holders
<1>11. ASSUME NEW m \in DOMAIN leases'
       PROVE  /\ leases'[m].node = Root \/ leases'[m].node \in resumable'
              /\ leases'[m].values = [i \in 1 .. Len(leases'[m].node) |-> slotAt'[At(leases'[m].node, i)]]
              /\ leases'[m].ckpt \subseteq IF leases'[m].node \in DOMAIN ckptAt' THEN {ckptAt'[leases'[m].node]} ELSE {}
  <2>1. CASE m \in DOMAIN leases
    <3>1. PICK n : n = leases[m].node /\ n \in resumable \cup {Root} /\ n \in nodes \cup {Root}
      BY <2>1, LeasedNodes
    <3>2. /\ leases[m].values = PathValues(n)
          /\ leases[m].ckpt \subseteq IF n \in DOMAIN ckptAt THEN {ckptAt[n]} ELSE {}
      BY <2>1, <3>1 DEF TreeInv, LeasePinned, CkptOf
    <3>3. PathValues(n) = [i \in 1 .. Len(n) |-> slotAt'[At(n, i)]]
      BY <1>3, <3>1, ValuesStay
    <3>4. leases'[m] = leases[m]
      BY <1>6, <2>1
    <3> QED
      BY <1>2, <1>5, <3>1, <3>2, <3>3, <3>4, ZenonT(60)
  <2>2. CASE m \in L
    <3>1. leases'[m] = atLease
      BY <1>6, <2>2
    <3>2. leases'[m].node = key /\ key \in resumable'
      BY <1>2, <1>6a, <3>1
    <3>3. leases'[m].values = [i \in 1 .. Len(key) |-> slotAt'[At(key, i)]]
      BY <1>6a, <3>1
    <3>4. leases'[m].ckpt = IF key \in DOMAIN ckptAt' THEN {ckptAt'[key]} ELSE {}
      BY <1>6a, <3>1
    <3> QED
      BY <3>2, <3>3, <3>4
  <2> QED
    BY <1>6, <2>1, <2>2
<1>12. LeasePinned'
  BY <1>11 DEF LeasePinned, PathValues, CkptOf
<1>13. Tree(nodes)'
  BY <1>4
<1> QED
  BY <1>9, <1>10, <1>12, <1>13 DEF TreeInv

\* What extend does to the values: the cached ones stay, and the child has one more
\* when it is new.
LEMMA ExtendValues ==
  ASSUME TreeInv, NEW l, NEW m, NEW token \in Token, NEW slot \in Slot, NEW ckpt, Extend(l, m, token, slot, ckpt)
  PROVE  LET child == Append(leases[l].node, token)
             last == At(child, Len(child))
         IN  /\ child \in Paged /\ Len(child) = Len(leases[l].node) + 1 /\ child # Root
             /\ nodes' = nodes \cup {child} /\ Tree(nodes')
             /\ CachedIn(nodes') = CachedIn(nodes) \cup {last}
             /\ last \in CachedIn(nodes) <=> child \in nodes
             /\ child \notin nodes => \A n \in nodes : ~IsPrefix(child, n)
             /\ slotAt' = IF child \in nodes THEN slotAt ELSE Put(slotAt, last, slot)
             /\ slotAt' \in [CachedIn(nodes') -> Slot]
             /\ \A p \in CachedIn(nodes) : slotAt'[p] = slotAt[p]
             /\ IsFiniteSet(CachedIn(nodes')) /\ cachedTokens' = Cardinality(CachedIn(nodes'))
             /\ \A i \in 1 .. Len(leases[l].node) : At(child, i) = At(leases[l].node, i)
<1>0. Tree(nodes) /\ TreeTypes
  BY DEF TreeInv
<1>1. PICK s, c, last :
      /\ s \in Paged /\ s = leases[l].node /\ s \in resumable /\ s \in nodes /\ PageSize = 1
      /\ c = Append(s, token) /\ last = At(c, Len(c))
  BY <1>0, PagedOrder DEF Extend, Extendable, TreeTypes, Tree
<1>2. c \in Paged /\ Len(c) = Len(s) + 1 /\ c # Root /\ Len(s) \in Nat /\ Len(c) \in Nat /\ IsPrefix(s, c) /\ IsPrefix(s, s)
  BY <1>1, AppendIs, PagedOrder, ZenonT(60)
<1>3. /\ nodes' = nodes \cup {c} /\ slotAt' = IF c \in nodes THEN slotAt ELSE Put(slotAt, last, slot)
      /\ cachedTokens' = IF c \in nodes THEN cachedTokens ELSE cachedTokens + 1
  BY <1>1 DEF Extend
<1>4. ~ \E d \in Children(s) : Len(d) > Len(s) + 1 /\ d[Len(s) + 1] = token
  BY <1>1 DEF Extend, ExtendRaises
<1>5. \A i \in 1 .. Len(s) : At(c, i) = At(s, i)
  <2>1. ASSUME NEW i \in 1 .. Len(s) PROVE At(c, i) = At(s, i)
    <3>1. s \in Paged /\ c \in Paged /\ \E x \in Paged : IsPrefix(x, c) /\ IsPrefix(x, s) /\ i <= Len(x)
      BY <1>1, <1>2
    <3>2. i \in 1 .. Len(c) /\ i \in 1 .. Len(s)
      BY <1>2
    <3> QED
      BY <3>1, <3>2, SamePosition
  <2> QED
    BY <2>1
<1>6. IsFiniteSet(CachedIn(nodes)) /\ cachedTokens = Cardinality(CachedIn(nodes)) /\ slotAt \in [CachedIn(nodes) -> Slot]
  BY <1>0 DEF TreeTypes
<1>7. CASE c \in nodes
  <2>1. nodes' = nodes /\ slotAt' = slotAt /\ cachedTokens' = cachedTokens
    BY <1>3, <1>7
  <2>2. Len(c) \in 1 .. Len(c)
    BY <1>2
  <2>3. last \in CachedIn(nodes)
    <3>1. last \in Positions(c)
      BY <1>1, <2>2 DEF Positions
    <3> QED
      BY <1>7, <3>1 DEF CachedIn
  <2>4. CachedIn(nodes) = CachedIn(nodes) \cup {last}
    BY <2>3
  <2> QED
    BY <1>0, <1>1, <1>2, <1>3, <1>5, <1>6, <1>7, <2>1, <2>3, <2>4
<1>8. CASE c \notin nodes
  <2>1. /\ \A n \in nodes : ~IsPrefix(c, n)
        /\ Tree(nodes \cup {c}) /\ CachedIn(nodes \cup {c}) = CachedIn(nodes) \cup {last} /\ last \notin CachedIn(nodes)
    BY <1>0, <1>1, <1>4, <1>8, ChildHangs
  <2>2. slotAt' = Put(slotAt, last, slot) /\ cachedTokens' = cachedTokens + 1
    BY <1>3, <1>8
  <2>3. slotAt' \in [CachedIn(nodes') -> Slot] /\ \A p \in CachedIn(nodes) : slotAt'[p] = slotAt[p]
    BY <1>3, <1>6, <2>1, <2>2 DEF Put
  <2>4. IsFiniteSet(CachedIn(nodes')) /\ cachedTokens' = Cardinality(CachedIn(nodes'))
    BY <1>3, <1>6, <2>1, <2>2, FS_AddElement, ZenonT(60)
  <2>5. nodes' = nodes \cup {c} /\ Tree(nodes') /\ CachedIn(nodes') = CachedIn(nodes) \cup {last}
    BY <1>3, <2>1
  <2> QED
    BY <1>1, <1>2, <1>3, <1>5, <1>8, <2>1, <2>3, <2>4, <2>5
<1> QED
  BY <1>7, <1>8

\* extend keeps the tree: the new lease covers one token more than the old one.
LEMMA ExtendKeeps ==
  ASSUME TreeInv, NEW l, NEW m \in LeaseId, NEW token \in Token, NEW slot \in Slot, NEW ckpt \in SUBSET Ckpt,
         Extend(l, m, token, slot, ckpt)
  PROVE  TreeInv'
<1>0. Tree(nodes) /\ TreeTypes
  BY DEF TreeInv
<1>1. PICK s, c, last : s = leases[l].node /\ c = Append(s, token) /\ last = At(c, Len(c))
  OBVIOUS
<1>2. /\ c \in Paged /\ Len(c) = Len(s) + 1 /\ c # Root
      /\ nodes' = nodes \cup {c} /\ Tree(nodes')
      /\ CachedIn(nodes') = CachedIn(nodes) \cup {last}
      /\ c \notin nodes => \A n \in nodes : ~IsPrefix(c, n)
      /\ slotAt' \in [CachedIn(nodes') -> Slot]
      /\ \A p \in CachedIn(nodes) : slotAt'[p] = slotAt[p]
      /\ IsFiniteSet(CachedIn(nodes')) /\ cachedTokens' = Cardinality(CachedIn(nodes'))
      /\ \A i \in 1 .. Len(s) : At(c, i) = At(s, i)
  BY <1>1, ExtendValues
<1>3. PICK atLease :
      /\ l \in DOMAIN leases /\ m \notin DOMAIN leases /\ resumable' = resumable \cup {c}
      /\ ckptAt' = IF c \in DOMAIN ckptAt \/ ckpt = {} THEN ckptAt ELSE Put(ckptAt, c, CHOOSE d \in ckpt : TRUE)
      /\ lockRef' = [n \in nodes \cup {c} |-> (IF n \in nodes THEN lockRef[n] ELSE 0) + Locks(n, c)]
      /\ leases' = Put(leases, m, atLease)
      /\ atLease = Lease(c, Append(leases[l].values, slotAt'[last]), IF c \in DOMAIN ckptAt' THEN {ckptAt'[c]} ELSE {})
  BY <1>1 DEF Extend, Extendable
<1>4. /\ atLease.node = c /\ atLease.values = Append(leases[l].values, slotAt'[last])
      /\ atLease.ckpt = IF c \in DOMAIN ckptAt' THEN {ckptAt'[c]} ELSE {}
  <2>1. \A n, v, k : Lease(n, v, k).node = n /\ Lease(n, v, k).values = v /\ Lease(n, v, k).ckpt = k
    BY DEF Lease
  <2>2. atLease = Lease(c, Append(leases[l].values, slotAt'[last]), IF c \in DOMAIN ckptAt' THEN {ckptAt'[c]} ELSE {})
    BY <1>3
  <2>3. PICK v, k : v = Append(leases[l].values, slotAt'[last]) /\ k = IF c \in DOMAIN ckptAt' THEN {ckptAt'[c]} ELSE {}
    OBVIOUS
  <2>4. atLease = Lease(c, v, k)
    BY <2>2, <2>3
  <2>5. atLease.node = c /\ atLease.values = v /\ atLease.ckpt = k
    BY <2>1, <2>4
  <2> QED
    BY <2>3, <2>5
<1>5. /\ DOMAIN ckptAt' \subseteq resumable' /\ ckptAt' \in [DOMAIN ckptAt' -> Ckpt]
      /\ \A n \in DOMAIN ckptAt : n \in DOMAIN ckptAt' /\ ckptAt'[n] = ckptAt[n]
  <2>1. CASE c \in DOMAIN ckptAt \/ ckpt = {}
    <3>1. ckptAt' = ckptAt
      BY <1>3, <2>1
    <3> QED
      BY <1>0, <1>3, <3>1 DEF TreeTypes
  <2>2. CASE c \notin DOMAIN ckptAt /\ ckpt # {}
    <3>1. PICK k \in Ckpt : k = CHOOSE d \in ckpt : TRUE
      BY <2>2
    <3>2. ckptAt' = Put(ckptAt, c, k)
      BY <1>3, <2>2, <3>1
    <3> QED
      BY <1>0, <1>3, <2>2, <3>2 DEF TreeTypes, Put
  <2> QED
    BY <2>1, <2>2
<1>6. /\ DOMAIN leases' = DOMAIN leases \cup {m} /\ \A k \in DOMAIN leases : leases'[k] = leases[k]
      /\ leases'[m] = atLease
  BY <1>3 DEF Put
<1>7. Taken(leases, leases', {m}, c)
  BY <1>0, <1>3, <1>4, <1>6 DEF Taken, TreeTypes
<1>8. ASSUME NEW n \in nodes'
      PROVE  lockRef'[n] = Cardinality(Holders(leases', n)) /\ lockRef'[n] \in Nat
  <2>1. /\ Cardinality(Holders(leases', n)) = Cardinality(Holders(leases, n)) + Cardinality({m}) * Locks(n, c)
        /\ Locks(n, c) \in Nat /\ Cardinality(Holders(leases, n)) \in Nat
    BY <1>7, LocksAdd
  <2>2. Cardinality({m}) = 1
    BY FS_Singleton
  <2>3. CASE n \in nodes
    <3>1. lockRef[n] = Cardinality(Holders(leases, n))
      BY <2>3 DEF TreeInv, LockRefExact, Holders
    <3> QED
      BY <1>2, <1>3, <2>1, <2>2, <2>3, <3>1
  <2>4. CASE n = c /\ n \notin nodes
    <3>1. ASSUME NEW k \in DOMAIN leases PROVE ~IsPrefix(c, leases[k].node)
      <4>1. PICK x \in Paged : x = leases[k].node /\ x \in nodes \cup {Root}
        BY LeasedNodes
      <4> QED
        BY <1>2, <2>4, <4>1, PagedOrder, Mutual
    <3>2. Holders(leases, n) = {}
      BY <2>4, <3>1 DEF Holders
    <3>3. Cardinality(Holders(leases, n)) = 0
      BY <3>2, FS_EmptySet
    <3> QED
      BY <1>2, <1>3, <2>1, <2>2, <2>4, <3>3
  <2> QED
    BY <1>2, <2>3, <2>4
<1>9. TreeTypes'
  <2>1. lockRef' \in [nodes' -> Nat]
    BY <1>2, <1>3, <1>8
  <2>2. resumable' \subseteq nodes'
    BY <1>0, <1>2, <1>3 DEF TreeTypes
  <2>3. DOMAIN leases' \subseteq LeaseId /\ IsFiniteSet(DOMAIN leases')
    BY <1>0, <1>6, <1>7, LocksAdd DEF TreeTypes
  <2> QED
    BY <1>2, <1>5, <2>1, <2>2, <2>3 DEF TreeTypes
<1>10. LockRefExact'
  BY <1>8 DEF LockRefExact, Holders
<1>11. Append(leases[l].values, slotAt'[last]) = [i \in 1 .. Len(c) |-> slotAt'[At(c, i)]]
  <2>1. s \in nodes \cup {Root} /\ s \in Paged /\ Len(s) \in Nat
    BY <1>1, <1>3, LeasedNodes, PagedOrder
  <2>2. leases[l].values = [i \in 1 .. Len(s) |-> slotAt'[At(s, i)]]
    <3>1. leases[l].values = PathValues(s)
      BY <1>1, <1>3 DEF TreeInv, LeasePinned
    <3> QED
      BY <1>2, <2>1, <3>1, ValuesStay
  <2>3. \A i \in 1 .. Len(c) : At(c, i) \in CachedIn(nodes')
    BY <1>2 DEF CachedIn, Positions
  <2>4. \A i \in 1 .. Len(c) : slotAt'[At(c, i)] \in Slot
    BY <1>2, <2>3
  <2>5. PICK w \in Seq(Slot) : w = [i \in 1 .. Len(c) |-> slotAt'[At(c, i)]] /\ Len(w) = Len(c)
    <3>1. PICK k \in Nat : k = Len(c)
      BY <1>2, <2>1
    <3>2. [i \in 1 .. k |-> slotAt'[At(c, i)]] \in [1 .. k -> Slot]
      BY <2>4, <3>1
    <3>3. [i \in 1 .. k |-> slotAt'[At(c, i)]] \in Seq(Slot) /\ Len([i \in 1 .. k |-> slotAt'[At(c, i)]]) = k
      BY <3>2, SeqDef
    <3> QED
      BY <3>1, <3>3
  <2>6. PICK v \in Seq(Slot) : v = leases[l].values /\ Len(v) = Len(s) /\ \A i \in 1 .. Len(s) : v[i] = w[i]
    <3>1. \A i \in 1 .. Len(s) : i \in 1 .. Len(c)
      BY <1>2, <2>1
    <3>2. \A i \in 1 .. Len(s) : slotAt'[At(s, i)] = w[i] /\ w[i] \in Slot
      BY <1>2, <2>4, <2>5, <3>1
    <3> QED
      BY <2>1, <2>2, <3>2
  <2>7. slotAt'[last] = w[Len(c)] /\ w[Len(c)] \in Slot
    <3>1. Len(c) \in 1 .. Len(c)
      BY <1>2, <2>1
    <3> QED
      BY <1>1, <2>4, <2>5, <3>1
  <2>8. PICK a \in Seq(Slot) : /\ a = Append(v, w[Len(c)]) /\ Len(a) = Len(s) + 1 /\ a[Len(s) + 1] = w[Len(c)]
                               /\ \A i \in 1 .. Len(s) : a[i] = v[i]
    <3>1. PICK e \in Slot : e = w[Len(c)]
      BY <2>7
    <3>2. /\ Append(v, e) \in Seq(Slot) /\ Len(Append(v, e)) = Len(v) + 1 /\ Append(v, e)[Len(v) + 1] = e
          /\ \A i \in 1 .. Len(v) : Append(v, e)[i] = v[i]
      BY AppendProperties
    <3> QED
      BY <2>6, <3>1, <3>2
  <2>9. \A i \in 1 .. Len(a) : a[i] = w[i]
    BY <1>2, <2>1, <2>6, <2>8
  <2>10. a = w
    <3>1. Len(a) = Len(w)
      BY <1>2, <2>5, <2>8
    <3> QED
      BY <2>9, <3>1, SeqEqual
  <2> QED
    BY <2>5, <2>6, <2>7, <2>8, <2>10
<1>12. ASSUME NEW k \in DOMAIN leases'
       PROVE  /\ leases'[k].node = Root \/ leases'[k].node \in resumable'
              /\ leases'[k].values = [i \in 1 .. Len(leases'[k].node) |-> slotAt'[At(leases'[k].node, i)]]
              /\ leases'[k].ckpt \subseteq IF leases'[k].node \in DOMAIN ckptAt' THEN {ckptAt'[leases'[k].node]} ELSE {}
  <2>1. CASE k \in DOMAIN leases
    <3>1. PICK n : n = leases[k].node /\ n \in resumable \cup {Root} /\ n \in nodes \cup {Root}
      BY <2>1, LeasedNodes
    <3>2. /\ leases[k].values = PathValues(n)
          /\ leases[k].ckpt \subseteq IF n \in DOMAIN ckptAt THEN {ckptAt[n]} ELSE {}
      BY <2>1, <3>1 DEF TreeInv, LeasePinned, CkptOf
    <3>3. PathValues(n) = [i \in 1 .. Len(n) |-> slotAt'[At(n, i)]]
      BY <1>2, <3>1, ValuesStay
    <3>4. leases'[k] = leases[k]
      BY <1>6, <2>1
    <3>5. n = Root \/ n \in resumable'
      BY <1>3, <3>1
    <3>6. leases[k].ckpt \subseteq IF n \in DOMAIN ckptAt' THEN {ckptAt'[n]} ELSE {}
      BY <1>5, <3>2
    <3> QED
      BY <3>1, <3>2, <3>3, <3>4, <3>5, <3>6
  <2>2. CASE k = m
    <3>1. leases'[k].node = c /\ c \in resumable'
      BY <1>3, <1>4, <1>6, <2>2
    <3>2. leases'[k].values = [i \in 1 .. Len(c) |-> slotAt'[At(c, i)]]
      BY <1>4, <1>6, <1>11, <2>2
    <3>3. leases'[k].ckpt = IF c \in DOMAIN ckptAt' THEN {ckptAt'[c]} ELSE {}
      BY <1>4, <1>6, <2>2
    <3> QED
      BY <3>1, <3>2, <3>3
  <2> QED
    BY <1>6, <2>1, <2>2
<1>13. LeasePinned'
  BY <1>12 DEF LeasePinned, PathValues, CkptOf
<1>14. Tree(nodes)'
  BY <1>2
<1> QED
  BY <1>9, <1>10, <1>13, <1>14 DEF TreeInv

\* What eviction takes: the edge of a leaf that no lease relies on.
LEMMA EvictValues ==
  ASSUME TreeInv, NEW n, EvictLeaf(n)
  PROVE  /\ n \in nodes /\ nodes' = nodes \ {n} /\ Tree(nodes')
         /\ CachedIn(nodes) = CachedIn(nodes') \cup EdgeOf(n) /\ EdgeOf(n) \cap CachedIn(nodes') = {}
         /\ slotAt' = [p \in CachedIn(nodes') |-> slotAt[p]]
         /\ IsFiniteSet(CachedIn(nodes')) /\ cachedTokens' = Cardinality(CachedIn(nodes'))
         /\ \A l \in DOMAIN leases : leases[l].node \in nodes' \cup {Root} /\ leases[l].node # n
<1>0. Tree(nodes) /\ TreeTypes
  BY DEF TreeInv
<1>1. /\ n \in nodes /\ Below(n) = {} /\ lockRef[n] = 0 /\ nodes' = nodes \ {n}
      /\ slotAt' = [p \in DOMAIN slotAt \ EdgeOf(n) |-> slotAt[p]]
      /\ cachedTokens' = cachedTokens - (Len(n) - Len(Parent(n)))
  BY DEF EvictLeaf, EvictableLeaves
<1>2. /\ Tree(nodes \ {n}) /\ EdgeOf(n) \cap CachedIn(nodes \ {n}) = {}
      /\ CachedIn(nodes) = CachedIn(nodes \ {n}) \cup EdgeOf(n)
      /\ IsFiniteSet(EdgeOf(n)) /\ Cardinality(EdgeOf(n)) = Len(n) - Len(Parent(n))
  BY <1>0, <1>1, LeafLeaves
<1>3. DOMAIN slotAt = CachedIn(nodes) /\ IsFiniteSet(CachedIn(nodes)) /\ cachedTokens = Cardinality(CachedIn(nodes))
  BY <1>0 DEF TreeTypes
<1>4. slotAt' = [p \in CachedIn(nodes') |-> slotAt[p]]
  <2>1. DOMAIN slotAt \ EdgeOf(n) = CachedIn(nodes')
    BY <1>1, <1>2, <1>3
  <2> QED
    BY <1>1, <2>1
<1>5. IsFiniteSet(CachedIn(nodes')) /\ cachedTokens' = Cardinality(CachedIn(nodes'))
  <2>1. PICK A : A = CachedIn(nodes')
    OBVIOUS
  <2>2. A \in SUBSET CachedIn(nodes) /\ CachedIn(nodes) = A \cup EdgeOf(n) /\ A \cap EdgeOf(n) = {}
    BY <1>1, <1>2, <2>1
  <2>3. IsFiniteSet(A) /\ Cardinality(A) \in Nat /\ Cardinality(EdgeOf(n)) \in Nat
    BY <1>2, <1>3, <2>2, FS_Subset, FS_CardinalityType
  <2>4. Cardinality(CachedIn(nodes)) = Cardinality(A) + Cardinality(EdgeOf(n)) - Cardinality({})
    <3>1. Cardinality(A \cup EdgeOf(n)) = Cardinality(A) + Cardinality(EdgeOf(n)) - Cardinality(A \cap EdgeOf(n))
      BY <1>2, <2>3, FS_Union
    <3> QED
      BY <2>2, <3>1
  <2>5. Cardinality({}) = 0
    BY FS_EmptySet
  <2>6. PICK d \in Nat : d = Cardinality(EdgeOf(n)) /\ d = Len(n) - Len(Parent(n))
    BY <1>2, <2>3
  <2>7. cachedTokens' = Cardinality(CachedIn(nodes)) - d
    BY <1>1, <1>3, <2>6
  <2>8. PICK a \in Nat : a = Cardinality(A)
    BY <2>3
  <2>9. Cardinality(CachedIn(nodes)) = a + d
    BY <2>4, <2>5, <2>6, <2>8
  <2>10. cachedTokens' = a
    BY <2>7, <2>9
  <2> QED
    BY <2>1, <2>3, <2>8, <2>10
<1>6. ASSUME NEW l \in DOMAIN leases PROVE leases[l].node # n
  <2>1. IsFiniteSet(Holders(leases, n)) /\ Cardinality(Holders(leases, n)) = 0
    BY <1>0, <1>1, FS_Subset DEF TreeInv, TreeTypes, LockRefExact, Holders
  <2>2. Holders(leases, n) = {}
    BY <2>1, FS_EmptySet
  <2>3. IsPrefix(n, n)
    BY <1>0, <1>1, PagedOrder DEF Tree
  <2> QED
    BY <2>2, <2>3 DEF Holders
<1>7. \A l \in DOMAIN leases : leases[l].node \in nodes' \cup {Root} /\ leases[l].node # n
  BY <1>1, <1>6, LeasedNodes
<1> QED
  BY <1>1, <1>2, <1>4, <1>5, <1>7

\* Eviction keeps the tree, and every lease what it was given.
LEMMA EvictKeeps ==
  ASSUME TreeInv, NEW n, EvictLeaf(n)
  PROVE  TreeInv'
<1>0. Tree(nodes) /\ TreeTypes
  BY DEF TreeInv
<1>1. /\ n \in nodes /\ nodes' = nodes \ {n} /\ Tree(nodes')
      /\ CachedIn(nodes) = CachedIn(nodes') \cup EdgeOf(n)
      /\ slotAt' = [p \in CachedIn(nodes') |-> slotAt[p]]
      /\ IsFiniteSet(CachedIn(nodes')) /\ cachedTokens' = Cardinality(CachedIn(nodes'))
      /\ \A l \in DOMAIN leases : leases[l].node \in nodes' \cup {Root} /\ leases[l].node # n
  BY EvictValues
<1>2. /\ resumable' = resumable \ {n} /\ ckptAt' = [m \in DOMAIN ckptAt \ {n} |-> ckptAt[m]]
      /\ lockRef' = [m \in nodes \ {n} |-> lockRef[m]] /\ leases' = leases
  BY DEF EvictLeaf
<1>3. TreeTypes'
  <2>1. slotAt' \in [CachedIn(nodes') -> Slot]
    BY <1>0, <1>1 DEF TreeTypes
  <2>2. resumable' \subseteq nodes' /\ DOMAIN ckptAt' \subseteq resumable' /\ ckptAt' \in [DOMAIN ckptAt' -> Ckpt]
    BY <1>0, <1>1, <1>2 DEF TreeTypes
  <2>3. lockRef' \in [nodes' -> Nat]
    BY <1>0, <1>1, <1>2 DEF TreeTypes
  <2> QED
    BY <1>0, <1>1, <1>2, <2>1, <2>2, <2>3 DEF TreeTypes
<1>4. LockRefExact'
  BY <1>1, <1>2 DEF TreeInv, LockRefExact
<1>5. ASSUME NEW l \in DOMAIN leases
      PROVE  /\ leases[l].node = Root \/ leases[l].node \in resumable'
             /\ leases[l].values = [i \in 1 .. Len(leases[l].node) |-> slotAt'[At(leases[l].node, i)]]
             /\ leases[l].ckpt \subseteq IF leases[l].node \in DOMAIN ckptAt' THEN {ckptAt'[leases[l].node]} ELSE {}
  <2>1. PICK m : m = leases[l].node /\ m \in resumable \cup {Root} /\ m \in nodes' \cup {Root} /\ m # n
    BY <1>1, LeasedNodes
  <2>2. /\ leases[l].values = [i \in 1 .. Len(m) |-> slotAt[At(m, i)]]
        /\ leases[l].ckpt \subseteq IF m \in DOMAIN ckptAt THEN {ckptAt[m]} ELSE {}
    BY <2>1 DEF TreeInv, LeasePinned, PathValues, CkptOf
  <2>3. \A i \in 1 .. Len(m) : At(m, i) \in CachedIn(nodes')
    <3>1. CASE m = Root
      <4>1. 1 .. Len(m) = {}
        BY <3>1, PagedOrder
      <4> QED
        BY <4>1
    <3>2. CASE m # Root
      BY <2>1, <3>2 DEF CachedIn, Positions
    <3> QED
      BY <3>1, <3>2
  <2>4. [i \in 1 .. Len(m) |-> slotAt[At(m, i)]] = [i \in 1 .. Len(m) |-> slotAt'[At(m, i)]]
    BY <1>1, <2>3
  <2>5. m = Root \/ m \in resumable'
    BY <1>2, <2>1
  <2>6. m \in DOMAIN ckptAt => m \in DOMAIN ckptAt' /\ ckptAt'[m] = ckptAt[m]
    BY <1>2, <2>1
  <2> QED
    BY <2>1, <2>2, <2>4, <2>5, <2>6
<1>6. LeasePinned'
  BY <1>2, <1>5, ZenonT(60) DEF LeasePinned, PathValues, CkptOf
<1>7. Tree(nodes)'
  BY <1>1
<1> QED
  BY <1>3, <1>4, <1>6, <1>7 DEF TreeInv

\* The state properties of the tree are those of its invariant.
LEMMA TreeInvShows ==
  ASSUME TreeInv
  PROVE  TreeSound /\ LockRefExact /\ LeasePinned
<1>1. TreeShape
  BY DEF TreeInv, TreeShape, Tree, Shared
<1>2. EdgesExact
  BY DEF TreeInv, TreeTypes, Tree, EdgesExact, CachedIn, Positions, Paged, Whole
<1> QED
  BY <1>1, <1>2 DEF TreeInv, TreeSound
=============================================================================

