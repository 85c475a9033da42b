---------------------------- MODULE KvPoolProofs ----------------------------
(***************************************************************************)
(* Proofs about KvPool, for every capacity and every way of calling it.    *)
(* FreeListExact is inductive together with KvTypeOK; the other properties   *)
(* follow from the two.                                                    *)
(***************************************************************************)
EXTENDS KvPool, FiniteSetTheorems, SequenceTheorems, TLAPS

\* A sequence without repetitions has as many elements as its range.
LEMMA InjectiveRange ==
  ASSUME NEW S, NEW s \in Seq(S), IsInjective(s)
  PROVE  IsFiniteSet(Range(s)) /\ Cardinality(Range(s)) = Len(s)
<1>1. Len(s) \in Nat /\ DOMAIN s = 1 .. Len(s)
  OBVIOUS
<1>2. s \in [1 .. Len(s) -> Range(s)]
  BY <1>1 DEF Range
<1>3. s \in Bijection(1 .. Len(s), Range(s))
  BY <1>1, <1>2 DEF Bijection, Injection, Surjection, Range
<1>4. ExistsBijection(1 .. Len(s), Range(s))
  BY <1>3 DEF ExistsBijection
<1>5. Cardinality(Range(s)) = Len(s)
  BY <1>1, <1>4, FS_CountingElements
<1>6. IsFiniteSet(Range(s))
  BY <1>1, <1>4, FS_NatBijection
<1> QED
  BY <1>5, <1>6

\* Cutting a sequence without repetitions in two gives two such sequences with
\* no element in common, and loses none.
LEMMA CutInjective ==
  ASSUME NEW S, NEW s \in Seq(S), IsInjective(s), NEW n \in 0 .. Len(s)
  PROVE  LET head == SubSeq(s, 1, n)
             rest == SubSeq(s, n + 1, Len(s))
         IN  /\ head \in Seq(S) /\ Len(head) = n /\ IsInjective(head)
             /\ rest \in Seq(S) /\ IsInjective(rest)
             /\ Range(head) \cap Range(rest) = {}
             /\ Range(head) \cup Range(rest) = Range(s)
<1> DEFINE head == SubSeq(s, 1, n)
<1> DEFINE rest == SubSeq(s, n + 1, Len(s))
<1>1. Len(s) \in Nat /\ DOMAIN s = 1 .. Len(s) /\ \A i \in 1 .. Len(s) : s[i] \in S
  OBVIOUS
<1>2. /\ head \in Seq(S) /\ Len(head) = n
      /\ \A i \in 1 .. n : head[i] = s[i]
  BY <1>1, SubSeqProperties
<1>3. /\ rest \in Seq(S) /\ Len(rest) = Len(s) - n
      /\ \A i \in 1 .. Len(s) - n : rest[i] = s[n + i]
  <2>1. n + 1 \in Int /\ Len(s) \in Int /\ \A i \in n + 1 .. Len(s) : s[i] \in S
    BY <1>1
  <2>2. /\ rest \in Seq(S)
        /\ Len(rest) = IF n + 1 <= Len(s) THEN Len(s) - (n + 1) + 1 ELSE 0
        /\ \A i \in 1 .. Len(s) - (n + 1) + 1 : rest[i] = s[n + 1 + i - 1]
    BY <2>1, SubSeqProperties
  <2> HIDE DEF rest
  <2>3. Len(s) - (n + 1) + 1 = Len(s) - n /\ \A i \in Int : n + 1 + i - 1 = n + i
    BY <1>1
  <2>4. Len(rest) = Len(s) - n
    <3>1. n \in Nat /\ Len(s) \in Nat /\ n <= Len(s)
      BY <1>1
    <3>2. CASE n + 1 <= Len(s)
      BY <2>2, <2>3, <3>2
    <3>3. CASE ~(n + 1 <= Len(s))
      <4>1. Len(s) - n = 0
        BY <3>1, <3>3
      <4> QED
        BY <2>2, <3>3, <4>1
    <3> QED
      BY <3>2, <3>3
  <2>5. \A i \in 1 .. Len(s) - n : rest[i] = s[n + i]
    <3>1. TAKE i \in 1 .. Len(s) - n
    <3>2. rest[i] = s[n + 1 + i - 1]
      BY <2>2, <2>3
    <3> QED
      BY <2>3, <3>2
  <2> QED
    BY <2>2, <2>4, <2>5
<1>4. DOMAIN head = 1 .. n /\ DOMAIN rest = 1 .. Len(s) - n
  BY <1>2, <1>3
<1> HIDE DEF head, rest
<1>5. IsInjective(head)
  BY <1>1, <1>2, <1>4 DEF IsInjective
<1>6. IsInjective(rest)
  <2>1. SUFFICES ASSUME NEW a \in 1 .. Len(s) - n, NEW b \in 1 .. Len(s) - n,
                        rest[a] = rest[b]
                 PROVE  a = b
    BY <1>4 DEF IsInjective
  <2>2. s[n + a] = s[n + b]
    BY <1>3, <2>1
  <2>3. n + a \in 1 .. Len(s) /\ n + b \in 1 .. Len(s)
    BY <1>1
  <2>4. n + a = n + b
    BY <1>1, <2>2, <2>3 DEF IsInjective
  <2> QED
    BY <2>4
<1>7. Range(head) \cap Range(rest) = {}
  <2>1. SUFFICES ASSUME NEW i \in 1 .. n, NEW j \in 1 .. Len(s) - n, head[i] = rest[j]
                 PROVE  FALSE
    BY <1>4 DEF Range
  <2>2. s[i] = s[n + j] /\ i \in 1 .. Len(s) /\ n + j \in 1 .. Len(s)
    BY <1>1, <1>2, <1>3, <2>1
  <2>3. i = n + j
    BY <1>1, <2>2 DEF IsInjective
  <2> QED
    BY <2>3
<1>8. Range(head) \cup Range(rest) = Range(s)
  <2>1. Range(head) \subseteq Range(s)
    BY <1>1, <1>2, <1>4 DEF Range
  <2>2. Range(rest) \subseteq Range(s)
    <3>1. \A j \in 1 .. Len(s) - n : n + j \in 1 .. Len(s)
      BY <1>1
    <3> QED
      BY <1>1, <1>3, <1>4, <3>1 DEF Range
  <2>3. \A i \in 1 .. Len(s) : s[i] \in Range(head) \cup Range(rest)
    <3>1. TAKE i \in 1 .. Len(s)
    <3>2. CASE i <= n
      BY <1>2, <1>4, <3>2 DEF Range
    <3>3. CASE i > n
      <4>1. i - n \in 1 .. Len(s) - n /\ n + (i - n) = i
        BY <1>1, <3>3
      <4> QED
        BY <1>3, <1>4, <4>1 DEF Range
    <3> QED
      BY <1>1, <3>2, <3>3
  <2> QED
    BY <1>1, <2>1, <2>2, <2>3 DEF Range
<1> QED
  BY <1>2, <1>3, <1>5, <1>6, <1>7, <1>8 DEF head, rest

\* Reversing a sequence keeps its elements and its lack of repetitions.
LEMMA ReverseKeeps ==
  ASSUME NEW S, NEW s \in Seq(S)
  PROVE  /\ Reverse(s) \in Seq(S)
         /\ Range(Reverse(s)) = Range(s)
         /\ IsInjective(s) => IsInjective(Reverse(s))
<1>1. Len(s) \in Nat /\ DOMAIN s = 1 .. Len(s) /\ \A i \in 1 .. Len(s) : s[i] \in S
  OBVIOUS
<1> DEFINE r == Reverse(s)
<1>2. DOMAIN r = 1 .. Len(s) /\ \A i \in 1 .. Len(s) : r[i] = s[(Len(s) - i) + 1]
  BY <1>1 DEF Reverse
<1>3. \A i \in 1 .. Len(s) : (Len(s) - i) + 1 \in 1 .. Len(s)
  BY <1>1
<1>4. r \in [1 .. Len(s) -> S]
  BY <1>1, <1>3 DEF Reverse
<1>5. r \in Seq(S)
  BY <1>1, <1>4
<1> HIDE DEF r
<1>6. Range(r) \subseteq Range(s)
  BY <1>1, <1>2, <1>3 DEF Range
<1>7. Range(s) \subseteq Range(r)
  <2>1. SUFFICES ASSUME NEW i \in 1 .. Len(s) PROVE s[i] \in Range(r)
    BY <1>1 DEF Range
  <2>2. (Len(s) - i) + 1 \in 1 .. Len(s) /\ (Len(s) - ((Len(s) - i) + 1)) + 1 = i
    BY <1>1
  <2>3. r[(Len(s) - i) + 1] = s[i]
    BY <1>2, <2>2
  <2> QED
    BY <1>2, <2>2, <2>3 DEF Range
<1>8. IsInjective(s) => IsInjective(r)
  <2>1. SUFFICES ASSUME IsInjective(s), NEW a \in 1 .. Len(s), NEW b \in 1 .. Len(s),
                        r[a] = r[b]
                 PROVE  a = b
    BY <1>2 DEF IsInjective
  <2>2. (Len(s) - a) + 1 = (Len(s) - b) + 1
    BY <1>1, <1>2, <1>3, <2>1 DEF IsInjective
  <2> QED
    BY <1>1, <2>2
<1> QED
  BY <1>5, <1>6, <1>7, <1>8 DEF r

\* Two sequences without repetitions and without a common element concatenate
\* to one without repetitions.
LEMMA ConcatInjective ==
  ASSUME NEW S, NEW s \in Seq(S), NEW t \in Seq(S),
         IsInjective(s), IsInjective(t), Range(s) \cap Range(t) = {}
  PROVE  IsInjective(s \o t)
<1>1. /\ Len(s) \in Nat /\ DOMAIN s = 1 .. Len(s)
      /\ Len(t) \in Nat /\ DOMAIN t = 1 .. Len(t)
  OBVIOUS
<1> DEFINE st == s \o t
<1>2. /\ DOMAIN st = 1 .. Len(s) + Len(t)
      /\ \A i \in 1 .. Len(s) + Len(t) :
            st[i] = IF i <= Len(s) THEN s[i] ELSE t[i - Len(s)]
  BY <1>1
<1> HIDE DEF st
<1>3. SUFFICES ASSUME NEW a \in 1 .. Len(s) + Len(t), NEW b \in 1 .. Len(s) + Len(t),
                      st[a] = st[b]
               PROVE  a = b
  BY <1>2 DEF IsInjective, st
<1>4. CASE a <= Len(s) /\ b <= Len(s)
  <2>1. a \in 1 .. Len(s) /\ b \in 1 .. Len(s) /\ s[a] = s[b]
    BY <1>1, <1>2, <1>3, <1>4
  <2> QED
    BY <1>1, <2>1 DEF IsInjective
<1>5. CASE a > Len(s) /\ b > Len(s)
  <2>1. a - Len(s) \in 1 .. Len(t) /\ b - Len(s) \in 1 .. Len(t)
    BY <1>1, <1>5
  <2>2. t[a - Len(s)] = t[b - Len(s)]
    BY <1>1, <1>2, <1>3, <1>5
  <2>3. a - Len(s) = b - Len(s)
    BY <1>1, <2>1, <2>2 DEF IsInjective
  <2> QED
    BY <1>1, <2>3
<1>6. ASSUME NEW i \in 1 .. Len(s) + Len(t), NEW j \in 1 .. Len(s) + Len(t),
             i <= Len(s), j > Len(s)
      PROVE  st[i] # st[j]
  <2>1. i \in 1 .. Len(s) /\ j - Len(s) \in 1 .. Len(t)
    BY <1>1, <1>6
  <2>2. st[i] \in Range(s) /\ st[j] \in Range(t)
    BY <1>1, <1>2, <1>6, <2>1 DEF Range
  <2> QED
    BY <2>2
<1> QED
  BY <1>1, <1>3, <1>4, <1>5, <1>6
-----------------------------------------------------------------------------
Inv == KvTypeOK /\ FreeListExact

LEMMA SlotsFinite == IsFiniteSet(Slot) /\ Cardinality(Slot) = KvCapacity
BY KvCapacityAssumption, FS_Interval DEF Slot

LEMMA InvInit == KvInit => Inv
<1> SUFFICES ASSUME KvInit PROVE Inv
  OBVIOUS
<1> USE KvCapacityAssumption DEF KvInit
<1>1. free \in Seq(Slot) /\ Len(free) = KvCapacity
  BY DEF Slot
<1>2. KvTypeOK
  BY <1>1 DEF KvTypeOK, Released
<1>3. IsInjective(free)
  BY DEF IsInjective
<1>4. Range(free) = Slot
  <2>1. Range(free) \subseteq Slot
    BY DEF Range, Slot
  <2>2. ASSUME NEW x \in Slot PROVE x \in Range(free)
    <3>1. KvCapacity - x \in 1 .. KvCapacity /\ free[KvCapacity - x] = x
      BY DEF Slot
    <3> QED
      BY <3>1 DEF Range
  <2> QED
    BY <2>1, <2>2
<1>5. used = Cardinality(inUse)
  BY FS_EmptySet
<1> QED
  BY <1>2, <1>3, <1>4, <1>5 DEF Inv, FreeListExact

\* What a granted reservation does to the pool.
LEMMA ReserveStep ==
  ASSUME Inv, NEW count \in Counts, Reserve(count)
  PROVE  /\ Inv'
         /\ IsInjective(Taken(count))
         /\ Range(Taken(count)) \subseteq Slot \ inUse
<1> DEFINE rest == SubSeq(free, count + 1, Len(free))
<1>1. /\ free \in Seq(Slot) /\ IsInjective(free) /\ count \in 0 .. Len(free)
      /\ inUse \subseteq Slot /\ used = Cardinality(inUse) /\ used \in Nat
      /\ Range(free) = Slot \ inUse
  BY KvCapacityAssumption DEF Inv, KvTypeOK, FreeListExact, Reserve
<1>2. /\ Taken(count) \in Seq(Slot) /\ Len(Taken(count)) = count
      /\ IsInjective(Taken(count))
      /\ rest \in Seq(Slot) /\ IsInjective(rest)
      /\ Range(Taken(count)) \cap Range(rest) = {}
      /\ Range(Taken(count)) \cup Range(rest) = Slot \ inUse
  BY <1>1, CutInjective DEF Taken
<1>3. /\ free' = rest /\ inUse' = inUse \cup Range(Taken(count))
      /\ used' = used + count /\ reply' = Granted(Taken(count))
  BY DEF Reserve
<1> HIDE DEF rest
<1>4. IsFiniteSet(Range(Taken(count))) /\ Cardinality(Range(Taken(count))) = count
  BY <1>2, InjectiveRange
<1>5. IsFiniteSet(inUse) /\ Cardinality(inUse) \in Nat
  BY <1>1, SlotsFinite, FS_Subset, FS_CardinalityType
<1>6. used' = Cardinality(inUse')
  <2>1. inUse \cap Range(Taken(count)) = {}
    BY <1>2
  <2>2. Cardinality(inUse \cup Range(Taken(count))) = Cardinality(inUse) + count - 0
    BY <1>4, <1>5, <2>1, FS_Union, FS_EmptySet
  <2> QED
    BY <1>1, <1>3, <1>5, <2>2
<1>7. inUse' \subseteq Slot /\ Range(free') = Slot \ inUse'
  BY <1>1, <1>2, <1>3
<1>8. used' \in 0 .. KvCapacity
  <2>1. Cardinality(inUse') \in Nat /\ Cardinality(inUse') <= KvCapacity
    BY <1>7, SlotsFinite, FS_Subset, FS_CardinalityType
  <2> QED
    BY <1>6, <2>1, KvCapacityAssumption
<1>9. KvTypeOK'
  <2>1. Taken(count) \in Seq(Int)
    <3>1. Slot \subseteq Int
      BY DEF Slot
    <3> QED
      BY <1>2, <3>1, SeqMonotonic
  <2>2. count \in Int
    BY <1>1
  <2> QED
    BY <1>2, <1>3, <1>7, <1>8, <2>1, <2>2 DEF KvTypeOK, Granted
<1> QED
  BY <1>2, <1>3, <1>6, <1>7, <1>9 DEF Inv, FreeListExact

\* What an accepted release does to the pool.
LEMMA ReleaseStep ==
  ASSUME Inv, NEW slots \in ReleaseArgs, Release(slots)
  PROVE  Inv'
<1>1. /\ free \in Seq(Slot) /\ IsInjective(free) /\ inUse \subseteq Slot
      /\ used = Cardinality(inUse) /\ Range(free) = Slot \ inUse
  BY DEF Inv, KvTypeOK, FreeListExact
<1>2. /\ slots \in Seq(Int) /\ IsInjective(slots) /\ Range(slots) \subseteq inUse
  BY ReleaseArgsAssumption DEF Release, Releasable
<1>3. slots \in Seq(Slot)
  <2>1. \A i \in 1 .. Len(slots) : slots[i] \in Slot
    BY <1>1, <1>2 DEF Range
  <2> QED
    BY <1>2, <2>1
<1>4. /\ Reverse(slots) \in Seq(Slot) /\ IsInjective(Reverse(slots))
      /\ Range(Reverse(slots)) = Range(slots)
  BY <1>2, <1>3, ReverseKeeps
<1>5. /\ free' = Reverse(slots) \o free /\ inUse' = inUse \ Range(slots)
      /\ used' = used - Len(slots) /\ reply' = Released(slots)
  BY DEF Release
<1>6. free' \in Seq(Slot) /\ IsInjective(free')
  BY <1>1, <1>2, <1>4, <1>5, ConcatInjective, ConcatProperties
<1>7. Range(free') = Slot \ inUse'
  BY <1>1, <1>2, <1>4, <1>5, RangeConcatenation
<1>8. IsFiniteSet(inUse) /\ Cardinality(inUse) \in Nat
  BY <1>1, SlotsFinite, FS_Subset, FS_CardinalityType
<1>9. used' = Cardinality(inUse') /\ used' \in 0 .. KvCapacity
  <2>1. inUse \cap Range(slots) = Range(slots) /\ Cardinality(Range(slots)) = Len(slots)
    BY <1>2, InjectiveRange
  <2>2. Cardinality(inUse') = Cardinality(inUse) - Len(slots)
    <3>1. Cardinality(inUse \ Range(slots))
            = Cardinality(inUse) - Cardinality(inUse \cap Range(slots))
      BY <1>8, FS_Difference
    <3> QED
      BY <1>5, <2>1, <3>1
  <2>3. inUse' \subseteq Slot
    BY <1>1, <1>5
  <2>4. Cardinality(inUse') \in Nat /\ Cardinality(inUse') <= KvCapacity
    BY <2>3, SlotsFinite, FS_Subset, FS_CardinalityType
  <2> QED
    BY <1>1, <1>5, <2>2, <2>4, KvCapacityAssumption
<1>10. KvTypeOK'
  <2>1. Len(slots) \in Int
    BY <1>2
  <2> QED
    BY <1>1, <1>2, <1>5, <1>6, <1>9, <2>1 DEF KvTypeOK, Released
<1> QED
  BY <1>6, <1>7, <1>9, <1>10 DEF Inv, FreeListExact

\* The two answers that are errors leave the pool as it was.
LEMMA ErrorStep ==
  ASSUME Inv,
         \/ \E count \in Counts : Refuse(count)
         \/ \E slots \in ReleaseArgs : Reject(slots)
  PROVE  Inv'
<1>1. UNCHANGED <<free, inUse, used>>
  BY DEF Refuse, Reject
<1>2. CASE \E count \in Counts : Refuse(count)
  <2>1. /\ reply'.op = "reserve" /\ reply'.ok = FALSE
        /\ reply'.slots = <<>> /\ reply'.count \in Int
    BY <1>2, CountsAssumption DEF Refuse, Refused
  <2>2. <<>> \in Seq(Int)
    OBVIOUS
  <2> QED
    BY <1>1, <2>1, <2>2 DEF Inv, KvTypeOK, FreeListExact
<1>3. CASE \E slots \in ReleaseArgs : Reject(slots)
  <2>1. /\ reply'.op = "release" /\ reply'.ok = FALSE
        /\ reply'.slots \in Seq(Int) /\ reply'.count \in Int
    BY <1>3, ReleaseArgsAssumption DEF Reject, Rejected
  <2> QED
    BY <1>1, <2>1 DEF Inv, KvTypeOK, FreeListExact
<1> QED
  BY <1>2, <1>3

LEMMA InvStep == Inv /\ [KvNext]_kvVars => Inv'
<1> SUFFICES ASSUME Inv, [KvNext]_kvVars PROVE Inv'
  OBVIOUS
<1>1. ASSUME NEW count \in Counts, Reserve(count) PROVE Inv'
  BY <1>1, ReserveStep
<1>2. ASSUME NEW slots \in ReleaseArgs, Release(slots) PROVE Inv'
  BY <1>2, ReleaseStep
<1>3. ASSUME \/ \E count \in Counts : Refuse(count)
             \/ \E slots \in ReleaseArgs : Reject(slots)
      PROVE  Inv'
  BY <1>3, ErrorStep
<1>4. CASE UNCHANGED kvVars
  BY <1>4 DEF kvVars, Inv, KvTypeOK, FreeListExact
<1> QED
  BY <1>1, <1>2, <1>3, <1>4 DEF KvNext

\* The pool's type invariant: slot numbers stay in range and the counter never
\* leaves 0 .. KvCapacity, whatever arrays release is given.
THEOREM PoolTypeCorrect == KvSpec => []KvTypeOK
<1>1. Inv => KvTypeOK
  BY DEF Inv
<1> QED
  BY <1>1, InvInit, InvStep, PTL DEF KvSpec

\* For every capacity and every sequence of calls, free list, bitmap and counter
\* of kv_cache.ml agree: no slot is lost and none is free twice.
THEOREM FreeListAlwaysExact == KvSpec => []FreeListExact
<1>1. Inv => FreeListExact
  BY DEF Inv
<1> QED
  BY <1>1, InvInit, InvStep, PTL DEF KvSpec

\* The length of the free list is what the pool reports as available.
LEMMA FreeLength == Inv => Len(free) = KvCapacity - used
<1> SUFFICES ASSUME Inv PROVE Len(free) = KvCapacity - used
  OBVIOUS
<1>1. /\ free \in Seq(Slot) /\ IsInjective(free) /\ Range(free) = Slot \ inUse
      /\ inUse \subseteq Slot /\ used = Cardinality(inUse)
  BY DEF Inv, KvTypeOK, FreeListExact
<1>2. Cardinality(Slot \ inUse) = Len(free)
  BY <1>1, InjectiveRange
<1>3. Cardinality(Slot \ inUse) = Cardinality(Slot) - Cardinality(Slot \cap inUse)
  BY SlotsFinite, FS_Difference
<1>4. Slot \cap inUse = inUse
  BY <1>1
<1> QED
  BY <1>1, <1>2, <1>3, <1>4, SlotsFinite

\* A refused reservation asked for a negative number of slots or for more than
\* the pool had left, for every capacity: no capacity is ever lost.
THEOREM RefusalAlwaysHonest == KvSpec => []RefusalHonest
<1>1. KvInit => RefusalHonest
  BY DEF KvInit, RefusalHonest, Released
<1>2. Inv /\ RefusalHonest /\ [KvNext]_kvVars => RefusalHonest'
  <2> SUFFICES ASSUME Inv, RefusalHonest, [KvNext]_kvVars PROVE RefusalHonest'
    OBVIOUS
  <2>1. ASSUME NEW count \in Counts, Refuse(count) PROVE RefusalHonest'
    <3>1. used' = used /\ reply'.count = count /\ count \notin 0 .. Len(free)
      BY <2>1 DEF Refuse, Refused
    <3>2. Len(free) = KvCapacity - used /\ count \in Int
      BY FreeLength, CountsAssumption
    <3>3. Len(free) \in Nat
      BY DEF Inv, KvTypeOK
    <3>4. count < 0 \/ count > KvCapacity - used
      BY <3>1, <3>2, <3>3
    <3> QED
      BY <3>1, <3>4 DEF RefusalHonest
  <2>2. ASSUME NEW count \in Counts, Reserve(count) PROVE RefusalHonest'
    BY <2>2 DEF Reserve, Granted, RefusalHonest
  <2>3. ASSUME NEW slots \in ReleaseArgs, Release(slots) \/ Reject(slots)
        PROVE  RefusalHonest'
    BY <2>3 DEF Release, Reject, Released, Rejected, RefusalHonest
  <2>4. CASE UNCHANGED kvVars
    BY <2>4 DEF kvVars, RefusalHonest
  <2> QED
    BY <2>1, <2>2, <2>3, <2>4 DEF KvNext
<1> QED
  BY <1>1, <1>2, InvInit, InvStep, PTL DEF KvSpec

\* Whatever a reservation hands out was free, is named once and is in use
\* afterwards: no two holders of reservations share a slot.
THEOREM GrantsAlwaysFresh == KvSpec => GrantsFresh
<1> DEFINE Fresh == reply'.op = "reserve" /\ reply'.ok =>
                      /\ IsInjective(reply'.slots)
                      /\ Range(reply'.slots) \subseteq Slot \ inUse
                      /\ Range(reply'.slots) \subseteq inUse'
<1>1. Inv /\ [KvNext]_kvVars => [Fresh]_kvVars
  <2> SUFFICES ASSUME Inv, KvNext PROVE Fresh
    OBVIOUS
  <2>1. ASSUME NEW count \in Counts, Reserve(count) PROVE Fresh
    <3>1. reply'.slots = Taken(count) /\ inUse' = inUse \cup Range(Taken(count))
      BY <2>1 DEF Reserve, Granted
    <3> QED
      BY <2>1, <3>1, ReserveStep
  <2>2. ASSUME NEW count \in Counts, Refuse(count) PROVE Fresh
    BY <2>2 DEF Refuse, Refused
  <2>3. ASSUME NEW slots \in ReleaseArgs, Release(slots) \/ Reject(slots) PROVE Fresh
    BY <2>3 DEF Release, Reject, Released, Rejected
  <2> QED
    BY <2>1, <2>2, <2>3 DEF KvNext
<1> QED
  BY <1>1, InvInit, InvStep, PTL DEF KvSpec, GrantsFresh

\* The number of slots that are free is the length of the free list.
LEMMA FreeCount == Inv => Cardinality(Slot \ inUse) = Len(free)
BY InjectiveRange DEF Inv, KvTypeOK, FreeListExact

\* For every capacity, every request and every array handed back, the pool of
\* kv_cache.ml gives the one answer a plain set of slots calls for: it grants
\* exactly when enough slots are free, takes back exactly the arrays that name
\* slots in use once each, and moves nothing when it answers with an error.
THEOREM PoolImplementsService == KvSpec => ImplementsSlotService
<1>1. KvInit => Service!ServiceInit
  BY DEF KvInit, Released, Service!ServiceInit, Service!PoolInit
<1>2. Inv /\ [KvNext]_kvVars => [Service!ServiceNext]_<<inUse, reply>>
  <2> SUFFICES ASSUME Inv, [KvNext]_kvVars PROVE [Service!ServiceNext]_<<inUse, reply>>
    OBVIOUS
  <2> DEFINE left == Cardinality(Slot \ inUse)
  <2>1. left = Len(free) /\ Service!Cardinality(Slot \ inUse) = left
    BY FreeCount DEF Cardinality, Service!Cardinality
  <2> HIDE DEF left
  <2>2. ASSUME NEW count \in Counts, Reserve(count) PROVE Service!ServiceNext
    <3>1. /\ reply'.op = "reserve" /\ reply'.ok = TRUE
          /\ reply'.slots = Taken(count) /\ reply'.count = Len(Taken(count))
      BY <2>2 DEF Reserve, Granted
    <3>2. /\ IsInjective(Taken(count)) /\ Range(Taken(count)) \subseteq Slot \ inUse
          /\ inUse' = inUse \cup Range(Taken(count))
      BY <2>2, ReserveStep DEF Reserve
    <3>3. Len(Taken(count)) = count /\ count \in 0 .. left
      BY <2>1, <2>2, CutInjective DEF Reserve, Taken, Inv, KvTypeOK, FreeListExact
    <3> QED
      BY <2>1, <3>1, <3>2, <3>3
      DEF Service!ServiceNext, Service!AnswerReserve, Service!Grant,
          Service!Range, Service!IsInjective, Range, IsInjective
  <2>3. ASSUME NEW count \in Counts, Refuse(count) PROVE Service!ServiceNext
    <3>1. /\ reply'.op = "reserve" /\ reply'.ok = FALSE
          /\ reply'.slots = <<>> /\ reply'.count = count
          /\ count \notin 0 .. left /\ inUse' = inUse
      BY <2>1, <2>3 DEF Refuse, Refused
    <3> QED
      BY <2>1, <3>1 DEF Service!ServiceNext, Service!AnswerReserve
  <2>4. ASSUME NEW slots \in ReleaseArgs, Release(slots) PROVE Service!ServiceNext
    <3>1. /\ reply'.op = "release" /\ reply'.ok = TRUE
          /\ reply'.slots = slots /\ reply'.count = Len(slots)
          /\ inUse' = inUse \ Range(slots)
      BY <2>4 DEF Release, Released
    <3>2. IsInjective(slots) /\ Range(slots) \subseteq inUse
      BY <2>4 DEF Release, Releasable
    <3> QED
      BY <3>1, <3>2 DEF Service!ServiceNext, Service!AnswerRelease,
          Service!Range, Service!IsInjective, Range, IsInjective, Service!TakeBack
  <2>5. ASSUME NEW slots \in ReleaseArgs, Reject(slots) PROVE Service!ServiceNext
    <3>1. /\ reply'.op = "release" /\ reply'.ok = FALSE
          /\ reply'.slots = slots /\ reply'.count = Len(slots)
          /\ inUse' = inUse
      BY <2>5 DEF Reject, Rejected
    <3>2. ~(IsInjective(slots) /\ Range(slots) \subseteq inUse)
      BY <2>5 DEF Reject, Releasable
    <3> QED
      BY <3>1, <3>2 DEF Service!ServiceNext, Service!AnswerRelease,
          Service!Range, Service!IsInjective, Range, IsInjective
  <2>6. CASE UNCHANGED kvVars
    BY <2>6 DEF kvVars
  <2> QED
    BY <2>2, <2>3, <2>4, <2>5, <2>6 DEF KvNext
<1> QED
  BY <1>1, <1>2, InvInit, InvStep, PTL DEF KvSpec, ImplementsSlotService,
     Service!ServiceSpec
=============================================================================
