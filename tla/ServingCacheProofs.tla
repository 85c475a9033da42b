------------------------- MODULE ServingCacheProofs -------------------------
(***************************************************************************)
(* What holds of the serving cache for any number of callers, leases,      *)
(* slots and tokens and every page size: the tree stays sound whoever      *)
(* splits, extends and evicts, every slot has one owner, nothing given     *)
(* back is refused, and the whole implements PrefixStore.                  *)
(***************************************************************************)
EXTENDS ServingCache, RadixCacheProofs

\* Who owns what a pool has in use: the table (the tree), or one of the shares
\* (the callers' reservations), each place of which holds something else.
Owned(table, share, used) ==
  /\ IsInjective(table)
  /\ \A c \in DOMAIN share : IsInjective(share[c])
  /\ \A c, d \in DOMAIN share : c # d => Range(share[c]) \cap Range(share[d]) = {}
  /\ \A c \in DOMAIN share : Range(table) \cap Range(share[c]) = {}
  /\ Range(table) \cup UNION {Range(share[c]) : c \in DOMAIN share} = used

\* Caller c hands A of its share to the table, gives B back and keeps C.
Spent(table, share, used, c, A, B, C, table2, share2, used2) ==
  /\ c \in DOMAIN share /\ Range(share[c]) = A \cup B \cup C
  /\ A \cap B = {} /\ A \cap C = {} /\ B \cap C = {}
  /\ IsInjective(table2) /\ Range(table2) = Range(table) \cup A
  /\ DOMAIN share2 \ {c} = DOMAIN share \ {c}
  /\ \A d \in DOMAIN share \ {c} : share2[d] = share[d]
  /\ c \in DOMAIN share2 => IsInjective(share2[c]) /\ Range(share2[c]) = C
  /\ c \notin DOMAIN share2 => C = {}
  /\ used2 = used \ B

\* After such a step everything in use still has one owner, and what was given
\* back was in use.
LEMMA SpentKeeps ==
  ASSUME NEW table, NEW share, NEW used, NEW c, NEW A, NEW B, NEW C, NEW table2, NEW share2, NEW used2,
         Owned(table, share, used), Spent(table, share, used, c, A, B, C, table2, share2, used2)
  PROVE  Owned(table2, share2, used2) /\ B \subseteq used
<1>1. /\ IsInjective(table)
      /\ \A d \in DOMAIN share : IsInjective(share[d])
      /\ \A d, e \in DOMAIN share : d # e => Range(share[d]) \cap Range(share[e]) = {}
      /\ \A d \in DOMAIN share : Range(table) \cap Range(share[d]) = {}
      /\ Range(table) \cup UNION {Range(share[d]) : d \in DOMAIN share} = used
  BY DEF Owned
<1>2. /\ c \in DOMAIN share /\ Range(share[c]) = A \cup B \cup C
      /\ A \cap B = {} /\ A \cap C = {} /\ B \cap C = {}
      /\ IsInjective(table2) /\ Range(table2) = Range(table) \cup A
      /\ DOMAIN share2 \ {c} = DOMAIN share \ {c}
      /\ \A d \in DOMAIN share \ {c} : share2[d] = share[d]
      /\ c \in DOMAIN share2 => IsInjective(share2[c]) /\ Range(share2[c]) = C
      /\ c \notin DOMAIN share2 => C = {}
      /\ used2 = used \ B
  BY DEF Spent
<1>3. \A d \in DOMAIN share2 : \/ d \in DOMAIN share /\ d # c /\ share2[d] = share[d]
                               \/ d = c /\ Range(share2[d]) = C
  BY <1>2
<1>4. \A d \in DOMAIN share2 : IsInjective(share2[d])
  BY <1>1, <1>2, <1>3
<1>5. \A d, e \in DOMAIN share2 : d # e => Range(share2[d]) \cap Range(share2[e]) = {}
  BY <1>1, <1>2, <1>3
<1>6. \A d \in DOMAIN share2 : Range(table2) \cap Range(share2[d]) = {}
  BY <1>1, <1>2, <1>3
<1>7. B \subseteq used
  BY <1>1, <1>2
<1>8. Range(table2) \cup UNION {Range(share2[d]) : d \in DOMAIN share2} = used2
  <2>1. ASSUME NEW x \in used2 PROVE x \in Range(table2) \cup UNION {Range(share2[d]) : d \in DOMAIN share2}
    <3>1. x \in used /\ x \notin B
      BY <1>2, <2>1
    <3>2. CASE x \in Range(table)
      BY <1>2, <3>2
    <3>3. CASE \E d \in DOMAIN share \ {c} : x \in Range(share[d])
      BY <1>2, <3>3
    <3>4. CASE x \in Range(share[c])
      BY <1>2, <3>1, <3>4
    <3> QED
      BY <1>1, <3>1, <3>2, <3>3, <3>4
  <2>2. Range(table2) \subseteq used2
    BY <1>1, <1>2
  <2>3. \A d \in DOMAIN share2 : Range(share2[d]) \subseteq used2
    BY <1>1, <1>2, <1>3
  <2> QED
    BY <2>1, <2>2, <2>3
<1> QED
  BY <1>2, <1>4, <1>5, <1>6, <1>7, <1>8 DEF Owned

\* A caller without a share gets one of things nobody had.
Granted(share, used, c, share2, used2) ==
  /\ c \notin DOMAIN share /\ DOMAIN share2 = DOMAIN share \cup {c}
  /\ \A d \in DOMAIN share : share2[d] = share[d]
  /\ IsInjective(share2[c]) /\ Range(share2[c]) \cap used = {} /\ used2 = used \cup Range(share2[c])

\* It owns them, and the others own what they did.
LEMMA GrantKeeps ==
  ASSUME NEW table, NEW share, NEW used, NEW c, NEW share2, NEW used2,
         Owned(table, share, used), Granted(share, used, c, share2, used2)
  PROVE  Owned(table, share2, used2)
<1> SUFFICES ASSUME c \notin DOMAIN share, DOMAIN share2 = DOMAIN share \cup {c},
                    \A d \in DOMAIN share : share2[d] = share[d],
                    IsInjective(share2[c]), Range(share2[c]) \cap used = {}, used2 = used \cup Range(share2[c])
             PROVE  Owned(table, share2, used2)
  BY DEF Granted
<1>1. /\ IsInjective(table)
      /\ \A d \in DOMAIN share : IsInjective(share[d])
      /\ \A d, e \in DOMAIN share : d # e => Range(share[d]) \cap Range(share[e]) = {}
      /\ \A d \in DOMAIN share : Range(table) \cap Range(share[d]) = {}
      /\ Range(table) \cup UNION {Range(share[d]) : d \in DOMAIN share} = used
  BY DEF Owned
<1>2. Range(table) \subseteq used /\ \A d \in DOMAIN share : Range(share[d]) \subseteq used
  BY <1>1
<1>3. \A d \in DOMAIN share2 : IsInjective(share2[d])
  BY <1>1
<1>4. \A d, e \in DOMAIN share2 : d # e => Range(share2[d]) \cap Range(share2[e]) = {}
  BY <1>1, <1>2
<1>5. \A d \in DOMAIN share2 : Range(table) \cap Range(share2[d]) = {}
  BY <1>1, <1>2
<1>6. Range(table) \cup UNION {Range(share2[d]) : d \in DOMAIN share2} = used2
  <2>1. ASSUME NEW x \in used2 PROVE x \in Range(table) \cup UNION {Range(share2[d]) : d \in DOMAIN share2}
    <3>1. CASE x \in Range(share2[c])
      BY <3>1
    <3>2. CASE x \in used
      BY <1>1, <3>2
    <3> QED
      BY <2>1, <3>1, <3>2
  <2>2. \A d \in DOMAIN share2 : Range(share2[d]) \subseteq used2
    BY <1>2
  <2> QED
    BY <1>2, <2>1, <2>2
<1> QED
  BY <1>1, <1>3, <1>4, <1>5, <1>6 DEF Owned

\* The table drops some of its entries: it keeps those of D, and what the others
\* hold is gone.
DroppedTo(table, used, D, gone, table2, used2) ==
  /\ D \subseteq DOMAIN table /\ gone = {table[p] : p \in DOMAIN table \ D}
  /\ table2 = [p \in D |-> table[p]] /\ used2 = used \ gone

\* Nothing it drops was owned by another as well.
LEMMA DropKeeps ==
  ASSUME NEW table, NEW share, NEW used, NEW D, NEW gone, NEW table2, NEW used2,
         Owned(table, share, used), DroppedTo(table, used, D, gone, table2, used2)
  PROVE  Owned(table2, share, used2) /\ gone \subseteq used
<1> SUFFICES ASSUME D \subseteq DOMAIN table, gone = {table[p] : p \in DOMAIN table \ D},
                    table2 = [p \in D |-> table[p]], used2 = used \ gone
             PROVE  Owned(table2, share, used2) /\ gone \subseteq used
  BY DEF DroppedTo
<1>1. /\ \A p, q \in DOMAIN table : table[p] = table[q] => p = q
      /\ \A d \in DOMAIN share : IsInjective(share[d])
      /\ \A d, e \in DOMAIN share : d # e => Range(share[d]) \cap Range(share[e]) = {}
      /\ \A d \in DOMAIN share : Range(table) \cap Range(share[d]) = {}
      /\ Range(table) \cup UNION {Range(share[d]) : d \in DOMAIN share} = used
  BY DEF Owned, IsInjective
<1>3. IsInjective(table2)
  BY <1>1 DEF IsInjective
<1>4. Range(table) = Range(table2) \cup gone /\ Range(table2) \cap gone = {}
  <2>1. DOMAIN table2 = D /\ \A p \in D : table2[p] = table[p]
    OBVIOUS
  <2> QED
    BY <1>1, <2>1 DEF Range
<1>5. \A d \in DOMAIN share : Range(table2) \cap Range(share[d]) = {} /\ gone \cap Range(share[d]) = {}
  BY <1>1, <1>4
<1>6. Range(table2) \cup UNION {Range(share[d]) : d \in DOMAIN share} = used \ gone
  BY <1>1, <1>4, <1>5
<1>7. gone \subseteq used
  BY <1>1, <1>4
<1> QED
  BY <1>1, <1>3, <1>5, <1>6, <1>7 DEF Owned
-----------------------------------------------------------------------------
SlotsOf(h) == [c \in DOMAIN h |-> h[c].slots]
CkptsOf(h) == [c \in DOMAIN h |-> h[c].ckpts]

\* Reservations are sequences, and no pool has refused anything.
HeldTypes ==
  /\ DOMAIN held \subseteq Caller
  /\ \A c \in DOMAIN held : held[c].slots \in Seq(Slot) /\ held[c].ckpts \in Seq(Ckpt)
  /\ tokensUsed \subseteq Slot /\ ckptsUsed \subseteq Ckpt /\ refused = FALSE

Short == \A n \in nodes : Len(n) <= MaxLength

\* The callers of the cache's own interface reserve at most one checkpoint.
OneCkpt == \A c \in DOMAIN held : Len(held[c].ckpts) <= 1

\* What every user of the cache keeps; with OneCkpt, the inductive invariant of Spec.
CacheInv ==
  /\ TreeInv /\ Short /\ HeldTypes
  /\ Owned(slotAt, SlotsOf(held), tokensUsed)
  /\ Owned(ckptAt, CkptsOf(held), ckptsUsed)

\* A key the callers may use, cut at a page or not, is one the tree can hold.
LEMMA KeysAre ==
  /\ MaxLength \in Nat
  /\ \A s : s \in Keys <=> s \in Strings /\ s # Root /\ Len(s) <= MaxLength
<1>1. MaxLength \in Nat
  BY CacheAssumption
<1>2. ASSUME NEW s \in Keys PROVE s \in Strings /\ s # Root /\ Len(s) <= MaxLength
  <2>1. PICK n \in 1 .. MaxLength : s \in [1 .. n -> Token]
    BY DEF Keys
  <2>2. n \in Nat /\ n # 0
    BY <1>1
  <2>3. s \in Seq(Token) /\ Len(s) = n
    BY <2>1, <2>2
  <2>4. Len(Root) = 0
    BY PrefixOrder
  <2> QED
    BY <1>1, <2>2, <2>3, <2>4 DEF Strings
<1>3. ASSUME NEW s \in Strings, s # Root, Len(s) <= MaxLength PROVE s \in Keys
  <2>1. Len(s) \in Nat /\ s \in [1 .. Len(s) -> Token] /\ Len(s) # 0
    BY <1>3, LenProperties, PrefixOrder DEF Strings
  <2>2. Len(s) \in 1 .. MaxLength
    BY <1>1, <1>3, <2>1
  <2> QED
    BY <2>1, <2>2 DEF Keys
<1> QED
  BY <1>1, <1>2, <1>3

\* A piece of a sequence, and what is known of it when the sequence repeats nothing.
CutOut(s, m, n, part) == m \in Nat /\ n \in Nat /\ m <= n /\ n <= Len(s) /\ part = SubSeq(s, m + 1, n)
PieceOf(S, s, m, n, part) ==
  part \in Seq(S) /\ Len(part) = n - m /\ IsInjective(part) /\ Range(part) = {s[i] : i \in m + 1 .. n}

\* A piece repeats nothing either, and holds what the sequence has between its ends.
LEMMA CutIs ==
  ASSUME NEW S, NEW s \in Seq(S), IsInjective(s), NEW m, NEW n, NEW part, CutOut(s, m, n, part)
  PROVE  PieceOf(S, s, m, n, part)
<1> SUFFICES ASSUME m \in Nat, n \in Nat, m <= n, n <= Len(s), part = SubSeq(s, m + 1, n)
             PROVE  PieceOf(S, s, m, n, part)
  BY DEF CutOut
<1>1. Len(s) \in Nat /\ DOMAIN s = 1 .. Len(s) /\ \A i \in 1 .. Len(s) : s[i] \in S
  BY LenProperties
<1>2. /\ part \in Seq(S) /\ Len(part) = n - m
      /\ \A i \in 1 .. n - m : part[i] = s[i + m]
  <2>1. m + 1 \in 1 .. Len(s) + 1 /\ n \in m .. Len(s) /\ \A i \in m + 1 .. n : s[i] \in S
    BY <1>1
  <2>2. /\ SubSeq(s, m + 1, n) \in Seq(S)
        /\ Len(SubSeq(s, m + 1, n)) = IF m + 1 <= n THEN n - (m + 1) + 1 ELSE 0
        /\ \A i \in 1 .. n - (m + 1) + 1 : SubSeq(s, m + 1, n)[i] = s[m + 1 + i - 1]
    BY <2>1, SubSeqProperties
  <2>3. n - (m + 1) + 1 = n - m /\ \A i \in 1 .. n - m : m + 1 + i - 1 = i + m
    OBVIOUS
  <2>4. (IF m + 1 <= n THEN n - m ELSE 0) = n - m
    OBVIOUS
  <2> QED
    BY <2>2, <2>3, <2>4
<1>3. DOMAIN part = 1 .. n - m /\ n - m \in Nat
  BY <1>2, LenProperties
<1>4. \A i \in 1 .. n - m : i + m \in m + 1 .. n /\ i + m \in 1 .. Len(s)
  BY <1>1
<1>5. IsInjective(part)
  <2>1. ASSUME NEW i \in 1 .. n - m, NEW j \in 1 .. n - m, part[i] = part[j] PROVE i = j
    <3>1. s[i + m] = s[j + m]
      BY <1>2, <2>1
    <3>2. i + m = j + m
      BY <1>1, <1>4, <3>1 DEF IsInjective
    <3> QED
      BY <3>2
  <2> QED
    BY <1>3, <2>1 DEF IsInjective
<1>6. Range(part) = {s[i] : i \in m + 1 .. n}
  <2>1. \A j \in m + 1 .. n : j - m \in 1 .. n - m /\ (j - m) + m = j
    OBVIOUS
  <2>2. \A j \in m + 1 .. n : \E i \in 1 .. n - m : part[i] = s[j]
    BY <1>2, <2>1
  <2>3. \A i \in 1 .. n - m : \E j \in m + 1 .. n : part[i] = s[j]
    BY <1>2, <1>4
  <2>4. Range(part) = {part[i] : i \in 1 .. n - m}
    BY <1>3 DEF Range
  <2>5. ASSUME NEW x \in Range(part) PROVE x \in {s[i] : i \in m + 1 .. n}
    <3>1. PICK i \in 1 .. n - m : x = part[i]
      BY <2>4
    <3>2. PICK j \in m + 1 .. n : part[i] = s[j]
      BY <2>3
    <3> QED
      BY <3>1, <3>2
  <2>6. ASSUME NEW j \in m + 1 .. n PROVE s[j] \in Range(part)
    <3>1. PICK i \in 1 .. n - m : part[i] = s[j]
      BY <2>2
    <3> QED
      BY <2>4, <3>1
  <2> QED
    BY <2>5, <2>6
<1> QED
  BY <1>2, <1>5, <1>6 DEF PieceOf

\* The checkpoints of a reservation as the option the code passes.
LEMMA FirstIs ==
  ASSUME NEW k \in Seq(Ckpt), Len(k) <= 1
  PROVE  /\ First(k) = Range(k) /\ First(k) \in SUBSET Ckpt /\ (First(k) = {} \/ \E c : First(k) = {c})
         /\ IsInjective(k)
<1>1. Len(k) \in Nat /\ DOMAIN k = 1 .. Len(k) /\ \A i \in 1 .. Len(k) : k[i] \in Ckpt
  BY LenProperties
<1>2. CASE Len(k) = 0
  <2>1. k = <<>> /\ DOMAIN k = {}
    BY <1>1, <1>2, EmptySeq
  <2> QED
    BY <2>1 DEF First, Range, IsInjective
<1>3. CASE Len(k) = 1
  <2>1. DOMAIN k = {1} /\ k # <<>> /\ k[1] \in Ckpt
    BY <1>1, <1>3, EmptySeq
  <2> QED
    BY <2>1 DEF First, Range, IsInjective
<1>4. Len(k) = 0 \/ Len(k) = 1
  BY <1>1
<1> QED
  BY <1>2, <1>3, <1>4

\* What is left with the caller, if anything.
LEMMA KeepIs ==
  ASSUME NEW c \in DOMAIN held, NEW s, NEW k
  PROVE  /\ DOMAIN Keep(c, s, k) \ {c} = DOMAIN held \ {c} /\ DOMAIN Keep(c, s, k) \subseteq DOMAIN held
         /\ \A d \in DOMAIN held \ {c} : Keep(c, s, k)[d] = held[d]
         /\ c \in DOMAIN Keep(c, s, k) => Keep(c, s, k)[c].slots = s /\ Keep(c, s, k)[c].ckpts = k
         /\ c \notin DOMAIN Keep(c, s, k) => s = <<>> /\ k = <<>>
<1>1. CASE s = <<>> /\ k = <<>>
  <2>1. Keep(c, s, k) = [d \in DOMAIN held \ {c} |-> held[d]]
    BY <1>1 DEF Keep, Without
  <2> QED
    BY <1>1, <2>1
<1>2. CASE ~(s = <<>> /\ k = <<>>)
  <2>1. Keep(c, s, k) = [held EXCEPT ![c] = [slots |-> s, ckpts |-> k]]
    BY <1>2 DEF Keep
  <2> QED
    BY <2>1
<1> QED
  BY <1>1, <1>2

\* Of the slots U, or checkpoints V, the tree takes what is not given back.
SlotsSplit(U, B) ==
  \E A : /\ U = A \cup B /\ A \cap B = {}
         /\ IsInjective(slotAt') /\ Range(slotAt') = Range(slotAt) \cup A
CkptsSplit(V, E) ==
  \E D : /\ V = D \cup E /\ D \cap E = {}
         /\ IsInjective(ckptAt') /\ Range(ckptAt') = Range(ckptAt) \cup D

\* Caller c keeps s and k of its reservation; of the rest, B and E go back.
HandsOver(c, s, k, U, B, V, E) ==
  /\ s \in Seq(Slot) /\ IsInjective(s) /\ k \in Seq(Ckpt) /\ IsInjective(k) /\ held' = Keep(c, s, k)
  /\ Range(held[c].slots) = U \cup Range(s) /\ U \cap Range(s) = {} /\ SlotsSplit(U, B)
  /\ Range(held[c].ckpts) = V \cup Range(k) /\ V \cap Range(k) = {} /\ CkptsSplit(V, E)
  /\ Settle(B, E) \/ GiveBack(B, E)

\* A caller hands parts of its reservation to the tree, gives parts back and
\* keeps the rest: the tree is as given, the pools take everything.
LEMMA CallerStep ==
  ASSUME CacheInv, TreeInv', Short', NEW c \in DOMAIN held, NEW s, NEW k, NEW U, NEW B, NEW V, NEW E,
         HandsOver(c, s, k, U, B, V, E)
  PROVE  CacheInv'
<1>1. PICK A : /\ Range(held[c].slots) = A \cup B \cup Range(s)
               /\ A \cap B = {} /\ A \cap Range(s) = {} /\ B \cap Range(s) = {}
               /\ IsInjective(slotAt') /\ Range(slotAt') = Range(slotAt) \cup A
  <2>1. PICK A : U = A \cup B /\ A \cap B = {} /\ IsInjective(slotAt') /\ Range(slotAt') = Range(slotAt) \cup A
    BY DEF HandsOver, SlotsSplit
  <2>2. Range(held[c].slots) = U \cup Range(s) /\ U \cap Range(s) = {}
    BY DEF HandsOver
  <2>3. Range(held[c].slots) = A \cup B \cup Range(s) /\ A \cap Range(s) = {} /\ B \cap Range(s) = {}
    BY <2>1, <2>2
  <2> QED
    BY <2>1, <2>3
<1>2. PICK D : /\ Range(held[c].ckpts) = D \cup E \cup Range(k)
               /\ D \cap E = {} /\ D \cap Range(k) = {} /\ E \cap Range(k) = {}
               /\ IsInjective(ckptAt') /\ Range(ckptAt') = Range(ckptAt) \cup D
  <2>1. PICK D : V = D \cup E /\ D \cap E = {} /\ IsInjective(ckptAt') /\ Range(ckptAt') = Range(ckptAt) \cup D
    BY DEF HandsOver, CkptsSplit
  <2>2. Range(held[c].ckpts) = V \cup Range(k) /\ V \cap Range(k) = {}
    BY DEF HandsOver
  <2>3. Range(held[c].ckpts) = D \cup E \cup Range(k) /\ D \cap Range(k) = {} /\ E \cap Range(k) = {}
    BY <2>1, <2>2
  <2> QED
    BY <2>1, <2>3
<1>3. /\ s \in Seq(Slot) /\ IsInjective(s) /\ k \in Seq(Ckpt) /\ IsInjective(k)
      /\ held' = Keep(c, s, k) /\ (Settle(B, E) \/ GiveBack(B, E))
  BY DEF HandsOver
<1>4. /\ DOMAIN held' \ {c} = DOMAIN held \ {c} /\ DOMAIN held' \subseteq DOMAIN held
      /\ \A d \in DOMAIN held \ {c} : held'[d] = held[d]
      /\ c \in DOMAIN held' => held'[c].slots = s /\ held'[c].ckpts = k
      /\ c \notin DOMAIN held' => s = <<>> /\ k = <<>>
  BY <1>3, KeepIs
<1>5. Range(<<>>) = {}
  BY DEF Range
<1>6. Owned(slotAt, SlotsOf(held), tokensUsed) /\ Owned(ckptAt, CkptsOf(held), ckptsUsed) /\ HeldTypes
  BY DEF CacheInv
<1>7. PICK share, share2 : share = SlotsOf(held) /\ share2 = SlotsOf(held')
  OBVIOUS
<1>8. /\ DOMAIN share = DOMAIN held /\ \A d \in DOMAIN held : share[d] = held[d].slots
      /\ DOMAIN share2 = DOMAIN held' /\ \A d \in DOMAIN held' : share2[d] = held'[d].slots
  BY <1>7 DEF SlotsOf
<1>9. Spent(slotAt, share, tokensUsed, c, A, B, Range(s), slotAt', share2, tokensUsed \ B)
  <2>1. \A d \in DOMAIN share \ {c} : share2[d] = share[d]
    BY <1>4, <1>8
  <2>2. DOMAIN share2 \ {c} = DOMAIN share \ {c}
    BY <1>4, <1>8
  <2>3. c \in DOMAIN share2 => share2[c] = s
    BY <1>4, <1>8
  <2>4. c \notin DOMAIN share2 => Range(s) = {}
    BY <1>4, <1>5, <1>8
  <2>5. c \in DOMAIN share /\ Range(share[c]) = A \cup B \cup Range(s)
    BY <1>8, <1>1
  <2> QED
    BY <1>1, <1>3, <2>1, <2>2, <2>3, <2>4, <2>5 DEF Spent
<1>10. Owned(slotAt', share2, tokensUsed \ B) /\ B \subseteq tokensUsed
  BY <1>6, <1>7, <1>9, SpentKeeps
<1>11. PICK part, part2 : part = CkptsOf(held) /\ part2 = CkptsOf(held')
  OBVIOUS
<1>12. /\ DOMAIN part = DOMAIN held /\ \A d \in DOMAIN held : part[d] = held[d].ckpts
      /\ DOMAIN part2 = DOMAIN held' /\ \A d \in DOMAIN held' : part2[d] = held'[d].ckpts
  BY <1>11 DEF CkptsOf
<1>13. Spent(ckptAt, part, ckptsUsed, c, D, E, Range(k), ckptAt', part2, ckptsUsed \ E)
  <2>1. \A d \in DOMAIN part \ {c} : part2[d] = part[d]
    BY <1>4, <1>12
  <2>2. DOMAIN part2 \ {c} = DOMAIN part \ {c}
    BY <1>4, <1>12
  <2>3. c \in DOMAIN part2 => part2[c] = k
    BY <1>4, <1>12
  <2>4. c \notin DOMAIN part2 => Range(k) = {}
    BY <1>4, <1>5, <1>12
  <2>5. c \in DOMAIN part /\ Range(part[c]) = D \cup E \cup Range(k)
    BY <1>12, <1>2
  <2> QED
    BY <1>2, <1>3, <2>1, <2>2, <2>3, <2>4, <2>5 DEF Spent
<1>14. Owned(ckptAt', part2, ckptsUsed \ E) /\ E \subseteq ckptsUsed
  BY <1>6, <1>11, <1>13, SpentKeeps
<1>15. tokensUsed' = tokensUsed \ B /\ ckptsUsed' = ckptsUsed \ E /\ refused' = FALSE
  BY <1>6, <1>10, <1>14, <1>3 DEF Settle, GiveBack, HeldTypes
<1>16. HeldTypes'
  <2>1. \A d \in DOMAIN held' : \/ d \in DOMAIN held /\ held'[d] = held[d]
                                \/ held'[d].slots = s /\ held'[d].ckpts = k
    BY <1>4
  <2> QED
    BY <1>4, <1>6, <1>15, <1>3, <2>1 DEF HeldTypes
<1>17. Owned(slotAt, SlotsOf(held), tokensUsed)'
  BY <1>7, <1>10, <1>15
<1>18. Owned(ckptAt, CkptsOf(held), ckptsUsed)'
  BY <1>11, <1>14, <1>15
<1> QED
  BY <1>16, <1>17, <1>18 DEF CacheInv
-----------------------------------------------------------------------------
(* What an insertion takes of the values it is given, and what it returns.    *)

\* The new slots of the key go to the tree or are returned as redundant; those of
\* the leased prefix are the tree's own and are neither.
LEMMA InsertSplits ==
  ASSUME TreeInv, IsInjective(slotAt),
         NEW key \in Paged, NEW q \in nodes \cup {Root}, IsPrefix(q, key),
         NEW slots \in Seq(Slot), IsInjective(slots), Range(slotAt) \cap Range(slots) = {},
         NEW values, values = PathValues(q) \o slots,
         NEW ckpt, NEW L, Insert(key, values, ckpt, L)
  PROVE  values \in Seq(Slot) /\ SlotsSplit(Range(slots), RedundantSlots(key, values))
<1>0. Tree(nodes) /\ slotAt \in [CachedIn(nodes) -> Slot]
  BY DEF TreeInv, TreeTypes
<1>1. q \in Paged /\ Len(q) \in Nat /\ Len(slots) \in Nat /\ DOMAIN slots = 1 .. Len(slots)
  BY <1>0, PagedOrder, LenProperties DEF Tree
<1>2. PICK b \in Nat, h \in Nat : b = Len(q) /\ h = Len(slots)
  BY <1>1
<1>3. PICK p \in Seq(Slot) : p = PathValues(q) /\ Len(p) = b /\ \A i \in 1 .. b : p[i] = slotAt[At(q, i)]
  <2>1. \A i \in 1 .. b : At(q, i) \in CachedIn(nodes)
    <3>1. CASE q = Root
      BY <1>2, <3>1, PagedOrder
    <3>2. CASE q \in nodes
      BY <1>2, <3>2 DEF CachedIn, Positions
    <3> QED
      BY <3>1, <3>2
  <2>2. PathValues(q) = [i \in 1 .. b |-> slotAt[At(q, i)]] /\ \A i \in 1 .. b : slotAt[At(q, i)] \in Slot
    BY <1>0, <1>2, <2>1 DEF PathValues
  <2>3. PathValues(q) \in [1 .. b -> Slot]
    BY <2>2
  <2>4. PathValues(q) \in Seq(Slot) /\ Len(PathValues(q)) = b
    BY <2>3, SeqDef
  <2> QED
    BY <2>2, <2>4
<1>4. PICK v \in Seq(Slot) : v = values /\ Len(v) = b + h
                             /\ \A i \in 1 .. b + h : v[i] = IF i <= b THEN p[i] ELSE slots[i - b]
  <2>1. /\ p \o slots \in Seq(Slot) /\ Len(p \o slots) = Len(p) + Len(slots)
        /\ \A i \in 1 .. Len(p) + Len(slots) : (p \o slots)[i] = IF i <= Len(p) THEN p[i] ELSE slots[i - Len(p)]
    BY ConcatProperties
  <2>2. Len(p) = b /\ Len(slots) = h
    BY <1>2, <1>3
  <2>3. Len(p \o slots) = b + h /\ \A i \in 1 .. b + h : (p \o slots)[i] = IF i <= b THEN p[i] ELSE slots[i - b]
    BY <2>1, <2>2
  <2> QED
    BY <1>3, <2>1, <2>3
<1>5. Insert(key, v, ckpt, L)
  BY <1>4
<1>6. PICK k \in Nat :
        /\ k = CachedLength(key) /\ k <= b + h /\ Len(key) = b + h
        /\ CachedIn(nodes') = CachedIn(nodes) \cup {At(key, i) : i \in k + 1 .. b + h}
        /\ slotAt' \in [CachedIn(nodes') -> Slot]
        /\ \A pos \in CachedIn(nodes) : slotAt'[pos] = slotAt[pos]
        /\ \A i \in k + 1 .. b + h : slotAt'[At(key, i)] = v[i] /\ At(key, i) \notin CachedIn(nodes)
        /\ \A i \in 1 .. k : At(key, i) \in CachedIn(nodes)
  <2>1. /\ Len(v) = Len(key) /\ CachedLength(key) \in 0 .. Len(key)
        /\ CachedIn(nodes') = CachedIn(nodes) \cup {At(key, i) : i \in CachedLength(key) + 1 .. Len(key)}
        /\ slotAt' \in [CachedIn(nodes') -> Slot]
        /\ \A pos \in CachedIn(nodes) : slotAt'[pos] = slotAt[pos]
        /\ \A i \in CachedLength(key) + 1 .. Len(key) : slotAt'[At(key, i)] = v[i] /\ At(key, i) \notin CachedIn(nodes)
        /\ \A i \in 1 .. CachedLength(key) : At(key, i) \in CachedIn(nodes)
    BY <1>5, InsertValues
  <2>2. PICK k \in Nat : k = CachedLength(key) /\ k <= b + h /\ Len(key) = b + h
    BY <1>4, <2>1
  <2> QED
    BY <2>1, <2>2
<1>7. b <= k
  <2>1. CASE q = Root
    BY <1>2, <2>1, PagedOrder
  <2>2. CASE q \in nodes
    <3>1. IsPrefix(q, q)
      BY <1>1, PagedOrder
    <3>2. IsPrefix(q, Reached(key)) /\ Reached(key) \in Paged /\ k = Len(Reached(key))
      BY <1>0, <1>1, <1>6, <2>2, <3>1, ReachedIs
    <3> QED
      BY <1>1, <1>2, <3>2, PagedOrder
  <2> QED
    BY <2>1, <2>2
<1>8. \A i \in 1 .. b : v[i] = slotAt[At(key, i)]
  <2>1. ASSUME NEW i \in 1 .. b PROVE At(key, i) = At(q, i)
    <3>1. IsPrefix(q, q) /\ i \in 1 .. Len(q) /\ i <= Len(q)
      BY <1>1, <1>2, PagedOrder
    <3>2. \E x \in Paged : IsPrefix(x, key) /\ IsPrefix(x, q) /\ i <= Len(x)
      BY <1>1, <3>1
    <3>3. i \in 1 .. Len(key)
      BY <1>2, <1>6
    <3> QED
      BY <1>1, <3>1, <3>2, <3>3, SamePosition
  <2>2. \A i \in 1 .. b : i \in 1 .. b + h /\ i <= b
    BY <1>2
  <2> QED
    BY <1>3, <1>4, <2>1, <2>2
<1>9. \A i \in b + 1 .. b + h : i - b \in 1 .. h /\ v[i] = slots[i - b] /\ v[i] \in Range(slots)
  <2>1. ASSUME NEW i \in b + 1 .. b + h PROVE i - b \in 1 .. h /\ i \in 1 .. b + h /\ ~(i <= b)
    BY <1>2
  <2> QED
    BY <1>1, <1>2, <1>4, <2>1 DEF Range
<1>10. \A i, j \in b + 1 .. b + h : v[i] = v[j] => i = j
  <2>1. ASSUME NEW i \in b + 1 .. b + h, NEW j \in b + 1 .. b + h, v[i] = v[j] PROVE i = j
    <3>1. PICK x \in DOMAIN slots, y \in DOMAIN slots : x = i - b /\ y = j - b
      BY <1>1, <1>2, <1>9
    <3>2. slots[x] = slots[y]
      BY <1>9, <2>1, <3>1
    <3>3. x = y
      BY <3>2 DEF IsInjective
    <3> QED
      BY <1>2, <3>1, <3>3
  <2> QED
    BY <2>1
<1>11. Range(slots) = {v[i] : i \in b + 1 .. b + h}
  <2>1. ASSUME NEW j \in 1 .. h PROVE j + b \in b + 1 .. b + h /\ v[j + b] = slots[j]
    <3>1. j + b \in b + 1 .. b + h /\ (j + b) - b = j
      BY <1>2
    <3> QED
      BY <1>9, <3>1
  <2>2. Range(slots) = {slots[j] : j \in 1 .. h}
    BY <1>1, <1>2 DEF Range
  <2>3. Range(slots) \subseteq {v[i] : i \in b + 1 .. b + h}
    BY <2>1, <2>2
  <2>4. {v[i] : i \in b + 1 .. b + h} \subseteq Range(slots)
    BY <1>9
  <2> QED
    BY <2>3, <2>4
<1>12. PICK A, B : A = {v[i] : i \in k + 1 .. b + h} /\ B = {v[i] : i \in b + 1 .. k}
  OBVIOUS
<1>13. /\ \A i \in b + 1 .. b + h : i \in b + 1 .. k \/ i \in k + 1 .. b + h
       /\ \A i \in b + 1 .. k : i \in b + 1 .. b + h /\ i \in 1 .. k
       /\ \A i \in k + 1 .. b + h : i \in b + 1 .. b + h
       /\ \A i \in b + 1 .. k, j \in k + 1 .. b + h : i # j
       /\ \A i \in 1 .. k : i \in 1 .. b \/ i \in b + 1 .. k
  BY <1>6, <1>7
<1>14. Range(slots) = A \cup B
  BY <1>11, <1>12, <1>13
<1>15. A \cap B = {}
  BY <1>10, <1>12, <1>13
<1>16. RedundantSlots(key, v) = B
  <2>1. \A i \in b + 1 .. k : v[i] # slotAt[At(key, i)]
    <3>1. ASSUME NEW i \in b + 1 .. k PROVE v[i] \in Range(slots) /\ slotAt[At(key, i)] \in Range(slotAt)
      BY <1>0, <1>6, <1>9, <1>13 DEF Range
    <3> QED
      BY <3>1
  <2>2. \A i \in 1 .. k : v[i] # slotAt[At(key, i)] <=> i \in b + 1 .. k
    <3>1. \A i \in 1 .. b : i \notin b + 1 .. k
      BY <1>2
    <3> QED
      BY <1>8, <1>13, <2>1, <3>1
  <2>3. {i \in 1 .. k : v[i] # slotAt[At(key, i)]} = b + 1 .. k
    BY <1>13, <2>2
  <2> QED
    BY <1>6, <1>12, <2>3 DEF RedundantSlots
<1>17. Range(slotAt') = Range(slotAt) \cup A
  <2>1. DOMAIN slotAt = CachedIn(nodes) /\ DOMAIN slotAt' = CachedIn(nodes) \cup {At(key, i) : i \in k + 1 .. b + h}
    BY <1>0, <1>6
  <2>2. \A pos \in DOMAIN slotAt' : slotAt'[pos] \in Range(slotAt) \cup A
    BY <1>6, <1>12, <2>1 DEF Range
  <2>3. \A pos \in DOMAIN slotAt : slotAt[pos] \in Range(slotAt')
    BY <1>6, <2>1 DEF Range
  <2>4. \A i \in k + 1 .. b + h : v[i] \in Range(slotAt')
    BY <1>6, <2>1 DEF Range
  <2> QED
    BY <1>12, <2>2, <2>3, <2>4, SMTT(30) DEF Range
<1>18. IsInjective(slotAt')
  <2>1. DOMAIN slotAt = CachedIn(nodes) /\ DOMAIN slotAt' = CachedIn(nodes) \cup {At(key, i) : i \in k + 1 .. b + h}
    BY <1>0, <1>6
  <2>2. \A pos \in CachedIn(nodes) : slotAt'[pos] = slotAt[pos] /\ slotAt[pos] \in Range(slotAt)
    BY <1>6, <2>1 DEF Range
  <2>3. \A i \in k + 1 .. b + h : slotAt'[At(key, i)] = v[i] /\ v[i] \in Range(slots) /\ i \in b + 1 .. b + h
    BY <1>6, <1>9, <1>13
  <2>4. \A x, y \in DOMAIN slotAt' : slotAt'[x] = slotAt'[y] => x = y
    <3>1. ASSUME NEW x \in CachedIn(nodes), NEW y \in CachedIn(nodes), slotAt'[x] = slotAt'[y] PROVE x = y
      BY <2>1, <2>2, <3>1 DEF IsInjective
    <3>2. ASSUME NEW x \in CachedIn(nodes), NEW i \in k + 1 .. b + h PROVE slotAt'[x] # slotAt'[At(key, i)]
      BY <2>2, <2>3
    <3>3. ASSUME NEW i \in k + 1 .. b + h, NEW j \in k + 1 .. b + h, slotAt'[At(key, i)] = slotAt'[At(key, j)] PROVE i = j
      BY <1>10, <2>3, <3>3
    <3> QED
      BY <2>1, <3>1, <3>2, <3>3
  <2> QED
    BY <2>4 DEF IsInjective
<1> QED
  BY <1>4, <1>14, <1>15, <1>16, <1>17, <1>18 DEF SlotsSplit

\* The new checkpoint goes to the node unless it has one, and is returned otherwise.
CkptPassed(key, ckpt) ==
  /\ ckpt = {} \/ \E c : ckpt = {c}
  /\ Range(ckptAt) \cap ckpt = {}
  /\ ckptAt' = IF key \in DOMAIN ckptAt \/ ckpt = {} THEN ckptAt ELSE Put(ckptAt, key, CHOOSE c \in ckpt : TRUE)

\* So a checkpoint ends up with the node or goes back, never both.
LEMMA CkptSplits ==
  ASSUME TreeInv, IsInjective(ckptAt), NEW key, NEW ckpt, CkptPassed(key, ckpt)
  PROVE  CkptsSplit(ckpt, RedundantCkpt(key, ckpt))
<1>0. /\ ckpt = {} \/ \E c : ckpt = {c}
      /\ Range(ckptAt) \cap ckpt = {}
      /\ ckptAt' = IF key \in DOMAIN ckptAt \/ ckpt = {} THEN ckptAt ELSE Put(ckptAt, key, CHOOSE c \in ckpt : TRUE)
  BY DEF CkptPassed
<1>1. DOMAIN ckptAt \subseteq resumable
  BY DEF TreeInv, TreeTypes
<1>2. CASE key \in DOMAIN ckptAt
  <2>1. ckptAt' = ckptAt
    BY <1>0, <1>2
  <2>2. CkptOf(key) \cap ckpt = {}
    BY <1>0, <1>2 DEF CkptOf, Range
  <2>3. RedundantCkpt(key, ckpt) = ckpt
    BY <1>1, <1>2, <2>2 DEF RedundantCkpt
  <2>4. ckpt = {} \cup RedundantCkpt(key, ckpt) /\ {} \cap RedundantCkpt(key, ckpt) = {} /\
        Range(ckptAt') = Range(ckptAt) \cup {}
    BY <2>1, <2>3
  <2> QED
    BY <1>0, <2>1, <2>4 DEF CkptsSplit
<1>3. CASE key \notin DOMAIN ckptAt
  <2>1. RedundantCkpt(key, ckpt) = {}
    BY <1>3 DEF RedundantCkpt
  <2>2. IsInjective(ckptAt') /\ Range(ckptAt') = Range(ckptAt) \cup ckpt
    <3>1. CASE ckpt = {}
      BY <1>0, <1>3, <3>1
    <3>2. CASE ckpt # {}
      <4>1. PICK c : ckpt = {c}
        BY <1>0, <3>2
      <4>2. c = CHOOSE d \in ckpt : TRUE
        BY <4>1
      <4>3. ckptAt' = Put(ckptAt, key, c)
        BY <1>0, <1>3, <3>2, <4>2
      <4>4. /\ DOMAIN ckptAt' = DOMAIN ckptAt \cup {key} /\ ckptAt'[key] = c
            /\ \A n \in DOMAIN ckptAt : ckptAt'[n] = ckptAt[n] /\ ckptAt[n] # c
        BY <1>0, <1>3, <4>1, <4>3 DEF Put, Range
      <4>5. Range(ckptAt') = Range(ckptAt) \cup {c}
        BY <4>4 DEF Range
      <4>6. IsInjective(ckptAt')
        BY <4>4 DEF IsInjective
      <4> QED
        BY <4>1, <4>5, <4>6
    <3> QED
      BY <3>1, <3>2
  <2>3. ckpt = ckpt \cup {} /\ ckpt \cap {} = {}
    OBVIOUS
  <2> QED
    BY <1>0, <2>1, <2>2, <2>3 DEF CkptsSplit
<1> QED
  BY <1>2, <1>3
-----------------------------------------------------------------------------
(* What every step keeps.                                                     *)

\* A split makes no path longer than the key that caused it.
LEMMA SplitShort ==
  ASSUME Tree(nodes), Short, NEW key \in Paged, Len(key) <= MaxLength, NEW n \in SplitNodes(key) \cup {key}
  PROVE  Len(n) <= MaxLength
<1>1. CASE n \in nodes \cup {key}
  BY <1>1 DEF Short
<1>2. CASE n \notin nodes \cup {key}
  <2>1. PICK c \in LeftEdges(key) : n = SplitPoint(c, key)
    BY <1>2 DEF SplitNodes
  <2>2. n \in Paged /\ IsPrefix(n, key)
    BY <2>1, SplitPointIs
  <2>3. Len(n) <= Len(key) /\ Len(n) \in Nat /\ Len(key) \in Nat
    BY <2>2, PagedOrder
  <2> QED
    BY <2>3, CacheAssumption
<1> QED
  BY <1>1, <1>2

\* What a caller holds, and how it relates to what the tree holds.
LEMMA ShareIs ==
  ASSUME CacheInv, NEW c \in DOMAIN held
  PROVE  /\ held[c].slots \in Seq(Slot) /\ held[c].ckpts \in Seq(Ckpt)
         /\ IsInjective(slotAt) /\ IsInjective(held[c].slots) /\ Range(slotAt) \cap Range(held[c].slots) = {}
         /\ IsInjective(ckptAt) /\ IsInjective(held[c].ckpts) /\ Range(ckptAt) \cap Range(held[c].ckpts) = {}
         /\ Range(held[c].slots) \subseteq tokensUsed /\ Range(held[c].ckpts) \subseteq ckptsUsed
<1>1. Owned(slotAt, SlotsOf(held), tokensUsed) /\ Owned(ckptAt, CkptsOf(held), ckptsUsed) /\ HeldTypes
  BY DEF CacheInv
<1>2. c \in DOMAIN SlotsOf(held) /\ SlotsOf(held)[c] = held[c].slots
  BY DEF SlotsOf
<1>3. c \in DOMAIN CkptsOf(held) /\ CkptsOf(held)[c] = held[c].ckpts
  BY DEF CkptsOf
<1>4. IsInjective(slotAt) /\ IsInjective(held[c].slots) /\ Range(slotAt) \cap Range(held[c].slots) = {}
  BY <1>1, <1>2 DEF Owned
<1>5. IsInjective(ckptAt) /\ IsInjective(held[c].ckpts) /\ Range(ckptAt) \cap Range(held[c].ckpts) = {}
  BY <1>1, <1>3 DEF Owned
<1>6. Range(held[c].slots) \subseteq tokensUsed /\ Range(held[c].ckpts) \subseteq ckptsUsed
  BY <1>1, <1>2, <1>3 DEF Owned
<1> QED
  BY <1>1, <1>4, <1>5, <1>6 DEF HeldTypes

\* An empty share: nothing reserved, nothing kept.
LEMMA NothingIs ==
  /\ <<>> \in Seq(Slot) /\ <<>> \in Seq(Ckpt) /\ Len(<<>>) <= 1
  /\ IsInjective(<<>>) /\ Range(<<>>) = {}
  /\ \A c : Without(c) = Keep(c, <<>>, <<>>)
  BY DEF IsInjective, Range, Keep

\* Reservation: slots nobody had, as many as asked for.
LEMMA ReserveKeeps ==
  ASSUME CacheInv, NEW c \in Caller, NEW count, NEW k \in Seq(Ckpt), IsInjective(k), Reserve(c, count, k)
  PROVE  /\ CacheInv' /\ UNCHANGED radixVars
         /\ DOMAIN held' = DOMAIN held \cup {c} /\ \A d \in DOMAIN held : held'[d] = held[d]
         /\ Len(held'[c].slots) = count /\ held'[c].ckpts = k
         /\ tokensUsed \subseteq tokensUsed' /\ ckptsUsed \subseteq ckptsUsed'
<1>1. PICK S, slots : /\ S \in SUBSET (Slot \ tokensUsed) /\ slots \in SetToSeqs(S)
                      /\ Cardinality(S) = count /\ tokensUsed' = tokensUsed \cup S
                      /\ held' = Put(held, c, [slots |-> slots, ckpts |-> k])
  BY DEF Reserve, kSubset, Tokens!Grant
<1>2. /\ c \notin DOMAIN held /\ ckptsUsed' = ckptsUsed \cup Range(k) /\ Range(k) \subseteq Ckpt \ ckptsUsed
      /\ refused' = refused /\ UNCHANGED radixVars
  BY DEF Reserve, Ckpts!Grant
<1>3. IsFiniteSet(S)
  BY <1>1, FS_Subset, CacheAssumption
<1>4. PICK n \in Nat : n = Cardinality(S)
  BY <1>3, FS_CardinalityType
<1>5. slots \in [1 .. n -> S] /\ IsInjective(slots) /\ slots \in Seq(Slot) /\ DOMAIN slots = 1 .. n
  <2>1. slots \in [1 .. n -> S] /\ \A i, j \in 1 .. n : i # j => slots[i] # slots[j]
    BY <1>1, <1>4 DEF SetToSeqs
  <2>2. slots \in [1 .. n -> Slot]
    BY <1>1, <2>1
  <2>3. slots \in Seq(Slot)
    BY <2>2, SeqDef
  <2> QED
    BY <2>1, <2>3 DEF IsInjective
<1>6. Range(slots) = S
  <2>1. slots \in Injection(1 .. n, S)
    BY <1>5 DEF Injection
  <2>2. IsFiniteSet(1 .. n) /\ Cardinality(1 .. n) = n
    <3>1. 1 \in Int /\ n \in Int
      OBVIOUS
    <3>2. IsFiniteSet(1 .. n) /\ Cardinality(1 .. n) = IF 1 > n THEN 0 ELSE n - 1 + 1
      BY <3>1, FS_Interval
    <3> QED
      BY <3>2
  <2>3. slots \in Surjection(1 .. n, S)
    BY <1>3, <1>4, <2>1, <2>2, FS_Injection
  <2> QED
    BY <1>5, <2>3 DEF Surjection, Range
<1>7. Len(slots) = count
  BY <1>1, <1>4, <1>5, LenProperties
<1>8. /\ DOMAIN held' = DOMAIN held \cup {c} /\ \A d \in DOMAIN held : held'[d] = held[d]
      /\ held'[c].slots = slots /\ held'[c].ckpts = k
  BY <1>1, <1>2 DEF Put
<1>9. HeldTypes /\ Owned(slotAt, SlotsOf(held), tokensUsed) /\ Owned(ckptAt, CkptsOf(held), ckptsUsed)
  BY DEF CacheInv
<1>10. Owned(slotAt, SlotsOf(held'), tokensUsed')
  <2>1. PICK share, share2 : share = SlotsOf(held) /\ share2 = SlotsOf(held')
    OBVIOUS
  <2>2. /\ DOMAIN share = DOMAIN held /\ \A d \in DOMAIN held : share[d] = held[d].slots
        /\ DOMAIN share2 = DOMAIN held' /\ \A d \in DOMAIN held' : share2[d] = held'[d].slots
    BY <2>1 DEF SlotsOf
  <2>3. /\ c \notin DOMAIN share /\ DOMAIN share2 = DOMAIN share \cup {c} /\ \A d \in DOMAIN share : share2[d] = share[d]
        /\ share2[c] = slots
    BY <1>2, <1>8, <2>2
  <2>4. IsInjective(share2[c]) /\ Range(share2[c]) \cap tokensUsed = {} /\ tokensUsed' = tokensUsed \cup Range(share2[c])
    BY <1>1, <1>5, <1>6, <2>3
  <2>5. Granted(share, tokensUsed, c, share2, tokensUsed')
    BY <2>3, <2>4 DEF Granted
  <2>6. Owned(slotAt, share, tokensUsed)
    BY <1>9, <2>1
  <2> QED
    BY <2>1, <2>5, <2>6, GrantKeeps
<1>11. Owned(ckptAt, CkptsOf(held'), ckptsUsed')
  <2>1. PICK share, share2 : share = CkptsOf(held) /\ share2 = CkptsOf(held')
    OBVIOUS
  <2>2. /\ DOMAIN share = DOMAIN held /\ \A d \in DOMAIN held : share[d] = held[d].ckpts
        /\ DOMAIN share2 = DOMAIN held' /\ \A d \in DOMAIN held' : share2[d] = held'[d].ckpts
    BY <2>1 DEF CkptsOf
  <2>3. /\ c \notin DOMAIN share /\ DOMAIN share2 = DOMAIN share \cup {c} /\ \A d \in DOMAIN share : share2[d] = share[d]
        /\ share2[c] = k
    BY <1>2, <1>8, <2>2
  <2>4. IsInjective(share2[c]) /\ Range(share2[c]) \cap ckptsUsed = {} /\ ckptsUsed' = ckptsUsed \cup Range(share2[c])
    BY <1>2, <2>3
  <2>5. Granted(share, ckptsUsed, c, share2, ckptsUsed')
    BY <2>3, <2>4 DEF Granted
  <2>6. Owned(ckptAt, share, ckptsUsed)
    BY <1>9, <2>1
  <2> QED
    BY <2>1, <2>5, <2>6, GrantKeeps
<1>12. HeldTypes'
  BY <1>1, <1>2, <1>5, <1>8, <1>9 DEF HeldTypes
<1>13. TreeInv' /\ Short' /\ slotAt' = slotAt /\ ckptAt' = ckptAt
  <2>1. UNCHANGED <<nodes, slotAt, cachedTokens, resumable, ckptAt, lockRef, leases>>
    BY <1>2 DEF radixVars
  <2>2. TreeInv /\ Short
    BY DEF CacheInv
  <2>3. TreeInv'
    BY <2>1, <2>2 DEF TreeInv, TreeTypes, Tree, LockRefExact, LeasePinned, PathValues, CkptOf
  <2> QED
    BY <2>1, <2>2, <2>3 DEF Short
<1> QED
  BY <1>1, <1>2, <1>7, <1>8, <1>10, <1>11, <1>12, <1>13 DEF CacheInv

\* The checkpoints a caller of the cache's own interface reserves.
LEMMA ChoicesAre ==
  ASSUME NEW k \in CkptChoices
  PROVE  k \in Seq(Ckpt) /\ Len(k) <= 1 /\ IsInjective(k)
<1>1. k = <<>> \/ \E x \in Ckpt : k = <<x>>
  BY DEF CkptChoices
<1>2. k \in Seq(Ckpt) /\ Len(k) <= 1
  <2>1. CASE k = <<>>
    BY <2>1, NothingIs
  <2>2. CASE \E x \in Ckpt : k = <<x>>
    BY <2>2
  <2> QED
    BY <1>1, <2>1, <2>2
<1> QED
  BY <1>2, FirstIs

\* Giving a whole reservation back.
LEMMA AbortKeeps ==
  ASSUME CacheInv, NEW c \in DOMAIN held, Abort(c)
  PROVE  CacheInv' /\ UNCHANGED radixVars
<1>1. PICK B, E : /\ B = Range(held[c].slots) /\ E = Range(held[c].ckpts) /\ GiveBack(B, E)
                  /\ held' = Without(c) /\ UNCHANGED <<nodes, slotAt, cachedTokens, resumable, ckptAt, lockRef, leases>>
  BY DEF Abort, radixVars
<1>2. TreeInv /\ Short
  BY DEF CacheInv
<1>3. TreeInv'
  BY <1>1, <1>2 DEF TreeInv, TreeTypes, Tree, LockRefExact, LeasePinned, PathValues, CkptOf
<1>4. Short'
  BY <1>1, <1>2 DEF Short
<1>5. SlotsSplit(B, B) /\ CkptsSplit(E, E)
  <2>1. /\ B = {} \cup B /\ {} \cap B = {} /\ IsInjective(slotAt') /\ Range(slotAt') = Range(slotAt) \cup {}
        /\ E = {} \cup E /\ {} \cap E = {} /\ IsInjective(ckptAt') /\ Range(ckptAt') = Range(ckptAt) \cup {}
    BY <1>1, ShareIs
  <2>2. SlotsSplit(B, B)
    BY <2>1 DEF SlotsSplit
  <2>3. CkptsSplit(E, E)
    BY <2>1 DEF CkptsSplit
  <2> QED
    BY <2>2, <2>3
<1>6. HandsOver(c, <<>>, <<>>, B, B, E, E)
  BY <1>1, <1>5, NothingIs DEF HandsOver
<1>7. CacheInv'
  BY <1>3, <1>4, <1>6, CallerStep
<1> QED
  BY <1>1, <1>7 DEF radixVars

\* match_prefix and release change the tree and its leases only.
LEMMA PoolsStay ==
  ASSUME CacheInv, TreeInv', Short', UNCHANGED <<slotAt, ckptAt, tokensUsed, ckptsUsed, held, refused>>
  PROVE  CacheInv'
<1>1. HeldTypes /\ Owned(slotAt, SlotsOf(held), tokensUsed) /\ Owned(ckptAt, CkptsOf(held), ckptsUsed)
  BY DEF CacheInv
<1>2. HeldTypes'
  BY <1>1 DEF HeldTypes
<1>3. Owned(slotAt, SlotsOf(held), tokensUsed)' /\ Owned(ckptAt, CkptsOf(held), ckptsUsed)'
  BY <1>1, SMTT(30) DEF Owned, SlotsOf, CkptsOf
<1> QED
  BY <1>2, <1>3 DEF CacheInv

\* match_prefix: an edge may be split and a path is locked; no slot changes
\* hands.
LEMMA LookupKeeps ==
  ASSUME CacheInv, NEW l \in LeaseId, NEW key \in Strings, Len(key) <= MaxLength, MatchPrefix(l, key),
         UNCHANGED <<tokensUsed, ckptsUsed, held, refused>>
  PROVE  CacheInv'
<1>1. key \in Strings /\ Len(key) <= MaxLength /\ Len(key) \in Nat
  BY UptoUpto
<1>2. MatchPrefix(l, key) /\ UNCHANGED <<tokensUsed, ckptsUsed, held, refused>>
  OBVIOUS
<1>3. TreeInv /\ Short
  BY DEF CacheInv
<1>4. TreeInv' /\ \E usable \in Paged : IsPrefix(usable, key) /\ nodes' = SplitNodes(usable)
  BY <1>1, <1>2, <1>3, MatchKeeps
<1>5. PICK usable \in Paged : IsPrefix(usable, key) /\ nodes' = SplitNodes(usable)
  BY <1>4
<1>6. Len(usable) <= MaxLength
  <2>1. Len(usable) <= Len(key) /\ Len(usable) \in Nat
    BY <1>1, <1>5, PrefixOrder, PagedOrder DEF Paged
  <2> QED
    BY <1>1, <2>1, CacheAssumption
<1>7. Short'
  BY <1>3, <1>5, <1>6, SplitShort DEF Short, TreeInv
<1>8. UNCHANGED <<slotAt, ckptAt>>
  BY <1>2 DEF MatchPrefix
<1> QED
  BY <1>2, <1>4, <1>7, <1>8, PoolsStay

\* release: a path is unlocked; no slot changes hands.
LEMMA UnlockKeeps ==
  ASSUME CacheInv, NEW l \in DOMAIN leases, ReleaseMatch(l)
  PROVE  CacheInv'
<1>1. ReleaseLease(l) /\ UNCHANGED <<tokensUsed, ckptsUsed, held, refused>> /\ UNCHANGED <<nodes, slotAt, ckptAt>>
  BY DEF ReleaseMatch, ReleaseLease, poolVars
<1>2. TreeInv /\ Short
  BY DEF CacheInv
<1>3. TreeInv'
  BY <1>1, <1>2, ReleaseKeeps
<1>4. Short'
  BY <1>1, <1>2 DEF Short
<1> QED
  BY <1>1, <1>3, <1>4, PoolsStay

\* An insertion into the tree that the pools can follow: values of a prefix the
\* tree has, then slots of the caller's; and the checkpoint the caller has, if any.
LEMMA InsertParts ==
  ASSUME CacheInv, NEW c \in DOMAIN held, NEW key \in Paged, Len(key) <= MaxLength,
         NEW q \in nodes \cup {Root}, IsPrefix(q, key),
         NEW slots \in Seq(Slot), IsInjective(slots), Range(slots) \subseteq Range(held[c].slots),
         NEW k \in SUBSET Range(held[c].ckpts), k = {} \/ \E x : k = {x},
         NEW L \in SUBSET LeaseId, L = {} \/ \E l : L = {l},
         NEW values, values = PathValues(q) \o slots, Insert(key, values, k, L)
  PROVE  /\ TreeInv' /\ Short'
         /\ SlotsSplit(Range(slots), RedundantSlots(key, values))
         /\ CkptsSplit(k, RedundantCkpt(key, k))
<1>1. TreeInv /\ Short /\ Tree(nodes)
  BY DEF CacheInv, TreeInv
<1>2. /\ held[c].ckpts \in Seq(Ckpt)
      /\ IsInjective(slotAt) /\ Range(slotAt) \cap Range(held[c].slots) = {}
      /\ IsInjective(ckptAt) /\ Range(ckptAt) \cap Range(held[c].ckpts) = {}
  BY ShareIs
<1>3. k \in SUBSET Ckpt
  BY <1>2, LenProperties DEF Range
<1>4. Range(slotAt) \cap Range(slots) = {}
  BY <1>2
<1>5. Insert(key, values, k, L)
  OBVIOUS
<1>6. values \in Seq(Slot) /\ SlotsSplit(Range(slots), RedundantSlots(key, values))
  BY <1>1, <1>2, <1>4, <1>5, InsertSplits
<1>7. TreeInv'
  BY <1>1, <1>3, <1>5, <1>6, InsertKeeps
<1>8. Short'
  <2>1. nodes' = SplitNodes(key) \cup {key}
    BY <1>5 DEF Insert
  <2>2. \A n \in SplitNodes(key) \cup {key} : Len(n) <= MaxLength
    BY <1>1, SplitShort
  <2> QED
    BY <2>1, <2>2 DEF Short
<1>9. CkptPassed(key, k)
  <2>1. ckptAt' = IF key \in DOMAIN ckptAt \/ k = {} THEN ckptAt ELSE Put(ckptAt, key, CHOOSE x \in k : TRUE)
    BY <1>5 DEF Insert
  <2> QED
    BY <1>2, <1>3, <2>1 DEF CkptPassed
<1>10. CkptsSplit(k, RedundantCkpt(key, k))
  BY <1>1, <1>2, <1>9, CkptSplits
<1> QED
  BY <1>3, <1>6, <1>7, <1>8, <1>10

\* insert and insert_and_match with a whole reservation.
LEMMA InsertHeldIs ==
  ASSUME CacheInv, NEW c \in DOMAIN held, NEW key, NEW b \in Bases, NEW L, InsertHeld(c, key, b, L)
  PROVE  \E q \in nodes \cup {Root} :
            /\ IsPrefix(q, key)
            /\ Insert(key, PathValues(q) \o held[c].slots, First(held[c].ckpts), L)
            /\ Settle(RedundantSlots(key, PathValues(q) \o held[c].slots), RedundantCkpt(key, First(held[c].ckpts)))
            /\ held' = Without(c)
            /\ Len(key) = Len(PathValues(q) \o held[c].slots) /\ Len(key) % PageSize = 0 /\ Len(key) > 0
<1>1. TreeInv
  BY DEF CacheInv
<1>2. CASE b = {}
  <2>1. /\ IsPrefix(Root, key) /\ Insert(key, held[c].slots, First(held[c].ckpts), L)
        /\ Settle(RedundantSlots(key, held[c].slots), RedundantCkpt(key, First(held[c].ckpts)))
        /\ held' = Without(c)
    BY <1>2 DEF InsertHeld, InsertAndSettle
  <2>2. PathValues(Root) \o held[c].slots = held[c].slots
    <3>1. PathValues(Root) = <<>>
      BY DEF PathValues, Root
    <3>2. held[c].slots \in Seq(Slot)
      BY ShareIs
    <3> QED
      BY <3>1, <3>2, ConcatEmptySeq
  <2>3. Len(key) = Len(held[c].slots) /\ Len(key) % PageSize = 0 /\ Len(key) > 0
    BY <2>1 DEF Insert, Insertable
  <2> QED
    BY <2>1, <2>2, <2>3
<1>3. CASE b # {}
  <2>1. PICK l \in DOMAIN leases : b = {l}
    BY <1>3 DEF Bases
  <2>2. (CHOOSE m \in b : TRUE) = l
    BY <2>1
  <2>3. PICK q : q = leases[l].node /\ q \in nodes \cup {Root} /\ leases[l].values = PathValues(q)
    BY <1>1, LeasedNodes DEF TreeInv, LeasePinned
  <2>4. /\ IsPrefix(q, key) /\ Insert(key, PathValues(q) \o held[c].slots, First(held[c].ckpts), L)
        /\ Settle(RedundantSlots(key, PathValues(q) \o held[c].slots), RedundantCkpt(key, First(held[c].ckpts)))
        /\ held' = Without(c)
    BY <1>3, <2>2, <2>3 DEF InsertHeld, InsertAndSettle
  <2>5. Len(key) = Len(PathValues(q) \o held[c].slots) /\ Len(key) % PageSize = 0 /\ Len(key) > 0
    BY <2>4 DEF Insert, Insertable
  <2> QED
    BY <2>3, <2>4, <2>5
<1> QED
  BY <1>2, <1>3

\* insert and insert_and_match with all a caller holds: the tree takes what it
\* lacks, the pools take the rest.
LEMMA InsertHeldKeeps ==
  ASSUME CacheInv, NEW c \in DOMAIN held, Len(held[c].ckpts) <= 1, NEW key \in Keys, NEW b \in Bases, NEW L \in LeaseChoices,
         InsertHeld(c, key, b, L)
  PROVE  CacheInv'
<1>1. PICK q \in nodes \cup {Root} :
        /\ IsPrefix(q, key)
        /\ Insert(key, PathValues(q) \o held[c].slots, First(held[c].ckpts), L)
        /\ Settle(RedundantSlots(key, PathValues(q) \o held[c].slots), RedundantCkpt(key, First(held[c].ckpts)))
        /\ held' = Without(c)
        /\ Len(key) % PageSize = 0
  BY InsertHeldIs
<1>2. key \in Paged /\ Len(key) <= MaxLength
  BY <1>1, KeysAre DEF Paged, Whole
<1>3. L \in SUBSET LeaseId /\ (L = {} \/ \E l : L = {l})
  BY DEF LeaseChoices
<1>4. held[c].slots \in Seq(Slot) /\ IsInjective(held[c].slots) /\ Range(held[c].slots) \subseteq Range(held[c].slots)
  BY ShareIs
<1>5. PICK values, k, B, E :
        /\ values = PathValues(q) \o held[c].slots /\ k = First(held[c].ckpts)
        /\ B = RedundantSlots(key, values) /\ E = RedundantCkpt(key, k)
        /\ Insert(key, values, k, L) /\ Settle(B, E)
  BY <1>1
<1>6. k = Range(held[c].ckpts) /\ (k = {} \/ \E x : k = {x})
  <2>1. held[c].ckpts \in Seq(Ckpt)
    BY ShareIs
  <2> QED
    BY <1>5, <2>1, FirstIs
<1>7. TreeInv' /\ Short' /\ SlotsSplit(Range(held[c].slots), B) /\ CkptsSplit(Range(held[c].ckpts), E)
  <2>1. TreeInv' /\ Short' /\ SlotsSplit(Range(held[c].slots), B) /\ CkptsSplit(k, E)
    BY <1>1, <1>2, <1>3, <1>4, <1>5, <1>6, InsertParts
  <2> QED
    BY <1>6, <2>1
<1>8. HandsOver(c, <<>>, <<>>, Range(held[c].slots), B, Range(held[c].ckpts), E)
  <2>1. held' = Keep(c, <<>>, <<>>)
    BY <1>1, NothingIs
  <2> QED
    BY <1>5, <1>7, <2>1, NothingIs DEF HandsOver
<1> QED
  BY <1>7, <1>8, CallerStep

\* extend_match: one token more under a lease.
LEMMA ExtendMatchKeeps ==
  ASSUME CacheInv, NEW c \in DOMAIN held, Len(held[c].ckpts) <= 1, NEW l \in DOMAIN leases,
         NEW m \in LeaseId, NEW token \in Token,
         ExtendMatch(c, l, m, token)
  PROVE  CacheInv'
<1>1. TreeInv /\ Short
  BY DEF CacheInv
<1>2. PICK s, child, slot, k, last :
        /\ s = leases[l].node /\ child = Append(s, token) /\ slot = held[c].slots[1] /\ k = First(held[c].ckpts)
        /\ last = At(child, Len(child))
  OBVIOUS
<1>3. /\ Len(held[c].slots) = 1 /\ Len(s) < MaxLength /\ Extend(l, m, token, slot, k)
      /\ GiveBack(IF child \in nodes THEN {slot} \ {slotAt[last]} ELSE {}, RedundantCkpt(child, k))
      /\ held' = Without(c)
  BY <1>2 DEF ExtendMatch
<1>4. /\ held[c].slots \in Seq(Slot) /\ held[c].ckpts \in Seq(Ckpt)
      /\ IsInjective(slotAt) /\ Range(slotAt) \cap Range(held[c].slots) = {}
      /\ IsInjective(ckptAt) /\ Range(ckptAt) \cap Range(held[c].ckpts) = {}
  BY ShareIs
<1>5. slot \in Slot /\ Range(held[c].slots) = {slot}
  <2>1. DOMAIN held[c].slots = {1} /\ held[c].slots[1] \in Slot
    BY <1>3, <1>4, LenProperties
  <2> QED
    BY <1>2, <2>1 DEF Range
<1>6. k = Range(held[c].ckpts) /\ k \in SUBSET Ckpt /\ (k = {} \/ \E x : k = {x})
  BY <1>2, <1>4, FirstIs
<1>7. TreeInv'
  BY <1>1, <1>3, <1>5, <1>6, ExtendKeeps
<1>8. /\ Len(child) = Len(s) + 1 /\ nodes' = nodes \cup {child} /\ child \in Paged
      /\ last \in CachedIn(nodes) <=> child \in nodes
      /\ slotAt' = IF child \in nodes THEN slotAt ELSE Put(slotAt, last, slot)
  BY <1>1, <1>2, <1>3, <1>5, ExtendValues, ZenonT(60)
<1>9. Short'
  <2>1. Len(s) \in Nat
    BY <1>1, <1>2, LeasedNodes, PagedOrder
  <2>2. Len(child) <= MaxLength
    BY <1>3, <1>8, <2>1, CacheAssumption
  <2> QED
    BY <1>1, <1>8, <2>2 DEF Short
<1>10. DOMAIN slotAt = CachedIn(nodes)
  BY <1>1 DEF TreeInv, TreeTypes
<1>11. PICK A, B : /\ B = IF child \in nodes THEN {slot} \ {slotAt[last]} ELSE {}
                   /\ A = IF child \in nodes THEN {} ELSE {slot}
  OBVIOUS
<1>12. Range(held[c].slots) = A \cup B /\ A \cap B = {} /\ IsInjective(slotAt') /\ Range(slotAt') = Range(slotAt) \cup A
  <2>1. CASE child \in nodes
    <3>1. slotAt[last] \in Range(slotAt)
      BY <1>8, <1>10, <2>1 DEF Range
    <3>2. slotAt[last] # slot
      BY <1>4, <1>5, <3>1
    <3> QED
      BY <1>4, <1>5, <1>8, <1>11, <2>1, <3>2
  <2>2. CASE child \notin nodes
    <3>1. /\ DOMAIN slotAt' = DOMAIN slotAt \cup {last} /\ last \notin DOMAIN slotAt
          /\ slotAt'[last] = slot /\ \A p \in DOMAIN slotAt : slotAt'[p] = slotAt[p]
      BY <1>8, <1>10, <2>2 DEF Put
    <3>2. \A p \in DOMAIN slotAt : slotAt[p] # slot
      BY <1>4, <1>5 DEF Range
    <3>3. IsInjective(slotAt')
      BY <1>4, <3>1, <3>2 DEF IsInjective
    <3>4. Range(slotAt') = Range(slotAt) \cup {slot}
      BY <3>1 DEF Range
    <3> QED
      BY <1>5, <1>11, <2>2, <3>3, <3>4
  <2> QED
    BY <2>1, <2>2
<1>13. SlotsSplit(Range(held[c].slots), B)
  BY <1>12 DEF SlotsSplit
<1>14. PICK E : E = RedundantCkpt(child, k)
  OBVIOUS
<1>15. CkptsSplit(k, E)
  <2>1. ckptAt' = IF child \in DOMAIN ckptAt \/ k = {} THEN ckptAt ELSE Put(ckptAt, child, CHOOSE x \in k : TRUE)
    BY <1>2, <1>3 DEF Extend
  <2>2. CkptPassed(child, k)
    BY <1>4, <1>6, <2>1 DEF CkptPassed
  <2> QED
    BY <1>1, <1>4, <1>14, <2>2, CkptSplits
<1>16. HandsOver(c, <<>>, <<>>, Range(held[c].slots), B, Range(held[c].ckpts), E)
  <2>1. held' = Keep(c, <<>>, <<>>) /\ GiveBack(B, E)
    BY <1>3, <1>11, <1>14, NothingIs
  <2> QED
    BY <1>6, <1>13, <1>15, <2>1, NothingIs DEF HandsOver
<1> QED
  BY <1>7, <1>9, <1>16, CallerStep

\* A sequence that repeats nothing, cut in three.
CutInThree(S, s, m, n, a, b, d) ==
  /\ s \in Seq(S) /\ IsInjective(s)
  /\ m \in Nat /\ n \in Nat /\ m <= n /\ n <= Len(s)
  /\ a = SubSeq(s, 1, m) /\ b = SubSeq(s, m + 1, n) /\ d = SubSeq(s, n + 1, Len(s))

\* The accepted pages, the rest of the accepted head and the rejected tail of a
\* draft share no slot.
LEMMA ThreeParts ==
  ASSUME NEW S, NEW s, NEW m, NEW n, NEW a, NEW b, NEW d, CutInThree(S, s, m, n, a, b, d)
  PROVE  /\ a \in Seq(S) /\ IsInjective(a) /\ Len(a) = m /\ b \in Seq(S) /\ IsInjective(b)
         /\ Range(s) = Range(a) \cup Range(b) \cup Range(d)
         /\ Range(a) \cap Range(b) = {} /\ Range(a) \cap Range(d) = {} /\ Range(b) \cap Range(d) = {}
<1>1. /\ s \in Seq(S) /\ IsInjective(s)
      /\ m \in Nat /\ n \in Nat /\ m <= n /\ n <= Len(s)
      /\ a = SubSeq(s, 1, m) /\ b = SubSeq(s, m + 1, n) /\ d = SubSeq(s, n + 1, Len(s))
  BY DEF CutInThree
<1>2. Len(s) \in Nat /\ DOMAIN s = 1 .. Len(s)
  BY <1>1, LenProperties
<1>3. a \in Seq(S) /\ IsInjective(a) /\ Len(a) = m /\ Range(a) = {s[i] : i \in 1 .. m}
  <2>1. 0 \in Nat /\ 0 <= m /\ m <= Len(s) /\ 0 + 1 = 1 /\ m - 0 = m
    BY <1>1, <1>2
  <2>2. CutOut(s, 0, m, a)
    BY <1>1, <2>1 DEF CutOut
  <2>3. PieceOf(S, s, 0, m, a)
    BY <1>1, <2>2, CutIs
  <2> QED
    BY <2>1, <2>3 DEF PieceOf
<1>4. b \in Seq(S) /\ IsInjective(b) /\ Range(b) = {s[i] : i \in m + 1 .. n}
  <2>1. CutOut(s, m, n, b)
    BY <1>1 DEF CutOut
  <2>2. PieceOf(S, s, m, n, b)
    BY <1>1, <2>1, CutIs
  <2> QED
    BY <2>2 DEF PieceOf
<1>5. Range(d) = {s[i] : i \in n + 1 .. Len(s)}
  <2>1. Len(s) <= Len(s)
    BY <1>2
  <2>2. CutOut(s, n, Len(s), d)
    BY <1>1, <1>2, <2>1 DEF CutOut
  <2>3. PieceOf(S, s, n, Len(s), d)
    BY <1>1, <2>2, CutIs
  <2> QED
    BY <2>3 DEF PieceOf
<1>6. \A i, j \in 1 .. Len(s) : s[i] = s[j] => i = j
  BY <1>1, <1>2 DEF IsInjective
<1>7. /\ \A i \in 1 .. Len(s) : i \in 1 .. m \/ i \in m + 1 .. n \/ i \in n + 1 .. Len(s)
      /\ \A i \in 1 .. m : i \in 1 .. Len(s) /\ i \notin m + 1 .. n /\ i \notin n + 1 .. Len(s)
      /\ \A i \in m + 1 .. n : i \in 1 .. Len(s) /\ i \notin n + 1 .. Len(s)
      /\ \A i \in n + 1 .. Len(s) : i \in 1 .. Len(s)
  BY <1>1, <1>2
<1>8. Range(s) = Range(a) \cup Range(b) \cup Range(d)
  <2>1. Range(s) = {s[i] : i \in 1 .. Len(s)}
    BY <1>2 DEF Range
  <2> QED
    BY <1>3, <1>4, <1>5, <1>7, <2>1
<1>9. Range(a) \cap Range(b) = {}
  BY <1>3, <1>4, <1>6, <1>7
<1>10. Range(a) \cap Range(d) = {}
  BY <1>3, <1>5, <1>6, <1>7
<1>11. Range(b) \cap Range(d) = {}
  BY <1>4, <1>5, <1>6, <1>7
<1> QED
  BY <1>1, <1>3, <1>4, <1>8, <1>9, <1>10, <1>11

\* commit_speculative: whole pages of the accepted head go to the tree, the rest of
\* the head stays, the rejected tail goes back.
LEMMA CommitKeeps ==
  ASSUME CacheInv, NEW c \in DOMAIN held, Len(held[c].ckpts) <= 1, NEW key \in Keys, NEW accepted \in 0 .. MaxLength,
         CommitSpeculative(c, key, accepted)
  PROVE  CacheInv'
<1>1. TreeInv /\ Short
  BY DEF CacheInv
<1>2. PICK slots, ckpts, pages, page, u, rest, R :
        /\ slots = held[c].slots /\ ckpts = held[c].ckpts /\ pages = Aligned(accepted) /\ page = Upto(key, pages)
        /\ u = SubSeq(slots, 1, pages) /\ rest = SubSeq(slots, pages + 1, accepted)
        /\ R = Range(SubSeq(slots, accepted + 1, Len(slots)))
  OBVIOUS
<1>3. /\ Len(key) = Len(slots) /\ accepted \in 0 .. Len(slots)
      /\ held' = Keep(c, rest, IF accepted > 0 /\ pages = 0 THEN ckpts ELSE <<>>)
      /\ pages = 0 => /\ Settle(R, IF accepted = 0 THEN First(ckpts) ELSE {})
                      /\ UNCHANGED <<nodes, slotAt, cachedTokens, resumable, ckptAt, lockRef, leases>>
      /\ pages # 0 => /\ Insert(page, u, First(ckpts), {})
                      /\ Settle(R \cup RedundantSlots(page, u), RedundantCkpt(page, First(ckpts)))
  BY <1>2 DEF CommitSpeculative, Upto, radixVars
<1>4. /\ slots \in Seq(Slot) /\ ckpts \in Seq(Ckpt) /\ IsInjective(ckpts) /\ IsInjective(slots)
      /\ IsInjective(slotAt) /\ IsInjective(ckptAt)
  BY <1>2, ShareIs
<1>5. Len(slots) \in Nat /\ accepted \in Nat /\ pages \in Nat /\ pages <= accepted /\ accepted <= Len(slots) /\ Whole(pages)
  <2>1. Len(slots) \in Nat
    BY <1>4, LenProperties
  <2>2. accepted \in Nat /\ accepted <= Len(slots)
    BY <1>3, <2>1
  <2> QED
    BY <1>2, <2>1, <2>2, PagesAre
<1>6. /\ u \in Seq(Slot) /\ IsInjective(u) /\ Len(u) = pages /\ rest \in Seq(Slot) /\ IsInjective(rest)
      /\ Range(slots) = Range(u) \cup Range(rest) \cup R
      /\ Range(u) \cap Range(rest) = {} /\ Range(u) \cap R = {} /\ Range(rest) \cap R = {}
  <2>1. PICK d : d = SubSeq(slots, accepted + 1, Len(slots))
    OBVIOUS
  <2>2. CutInThree(Slot, slots, pages, accepted, u, rest, d)
    BY <1>2, <1>4, <1>5, <2>1 DEF CutInThree
  <2>3. R = Range(d)
    BY <1>2, <2>1
  <2> QED
    BY <2>2, <2>3, ThreeParts
<1>7. First(ckpts) = Range(ckpts) /\ (First(ckpts) = {} \/ \E x : First(ckpts) = {x})
  BY <1>2, <1>4, FirstIs
<1>8. CASE pages = 0
  <2>1. TreeInv'
    BY <1>1, <1>3, <1>8 DEF TreeInv, TreeTypes, Tree, LockRefExact, LeasePinned, PathValues, CkptOf
  <2>2. Short'
    BY <1>1, <1>3, <1>8 DEF Short
  <2>3. Range(u) = {}
    <3>1. u = <<>>
      BY <1>6, <1>8, EmptySeq
    <3> QED
      BY <3>1, NothingIs
  <2>4. SlotsSplit(R, R)
    <3>1. R = {} \cup R /\ {} \cap R = {} /\ IsInjective(slotAt') /\ Range(slotAt') = Range(slotAt) \cup {}
      BY <1>3, <1>4, <1>8
    <3> QED
      BY <3>1 DEF SlotsSplit
  <2>5. \A V : CkptsSplit(V, V)
    <3>1. ASSUME NEW V PROVE CkptsSplit(V, V)
      <4>1. V = {} \cup V /\ {} \cap V = {} /\ IsInjective(ckptAt') /\ Range(ckptAt') = Range(ckptAt) \cup {}
        BY <1>3, <1>4, <1>8
      <4> QED
        BY <4>1 DEF CkptsSplit
    <3> QED
      BY <3>1
  <2>6. Range(slots) = R \cup Range(rest) /\ R \cap Range(rest) = {}
    BY <1>6, <2>3
  <2>7. CASE accepted = 0
    <3>1. /\ held' = Keep(c, rest, <<>>) /\ Settle(R, Range(ckpts))
          /\ Range(ckpts) = Range(ckpts) \cup Range(<<>>) /\ Range(ckpts) \cap Range(<<>>) = {}
      BY <1>3, <1>7, <1>8, <2>7, NothingIs
    <3>2. HandsOver(c, rest, <<>>, R, R, Range(ckpts), Range(ckpts))
      BY <1>2, <1>6, <2>4, <2>5, <2>6, <3>1, NothingIs DEF HandsOver
    <3> QED
      BY <2>1, <2>2, <3>2, CallerStep
  <2>8. CASE accepted # 0
    <3>1. held' = Keep(c, rest, ckpts) /\ Settle(R, {})
      BY <1>3, <1>5, <1>8, <2>8
    <3>2. HandsOver(c, rest, ckpts, R, R, {}, {})
      BY <1>2, <1>4, <1>6, <2>4, <2>5, <2>6, <3>1 DEF HandsOver
    <3> QED
      BY <2>1, <2>2, <3>2, CallerStep
  <2> QED
    BY <2>7, <2>8
<1>9. CASE pages # 0
  <2>1. key \in Strings /\ Len(key) <= MaxLength /\ Len(key) \in Nat
    BY KeysAre, UptoUpto
  <2>2. page \in Paged /\ Len(page) = pages /\ pages <= MaxLength
    <3>1. pages \in 0 .. Len(key)
      BY <1>3, <1>5
    <3>2. page \in Strings /\ Len(page) = pages
      BY <1>2, <2>1, <3>1, UptoIs
    <3>3. pages <= MaxLength
      BY <2>1, <3>1, CacheAssumption
    <3> QED
      BY <1>5, <3>2, <3>3 DEF Paged
  <2>3. u = PathValues(Root) \o u
    <3>1. PathValues(Root) = <<>>
      BY DEF PathValues, Root
    <3> QED
      BY <1>6, <3>1, ConcatEmptySeq
  <2>4. Range(u) \subseteq Range(held[c].slots) /\ IsPrefix(Root, page) /\ Root \in nodes \cup {Root}
    BY <1>2, <1>6, <2>2, PagedOrder
  <2>5. {} \in SUBSET LeaseId /\ Insert(page, u, First(held[c].ckpts), {})
    BY <1>2, <1>3, <1>9
  <2>6. PICK k : k = First(held[c].ckpts) /\ k = Range(held[c].ckpts) /\ (k = {} \/ \E x : k = {x})
    BY <1>2, <1>7
  <2>7. Len(page) <= MaxLength
    BY <2>2
  <2>8. /\ TreeInv' /\ Short' /\ SlotsSplit(Range(u), RedundantSlots(page, u))
        /\ CkptsSplit(Range(held[c].ckpts), RedundantCkpt(page, First(held[c].ckpts)))
    <3>1. Insert(page, u, k, {})
      BY <2>5, <2>6
    <3>2. /\ TreeInv' /\ Short' /\ SlotsSplit(Range(u), RedundantSlots(page, u))
          /\ CkptsSplit(k, RedundantCkpt(page, k))
      BY <1>6, <2>2, <2>3, <2>4, <2>5, <2>6, <2>7, <3>1, InsertParts
    <3> QED
      BY <2>6, <3>2
  <2>9. SlotsSplit(Range(u) \cup R, R \cup RedundantSlots(page, u))
    <3>1. PICK A : /\ Range(u) = A \cup RedundantSlots(page, u) /\ A \cap RedundantSlots(page, u) = {}
                   /\ IsInjective(slotAt') /\ Range(slotAt') = Range(slotAt) \cup A
      BY <2>8 DEF SlotsSplit
    <3>2. /\ Range(u) \cup R = A \cup (R \cup RedundantSlots(page, u))
          /\ A \cap (R \cup RedundantSlots(page, u)) = {}
      BY <1>6, <3>1
    <3> QED
      BY <3>1, <3>2 DEF SlotsSplit
  <2>10. held' = Keep(c, rest, <<>>) /\ Settle(R \cup RedundantSlots(page, u), RedundantCkpt(page, First(ckpts)))
    BY <1>3, <1>9
  <2>11. /\ Range(slots) = (Range(u) \cup R) \cup Range(rest) /\ (Range(u) \cup R) \cap Range(rest) = {}
         /\ Range(ckpts) = Range(ckpts) \cup Range(<<>>) /\ Range(ckpts) \cap Range(<<>>) = {}
    BY <1>6, NothingIs
  <2>12. HandsOver(c, rest, <<>>, Range(u) \cup R, R \cup RedundantSlots(page, u),
                   Range(ckpts), RedundantCkpt(page, First(ckpts)))
    BY <1>2, <1>6, <2>8, <2>9, <2>10, <2>11, NothingIs DEF HandsOver
  <2> QED
    BY <2>8, <2>12, CallerStep
<1> QED
  BY <1>8, <1>9

\* Eviction: the slots and the checkpoint of a leaf go back.
LEMMA EvictCacheKeeps ==
  ASSUME CacheInv, NEW n, Evict(n)
  PROVE  CacheInv'
<1>1. TreeInv /\ Short /\ HeldTypes /\ Owned(slotAt, SlotsOf(held), tokensUsed) /\ Owned(ckptAt, CkptsOf(held), ckptsUsed)
  BY DEF CacheInv
<1>2. EvictLeaf(n) /\ Settle({slotAt[p] : p \in EdgeOf(n)}, CkptOf(n)) /\ held' = held
  BY DEF Evict
<1>3. /\ nodes' = nodes \ {n} /\ CachedIn(nodes) = CachedIn(nodes') \cup EdgeOf(n) /\ EdgeOf(n) \cap CachedIn(nodes') = {}
      /\ slotAt' = [p \in CachedIn(nodes') |-> slotAt[p]]
  BY <1>1, <1>2, EvictValues
<1>4. TreeInv' /\ Short'
  <2>1. TreeInv'
    BY <1>1, <1>2, EvictKeeps
  <2>2. Short'
    BY <1>1, <1>3 DEF Short
  <2> QED
    BY <2>1, <2>2
<1>5. PICK B, E : B = {slotAt[p] : p \in EdgeOf(n)} /\ E = CkptOf(n)
  OBVIOUS
<1>6. Owned(slotAt', SlotsOf(held), tokensUsed \ B) /\ B \subseteq tokensUsed
  <2>1. PICK D : D = CachedIn(nodes')
    OBVIOUS
  <2>2. DOMAIN slotAt = CachedIn(nodes)
    BY <1>1 DEF TreeInv, TreeTypes
  <2>3. D \subseteq DOMAIN slotAt /\ slotAt' = [p \in D |-> slotAt[p]] /\ DOMAIN slotAt \ D = EdgeOf(n)
    BY <1>3, <2>1, <2>2
  <2>4. B = {slotAt[p] : p \in DOMAIN slotAt \ D}
    BY <1>5, <2>3
  <2>5. DroppedTo(slotAt, tokensUsed, D, B, slotAt', tokensUsed \ B)
    BY <2>3, <2>4 DEF DroppedTo
  <2> QED
    BY <1>1, <2>5, DropKeeps
<1>7. Owned(ckptAt', CkptsOf(held), ckptsUsed \ E) /\ E \subseteq ckptsUsed
  <2>1. PICK D : D = DOMAIN ckptAt \ {n}
    OBVIOUS
  <2>2. D \subseteq DOMAIN ckptAt /\ ckptAt' = [m \in D |-> ckptAt[m]]
    BY <1>2, <2>1 DEF EvictLeaf
  <2>3. E = {ckptAt[p] : p \in DOMAIN ckptAt \ D}
    BY <1>5, <2>1 DEF CkptOf
  <2>4. DroppedTo(ckptAt, ckptsUsed, D, E, ckptAt', ckptsUsed \ E)
    BY <2>2, <2>3 DEF DroppedTo
  <2> QED
    BY <1>1, <2>4, DropKeeps
<1>8. tokensUsed' = tokensUsed \ B /\ ckptsUsed' = ckptsUsed \ E /\ refused' = FALSE
  BY <1>1, <1>2, <1>5, <1>6, <1>7 DEF Settle, HeldTypes
<1>9. HeldTypes'
  BY <1>1, <1>2, <1>8 DEF HeldTypes
<1>10. Owned(slotAt, SlotsOf(held), tokensUsed)' /\ Owned(ckptAt, CkptsOf(held), ckptsUsed)'
  BY <1>2, <1>6, <1>7, <1>8
<1> QED
  BY <1>4, <1>9, <1>10 DEF CacheInv
-----------------------------------------------------------------------------
(* The theorems.                                                              *)

\* The inductive invariant holds at startup ...
LEMMA CacheStarts ==
  ASSUME Init
  PROVE  CacheInv /\ OneCkpt
<1>1. /\ nodes = {} /\ slotAt = <<>> /\ cachedTokens = 0 /\ resumable = {} /\ ckptAt = <<>>
      /\ lockRef = <<>> /\ leases = <<>> /\ held = <<>> /\ tokensUsed = {} /\ ckptsUsed = {} /\ refused = FALSE
  BY DEF Init, RadixInit, Tokens!PoolInit, Ckpts!PoolInit
<1>2. DOMAIN <<>> = {} /\ IsFiniteSet({}) /\ Cardinality({}) = 0
  BY FS_EmptySet
<1>3. CachedIn(nodes) = {} /\ \A S : <<>> \in [{} -> S]
  BY <1>1 DEF CachedIn
<1>4. TreeTypes
  BY <1>1, <1>2, <1>3 DEF TreeTypes
<1>5. Tree(nodes) /\ LockRefExact /\ LeasePinned /\ Short
  BY <1>1, <1>2 DEF Tree, LockRefExact, LeasePinned, Short
<1>6. HeldTypes
  BY <1>1, <1>2 DEF HeldTypes
<1>7. \A share : DOMAIN share = {} => Owned(<<>>, share, {})
  BY NothingIs DEF Owned
<1>8. DOMAIN SlotsOf(held) = {} /\ DOMAIN CkptsOf(held) = {}
  BY <1>1, <1>2 DEF SlotsOf, CkptsOf
<1> QED
  BY <1>1, <1>2, <1>4, <1>5, <1>6, <1>7, <1>8 DEF CacheInv, TreeInv, OneCkpt

\* ... and every step of the cache keeps it.
LEMMA CacheGoesOn ==
  ASSUME CacheInv, OneCkpt, [Next]_vars
  PROVE  CacheInv'
<1>1. CASE UNCHANGED vars
  <2>1. UNCHANGED <<nodes, slotAt, cachedTokens, resumable, ckptAt, lockRef, leases>>
        /\ UNCHANGED <<slotAt, ckptAt, tokensUsed, ckptsUsed, held, refused>>
    BY <1>1 DEF vars
  <2>2. TreeInv /\ Short
    BY DEF CacheInv
  <2>3. TreeInv'
    BY <2>1, <2>2 DEF TreeInv, TreeTypes, Tree, LockRefExact, LeasePinned, PathValues, CkptOf
  <2>4. Short'
    BY <2>1, <2>2 DEF Short
  <2> QED
    BY <2>1, <2>3, <2>4, PoolsStay
<1>2. ASSUME NEW c \in Caller, NEW count \in 1 .. MaxLength, NEW k \in CkptChoices, Reserve(c, count, k) PROVE CacheInv'
  BY <1>2, ChoicesAre, ReserveKeeps
<1>3. ASSUME NEW c \in DOMAIN held, Abort(c) PROVE CacheInv'
  BY <1>3, AbortKeeps
<1>4. ASSUME NEW l \in LeaseId, NEW key \in Keys, Match(l, key, 0) PROVE CacheInv'
  <2>1. key \in Strings /\ Len(key) <= MaxLength /\ Len(key) \in Nat
    BY KeysAre, UptoUpto
  <2>2. Upto(key, IF 0 > Len(key) THEN 0 ELSE Len(key) - 0) = key
    BY <2>1, UptoUpto
  <2>3. MatchPrefix(l, key) /\ UNCHANGED <<tokensUsed, ckptsUsed, held, refused>>
    BY <1>4, <2>2 DEF Match, poolVars
  <2> QED
    BY <2>1, <2>3, LookupKeeps
<1>5. ASSUME NEW l \in DOMAIN leases, ReleaseMatch(l) PROVE CacheInv'
  BY <1>5, UnlockKeeps
<1>6. ASSUME NEW c \in DOMAIN held, NEW key \in Keys, NEW b \in Bases, NEW L \in LeaseChoices, InsertHeld(c, key, b, L)
      PROVE  CacheInv'
  BY <1>6, InsertHeldKeeps DEF OneCkpt
<1>7. ASSUME NEW c \in DOMAIN held, NEW l \in DOMAIN leases, NEW m \in LeaseId, NEW t \in Token, ExtendMatch(c, l, m, t)
      PROVE  CacheInv'
  BY <1>7, ExtendMatchKeeps DEF OneCkpt
<1>8. ASSUME NEW c \in DOMAIN held, NEW key \in Keys, NEW accepted \in 0 .. MaxLength, CommitSpeculative(c, key, accepted)
      PROVE  CacheInv'
  BY <1>8, CommitKeeps DEF OneCkpt
<1>9. ASSUME NEW n \in nodes, Evict(n) PROVE CacheInv'
  BY <1>9, EvictCacheKeeps
<1> QED
  BY <1>1, <1>2, <1>3, <1>4, <1>5, <1>6, <1>7, <1>8, <1>9 DEF Next

\* What a step leaves with a caller has no more checkpoints than were reserved.
LEMMA OneCkptStays ==
  ASSUME OneCkpt, [Next]_vars
  PROVE  OneCkpt'
<1>1. ASSUME NEW c \in DOMAIN held, NEW s, NEW k, Len(k) <= 1, held' = Keep(c, s, k) PROVE OneCkpt'
  <2>1. \A d \in DOMAIN held' : d \in DOMAIN held /\ (held'[d] = held[d] \/ held'[d].ckpts = k)
    BY <1>1, KeepIs
  <2> QED
    BY <1>1, <2>1 DEF OneCkpt
<1>2. ASSUME NEW c \in DOMAIN held, held' = Without(c) PROVE OneCkpt'
  BY <1>1, <1>2, NothingIs
<1>3. CASE held' = held
  BY <1>3 DEF OneCkpt
<1>4. ASSUME NEW c \in Caller, NEW count \in 1 .. MaxLength, NEW k \in CkptChoices, Reserve(c, count, k) PROVE OneCkpt'
  <2>1. PICK slots : held' = Put(held, c, [slots |-> slots, ckpts |-> k])
    BY <1>4 DEF Reserve
  <2>2. Len(k) <= 1
    BY ChoicesAre
  <2>3. \A d \in DOMAIN held' : (d \in DOMAIN held /\ held'[d] = held[d]) \/ held'[d].ckpts = k
    BY <2>1 DEF Put
  <2> QED
    BY <2>2, <2>3 DEF OneCkpt
<1>5. ASSUME NEW c \in DOMAIN held, NEW key, NEW accepted, CommitSpeculative(c, key, accepted) PROVE OneCkpt'
  <2>1. PICK s, k : held' = Keep(c, s, k) /\ (k = held[c].ckpts \/ k = <<>>)
    BY <1>5 DEF CommitSpeculative
  <2>2. Len(k) <= 1
    BY <2>1, NothingIs DEF OneCkpt
  <2> QED
    BY <1>1, <2>1, <2>2
<1>6. ASSUME Next PROVE OneCkpt'
  BY <1>2, <1>3, <1>4, <1>5, <1>6 DEF Next, Abort, Match, ReleaseMatch, InsertHeld, ExtendMatch, Evict
<1>7. CASE UNCHANGED vars
  BY <1>3, <1>7 DEF vars
<1> QED
  BY <1>6, <1>7

\* So it holds always.
LEMMA CacheInvHolds == Spec => []CacheInv
<1>1. Init => CacheInv /\ OneCkpt
  BY CacheStarts
<1>2. CacheInv /\ OneCkpt /\ [Next]_vars => CacheInv' /\ OneCkpt'
  BY CacheGoesOn, OneCkptStays
<1> QED
  BY <1>1, <1>2, PTL DEF Spec

\* The paths of the tree have slots for values, and their positions are those of
\* keys the callers may use.
LEMMA PathsAre ==
  ASSUME CacheInv, NEW n \in nodes \cup {Root}
  PROVE  /\ n \in Paged /\ Len(n) \in Nat /\ Len(n) <= MaxLength
         /\ PathValues(n) \in Seq(Slot)
         /\ \A i \in 1 .. Len(n) : At(n, i) \in CachedIn(nodes) /\ At(n, i) \in Keys \X (1 .. MaxLength)
<1>1. TreeInv /\ Short /\ nodes \subseteq Paged \ {Root} /\ slotAt \in [CachedIn(nodes) -> Slot]
  BY DEF CacheInv, TreeInv, Tree, TreeTypes
<1>2. n \in Paged /\ n \in Strings /\ Len(n) \in Nat /\ Len(n) <= MaxLength /\ MaxLength \in Nat /\ Whole(Len(n))
  <2>1. n \in Paged
    BY <1>1, PagedOrder
  <2>2. n = Root => Len(n) = 0
    BY PagedOrder
  <2>3. Len(n) \in Nat
    BY <2>1, PagedOrder
  <2> QED
    BY <1>1, <2>1, <2>2, <2>3, CacheAssumption DEF Short, Paged
<1>3. \A i \in 1 .. Len(n) : At(n, i) \in CachedIn(nodes)
  <2>1. CASE n = Root
    <3>1. 1 .. Len(n) = {}
      BY <2>1, PagedOrder
    <3> QED
      BY <3>1
  <2>2. CASE n \in nodes
    BY <2>2 DEF CachedIn, Positions
  <2> QED
    BY <2>1, <2>2
<1>4. PathValues(n) \in Seq(Slot)
  <2>1. PathValues(n) \in [1 .. Len(n) -> Slot]
    BY <1>1, <1>3 DEF PathValues
  <2> QED
    BY <1>2, <2>1, SeqDef
<1>5. ASSUME NEW i \in 1 .. Len(n) PROVE At(n, i) \in Keys \X (1 .. MaxLength)
  <2>1. i \in Nat /\ 1 <= i /\ i <= Len(n) /\ i \in 1 .. MaxLength
    BY <1>2
  <2>2. PICK e \in Nat : e = PageEnd(i) /\ i <= e /\ e <= Len(n)
    BY <1>2, <2>1, PagesAre
  <2>3. e \in 0 .. Len(n) /\ e # 0 /\ e <= MaxLength
    BY <1>2, <2>1, <2>2
  <2>4. Upto(n, e) \in Strings /\ Len(Upto(n, e)) = e
    BY <1>2, <2>3, UptoIs
  <2>5. Upto(n, e) \in Keys
    <3>1. Upto(n, e) # Root
      BY <2>3, <2>4, PrefixOrder
    <3> QED
      BY <2>3, <2>4, <3>1, KeysAre
  <2> QED
    BY <2>1, <2>2, <2>5 DEF At, PageEnd
<1> QED
  BY <1>2, <1>3, <1>4, <1>5

\* The inductive invariant gives the shape of the state ...
LEMMA CacheTypesAre ==
  ASSUME CacheInv
  PROVE  TypeOK
<1>1. TreeTypes /\ TreeInv /\ HeldTypes /\ Short
  BY DEF CacheInv, TreeInv
<1>2. nodes \subseteq Keys
  <2>1. ASSUME NEW n \in nodes PROVE n \in Keys
    <3>1. n \in Paged /\ n # Root /\ Len(n) <= MaxLength
      BY <1>1 DEF TreeInv, Tree, Short
    <3> QED
      BY <3>1, KeysAre DEF Paged
  <2> QED
    BY <2>1
<1>3. DOMAIN slotAt \subseteq Keys \X (1 .. MaxLength) /\ Range(slotAt) \subseteq Slot
  <2>1. slotAt \in [CachedIn(nodes) -> Slot]
    BY <1>1 DEF TreeTypes
  <2>2. ASSUME NEW p \in CachedIn(nodes) PROVE p \in Keys \X (1 .. MaxLength)
    <3>1. PICK n \in nodes : p \in Positions(n)
      BY DEF CachedIn
    <3>2. PICK i \in 1 .. Len(n) : p = At(n, i)
      BY <3>1 DEF Positions
    <3> QED
      BY <3>2, PathsAre
  <2> QED
    BY <2>1, <2>2 DEF Range
<1>4. cachedTokens \in Nat
  BY <1>1, FS_CardinalityType DEF TreeTypes
<1>5. /\ resumable \subseteq nodes /\ DOMAIN ckptAt \subseteq resumable /\ Range(ckptAt) \subseteq Ckpt
      /\ lockRef \in [nodes -> Nat] /\ DOMAIN leases \subseteq LeaseId
  BY <1>1 DEF TreeTypes, Range
<1>6. ASSUME NEW l \in DOMAIN leases PROVE leases[l].node \in nodes \cup {Root} /\ leases[l].values \in Seq(Slot)
  <2>1. leases[l].node \in nodes \cup {Root}
    BY <1>1, LeasedNodes
  <2>2. leases[l].values = PathValues(leases[l].node)
    BY <1>1 DEF TreeInv, LeasePinned
  <2> QED
    BY <2>1, <2>2, PathsAre
<1>7. /\ tokensUsed \subseteq Slot /\ ckptsUsed \subseteq Ckpt /\ DOMAIN held \subseteq Caller
      /\ \A c \in DOMAIN held : held[c].slots \in Seq(Slot) /\ held[c].ckpts \in Seq(Ckpt)
      /\ refused \in BOOLEAN
  BY <1>1 DEF HeldTypes
<1> QED
  BY <1>2, <1>3, <1>4, <1>5, <1>6, <1>7 DEF TypeOK

\* Below an unlocked node hangs a leaf, and who leases a leaf leases all above it.
LEMMA UnlockedLeaf ==
  ASSUME CacheInv
  PROVE  EvictableReachable
<1>1. TreeInv /\ Tree(nodes) /\ Short /\ LockRefExact /\ IsFiniteSet(DOMAIN leases) /\ lockRef \in [nodes -> Nat]
  BY DEF CacheInv, TreeInv, TreeTypes
<1>2. ASSUME NEW n \in nodes, lockRef[n] = 0 PROVE \E leaf \in EvictableLeaves : IsPrefix(n, leaf)
  <2>1. PICK leaf \in nodes : Below(leaf) = {} /\ IsPrefix(n, leaf)
    <3>1. PICK b \in Nat : b = MaxLength
      BY CacheAssumption
    <3>2. \A m \in nodes : Len(m) <= b
      BY <1>1, <3>1 DEF Short
    <3> QED
      BY <1>1, <3>2, LeafBelow
  <2>2. Holders(leases, leaf) = {}
    <3>1. ASSUME NEW l \in Holders(leases, leaf) PROVE FALSE
      <4>1. l \in DOMAIN leases /\ IsPrefix(leaf, leases[l].node) /\ leases[l].node \in Paged
        BY <1>1, LeasedNodes DEF Holders
      <4>2. n \in Paged /\ leaf \in Paged
        BY <1>1 DEF Tree
      <4>3. IsPrefix(n, leases[l].node)
        BY <2>1, <4>1, <4>2, PagedOrder
      <4>4. l \in Holders(leases, n)
        BY <4>1, <4>3 DEF Holders
      <4>5. Cardinality(Holders(leases, n)) = 0
        BY <1>1, <1>2 DEF LockRefExact, Holders
      <4>6. IsFiniteSet(Holders(leases, n))
        BY <1>1, FS_Subset DEF Holders
      <4> QED
        BY <4>4, <4>5, <4>6, FS_EmptySet
    <3> QED
      BY <3>1
  <2>3. lockRef[leaf] = 0
    <3>1. lockRef[leaf] = Cardinality(Holders(leases, leaf))
      BY <1>1 DEF LockRefExact, Holders
    <3> QED
      BY <2>2, <3>1, FS_EmptySet
  <2> QED
    BY <2>1, <2>3 DEF EvictableLeaves
<1> QED
  BY <1>2 DEF EvictableReachable

\* Each position of the tree and each place of a reservation has a slot of its own.
LEMMA OwnersAre ==
  ASSUME CacheInv
  PROVE  TokenOwnership /\ CheckpointOwnership
<1>1. Owned(slotAt, SlotsOf(held), tokensUsed) /\ Owned(ckptAt, CkptsOf(held), ckptsUsed)
  BY DEF CacheInv
<1>2. DOMAIN SlotsOf(held) = DOMAIN held /\ \A c \in DOMAIN held : SlotsOf(held)[c] = held[c].slots
  BY DEF SlotsOf
<1>3. DOMAIN CkptsOf(held) = DOMAIN held /\ \A c \in DOMAIN held : CkptsOf(held)[c] = held[c].ckpts
  BY DEF CkptsOf
<1>4. TokenOwnership
  <2>1. /\ IsInjective(slotAt)
        /\ \A c \in DOMAIN held : IsInjective(held[c].slots)
        /\ \A c, d \in DOMAIN held : c # d => Range(held[c].slots) \cap Range(held[d].slots) = {}
        /\ \A c \in DOMAIN held : Range(slotAt) \cap Range(held[c].slots) = {}
    BY <1>1, <1>2 DEF Owned
  <2>2. HeldSlots = UNION {Range(SlotsOf(held)[c]) : c \in DOMAIN SlotsOf(held)}
    BY <1>2 DEF HeldSlots
  <2>3. Range(slotAt) \cup HeldSlots = tokensUsed
    BY <1>1, <2>2 DEF Owned
  <2>4. Range(slotAt) \cap HeldSlots = {}
    BY <2>1 DEF HeldSlots
  <2> QED
    BY <2>1, <2>3, <2>4 DEF TokenOwnership
<1>5. CheckpointOwnership
  <2>1. /\ IsInjective(ckptAt)
        /\ \A c \in DOMAIN held : IsInjective(held[c].ckpts)
        /\ \A c, d \in DOMAIN held : c # d => Range(held[c].ckpts) \cap Range(held[d].ckpts) = {}
        /\ \A c \in DOMAIN held : Range(ckptAt) \cap Range(held[c].ckpts) = {}
    BY <1>1, <1>3 DEF Owned
  <2>2. HeldCkpts = UNION {Range(CkptsOf(held)[c]) : c \in DOMAIN CkptsOf(held)}
    BY <1>3 DEF HeldCkpts
  <2>3. Range(ckptAt) \cup HeldCkpts = ckptsUsed
    BY <1>1, <2>2 DEF Owned
  <2>4. Range(ckptAt) \cap HeldCkpts = {}
    BY <2>1 DEF HeldCkpts
  <2> QED
    BY <2>1, <2>3, <2>4 DEF CheckpointOwnership
<1> QED
  BY <1>4, <1>5
-----------------------------------------------------------------------------
(* The cache implements PrefixStore.                                          *)

\* The table kept its entries and may have more.
Grown(old, new) == DOMAIN old \subseteq DOMAIN new /\ \A x \in DOMAIN old : new[x] = old[x]

\* What the lease of each reader promises.
Readers == [l \in DOMAIN leases |-> {At(leases[l].node, i) : i \in 1 .. Len(leases[l].node)}]
ReadersServed == \A l \in DOMAIN leases : Readers[l] \subseteq DOMAIN slotAt

\* An insertion into the tree, whoever makes it, adds positions and at most one lease.
LEMMA InsertGrows ==
  ASSUME NEW key, NEW values, NEW ckpt, NEW L, L = {} \/ \E l : L = {l}, Insert(key, values, ckpt, L)
  PROVE  /\ Grown(slotAt, slotAt') /\ Grown(leases, leases')
         /\ \A l, m \in DOMAIN leases' \ DOMAIN leases : l = m
<1>1. PICK more : slotAt' = Extended(slotAt, more)
  BY DEF Insert
<1>2. PICK lease : leases' = Extended(leases, [l \in L |-> lease])
  BY DEF Insert
<1> QED
  BY <1>1, <1>2 DEF Extended, Grown

\* One step of the cache, as those who hold leases see it.
LEMMA CacheShows ==
  ASSUME CacheInv, Next
  PROVE  \/ /\ Grown(slotAt, slotAt') /\ Grown(leases, leases')
            /\ \A l, m \in DOMAIN leases' \ DOMAIN leases : l = m
         \/ Grown(slotAt', slotAt) /\ leases' = leases
         \/ /\ slotAt' = slotAt
            /\ \E l \in DOMAIN leases : leases' = [m \in DOMAIN leases \ {l} |-> leases[m]]
<1> DEFINE Same == slotAt' = slotAt /\ leases' = leases
           Added == /\ Grown(slotAt, slotAt') /\ Grown(leases, leases')
                    /\ \A l, m \in DOMAIN leases' \ DOMAIN leases : l = m
           Dropped == Grown(slotAt', slotAt) /\ leases' = leases
           Ended == /\ slotAt' = slotAt
                    /\ \E l \in DOMAIN leases : leases' = [m \in DOMAIN leases \ {l} |-> leases[m]]
<1>1. TreeInv
  BY DEF CacheInv
<1>2. Same => Added
  BY DEF Grown
<1>3. ASSUME NEW c \in Caller, NEW count \in 1 .. MaxLength, NEW k \in CkptChoices, Reserve(c, count, k) PROVE Same
  BY <1>3 DEF Reserve, radixVars
<1>4. ASSUME NEW c \in DOMAIN held, Abort(c) PROVE Same
  BY <1>4 DEF Abort, radixVars
<1>5. ASSUME NEW l \in LeaseId, NEW key \in Keys, Match(l, key, 0) PROVE Added
  <2>1. PICK lease : l \notin DOMAIN leases /\ leases' = Put(leases, l, lease) /\ slotAt' = slotAt
    BY <1>5 DEF Match, MatchPrefix
  <2> QED
    BY <2>1 DEF Put, Grown
<1>6. ASSUME NEW l \in DOMAIN leases, ReleaseMatch(l) PROVE Ended
  BY <1>6 DEF ReleaseMatch, ReleaseLease
<1>7. ASSUME NEW c \in DOMAIN held, NEW key \in Keys, NEW b \in Bases, NEW L \in LeaseChoices, InsertHeld(c, key, b, L)
      PROVE  Added
  <2>1. PICK values, ckpt : Insert(key, values, ckpt, L)
    BY <1>7, InsertHeldIs
  <2>2. L = {} \/ \E l : L = {l}
    BY DEF LeaseChoices
  <2> QED
    BY <2>1, <2>2, InsertGrows
<1>8. ASSUME NEW c \in DOMAIN held, NEW l \in DOMAIN leases, NEW m \in LeaseId, NEW t \in Token, ExtendMatch(c, l, m, t)
      PROVE  Added
  <2>1. PICK slot, k : slot = held[c].slots[1] /\ k = First(held[c].ckpts)
    OBVIOUS
  <2>2. Extend(l, m, t, slot, k) /\ Len(held[c].slots) = 1
    BY <1>8, <2>1 DEF ExtendMatch
  <2>3. slot \in Slot
    <3>1. held[c].slots \in Seq(Slot)
      BY ShareIs
    <3> QED
      BY <2>1, <2>2, <3>1, LenProperties
  <2>4. PICK child, last : child = Append(leases[l].node, t) /\ last = At(child, Len(child))
    OBVIOUS
  <2>5. /\ last \in CachedIn(nodes) <=> child \in nodes
        /\ slotAt' = IF child \in nodes THEN slotAt ELSE Put(slotAt, last, slot)
    BY <1>1, <2>2, <2>3, <2>4, ExtendValues
  <2>6. DOMAIN slotAt = CachedIn(nodes)
    BY <1>1 DEF TreeInv, TreeTypes
  <2>7. Grown(slotAt, slotAt')
    BY <2>5, <2>6 DEF Put, Grown
  <2>8. PICK lease : m \notin DOMAIN leases /\ leases' = Put(leases, m, lease)
    BY <2>2 DEF Extend
  <2> QED
    BY <2>7, <2>8 DEF Put, Grown
<1>9. ASSUME NEW c \in DOMAIN held, NEW key \in Keys, NEW accepted \in 0 .. MaxLength, CommitSpeculative(c, key, accepted)
      PROVE  Same \/ Added
  <2>1. CASE Aligned(accepted) = 0
    BY <1>9, <2>1 DEF CommitSpeculative, radixVars
  <2>2. CASE Aligned(accepted) # 0
    <3>1. PICK page, values, ckpt : Insert(page, values, ckpt, {})
      BY <1>9, <2>2 DEF CommitSpeculative
    <3> QED
      BY <3>1, InsertGrows
  <2> QED
    BY <2>1, <2>2
<1>10. ASSUME NEW n \in nodes, Evict(n) PROVE Dropped
  <2>1. EvictLeaf(n)
    BY <1>10 DEF Evict
  <2>2. CachedIn(nodes') \subseteq CachedIn(nodes) /\ slotAt' = [p \in CachedIn(nodes') |-> slotAt[p]]
    BY <1>1, <2>1, EvictValues
  <2>3. DOMAIN slotAt = CachedIn(nodes) /\ leases' = leases
    BY <1>1, <2>1 DEF TreeInv, TreeTypes, EvictLeaf
  <2> QED
    BY <2>2, <2>3 DEF Grown
<1> QED
  BY <1>2, <1>3, <1>4, <1>5, <1>6, <1>7, <1>8, <1>9, <1>10 DEF Next

\* What a lease promises is cached.
LEMMA ReadersAreServed ==
  ASSUME CacheInv
  PROVE  ReadersServed
<1>1. ASSUME NEW l \in DOMAIN leases PROVE Readers[l] \subseteq DOMAIN slotAt
  <2>1. DOMAIN slotAt = CachedIn(nodes) /\ leases[l].node \in nodes \cup {Root}
    BY LeasedNodes DEF CacheInv, TreeInv, TreeTypes
  <2>2. \A i \in 1 .. Len(leases[l].node) : At(leases[l].node, i) \in DOMAIN slotAt
    BY <2>1, PathsAre
  <2> QED
    BY <2>2 DEF Readers
<1> QED
  BY <1>1 DEF ReadersServed

\* A table that grew continues the old one, in the words of PrefixStore.
LEMMA GrownContinues ==
  ASSUME NEW old, NEW new, old = [x \in DOMAIN old |-> old[x]], Grown(old, new)
  PROVE  Store!Continues(old, new)
  BY DEF Grown, Store!Continues, Store!Restrict

\* Each step of the cache is a step of PrefixStore, or changes nothing in it.
LEMMA StoreStep ==
  ASSUME CacheInv, CacheInv', ReadersServed', [Next]_vars
  PROVE  [Store!StoreNext]_<<slotAt, Readers>>
<1>1. slotAt = [p \in DOMAIN slotAt |-> slotAt[p]] /\ slotAt' = [p \in DOMAIN slotAt' |-> slotAt'[p]]
  BY DEF CacheInv, TreeInv, TreeTypes
<1>2. Readers = [l \in DOMAIN leases |-> Readers[l]] /\ DOMAIN Readers = DOMAIN leases /\ DOMAIN Readers' = DOMAIN leases'
      /\ Readers' = [l \in DOMAIN leases' |-> Readers'[l]]
  BY DEF Readers
<1>3. \A l \in DOMAIN leases : l \in DOMAIN leases' /\ leases'[l] = leases[l] => Readers'[l] = Readers[l]
  BY DEF Readers
<1>4. CASE UNCHANGED vars
  BY <1>4 DEF vars, Readers
<1>5. CASE /\ Grown(slotAt, slotAt') /\ Grown(leases, leases')
           /\ \A l, m \in DOMAIN leases' \ DOMAIN leases : l = m
  <2>1. Grown(Readers, Readers')
    BY <1>2, <1>3, <1>5 DEF Grown
  <2>2. Store!Continues(slotAt, slotAt') /\ Store!Continues(Readers, Readers')
    BY <1>1, <1>2, <1>5, <2>1, GrownContinues
  <2>3. Store!IsInjective(slotAt')
    BY DEF CacheInv, Owned, IsInjective, Store!IsInjective
  <2>4. \A l, m \in DOMAIN Readers' \ DOMAIN Readers : l = m /\ Readers'[l] \subseteq DOMAIN slotAt'
    BY <1>2, <1>5 DEF ReadersServed
  <2>5. Store!Learn
    BY <2>2, <2>3, <2>4 DEF Store!Learn, Readers
  <2> QED
    BY <2>5 DEF Store!StoreNext
<1>6. CASE Grown(slotAt', slotAt) /\ leases' = leases
  <2>1. Store!Continues(slotAt', slotAt)
    BY <1>1, <1>6, GrownContinues
  <2>2. Readers' = Readers
    BY <1>6 DEF Readers
  <2>3. UNION {Readers[l] : l \in DOMAIN leases} \subseteq DOMAIN slotAt'
    BY <1>6, <2>2 DEF ReadersServed
  <2>4. Store!Promised \subseteq DOMAIN slotAt'
    BY <1>2, <2>3 DEF Store!Promised, Store!Range, Readers
  <2>5. Store!Forget
    BY <2>1, <2>2, <2>4 DEF Store!Forget, Readers
  <2> QED
    BY <2>5 DEF Store!StoreNext
<1>7. CASE slotAt' = slotAt /\ \E l \in DOMAIN leases : leases' = [m \in DOMAIN leases \ {l} |-> leases[m]]
  <2>1. PICK l \in DOMAIN leases : leases' = [m \in DOMAIN leases \ {l} |-> leases[m]]
    BY <1>7
  <2>2. Grown(Readers', Readers) /\ DOMAIN Readers' = DOMAIN Readers \ {l}
    BY <1>2, <1>3, <2>1 DEF Grown
  <2>3. Store!Continues(Readers', Readers)
    BY <1>2, <2>2, GrownContinues
  <2>4. \E r \in DOMAIN Readers : DOMAIN Readers' = DOMAIN Readers \ {r}
    BY <1>2, <2>2
  <2>5. Store!Finish
    BY <1>7, <2>3, <2>4 DEF Store!Finish, Readers
  <2> QED
    BY <2>5 DEF Store!StoreNext
<1> QED
  BY <1>4, <1>5, <1>6, <1>7, CacheShows
-----------------------------------------------------------------------------
(* What each run of the cache checks, for every instance of it.               *)

\* The state of the cache has its shape: every leased path has slots for values,
\* and every key in the tree is one a caller may have used.
THEOREM CacheTypesCorrect == Spec => []TypeOK
<1>1. CacheInv => TypeOK
  BY CacheTypesAre
<1> QED
  BY <1>1, CacheInvHolds, PTL

\* The tree finds every prefix it holds, whatever splits, extensions and evictions
\* come in what order (split_node, extend, evict), and cached_tokens is what it holds.
THEOREM TreeStaysSound == Spec => []TreeSound
<1>1. CacheInv => TreeSound
  BY TreeInvShows DEF CacheInv
<1> QED
  BY <1>1, CacheInvHolds, PTL

\* lock_ref counts the leases at and below a node, also after the node was split
\* off above them.
THEOREM LocksCountLeases == Spec => []LockRefExact
<1>1. CacheInv => LockRefExact
  BY DEF CacheInv, TreeInv
<1> QED
  BY <1>1, CacheInvHolds, PTL

\* A lease's path stays in the tree with the slots it was given until released.
THEOREM LeasesStayPinned == Spec => []LeasePinned
<1>1. CacheInv => LeasePinned
  BY DEF CacheInv, TreeInv
<1> QED
  BY <1>1, CacheInvHolds, PTL

\* evict can reclaim what evictable_tokens counts: below every unlocked node there
\* is a leaf it may take.
THEOREM UnlockedCanGo == Spec => []EvictableReachable
<1>1. CacheInv => EvictableReachable
  BY UnlockedLeaf
<1> QED
  BY <1>1, CacheInvHolds, PTL

\* Every slot in use has one owner, in the tree or with a caller, and none is lost:
\* what validate asserts holds between any two calls of any number of callers.
THEOREM EverySlotHasOneOwner == Spec => []TokenOwnership
<1>1. CacheInv => TokenOwnership
  BY OwnersAre
<1> QED
  BY <1>1, CacheInvHolds, PTL

\* The same for recurrent checkpoints.
THEOREM EveryCheckpointHasOneOwner == Spec => []CheckpointOwnership
<1>1. CacheInv => CheckpointOwnership
  BY OwnersAre
<1> QED
  BY <1>1, CacheInvHolds, PTL

\* For every page size: no page is cut, no prefix of one lost, and no slot of a
\* draft that ends inside a page.
THEOREM PagesStaySound == Spec => []PagesSound
<1>1. CacheInv => PagesSound
  BY TreeInvShows, OwnersAre DEF CacheInv, PagesSound
<1> QED
  BY <1>1, CacheInvHolds, PTL

\* release_redundant, evict and commit_speculative never give a pool something it
\* does not have in use, so they cannot fail after the tree has changed.
THEOREM NothingIsRefused == Spec => []ReleasesAccepted
<1>1. CacheInv => ReleasesAccepted
  BY DEF CacheInv, HeldTypes, ReleasesAccepted
<1> QED
  BY <1>1, CacheInvHolds, PTL

\* Whoever holds a match cannot tell the tree from a plain map of positions to slots
\* that keeps what was promised: each call of serving_cache.ml is a step of
\* PrefixStore or none.
THEOREM CacheImplementsStore == Spec => ImplementsPrefixStore
<1>1. Init => Store!StoreInit
  <2>1. ASSUME Init PROVE slotAt = <<>> /\ Readers = <<>>
    <3>1. slotAt = <<>> /\ leases = <<>>
      BY <2>1 DEF Init, RadixInit
    <3>2. DOMAIN Readers = {} /\ Readers = [l \in {} |-> {}]
      BY <3>1 DEF Readers
    <3> QED
      BY <3>1, <3>2
  <2> QED
    BY <2>1 DEF Store!StoreInit, Readers
<1>2. CacheInv => ReadersServed
  BY ReadersAreServed
<1>3. CacheInv /\ CacheInv' /\ ReadersServed' /\ [Next]_vars => [Store!StoreNext]_<<slotAt, Readers>>
  BY StoreStep
<1>4. [Store!StoreNext]_<<slotAt, Readers>> =>
        [Store!StoreNext]_<<slotAt, [l \in DOMAIN leases |-> {At(leases[l].node, i) : i \in 1 .. Len(leases[l].node)}]>>
  BY DEF Readers
<1> QED
  BY <1>1, <1>2, <1>3, <1>4, CacheInvHolds, PTL DEF Spec, ImplementsPrefixStore, Store!StoreSpec
=============================================================================

