----------------------------- MODULE RadixCache -----------------------------
(***************************************************************************)
(* The compressed-edge prefix tree of src/lib/radix_cache.ml.              *)
(*                                                                         *)
(* A node is named by the token string that leads to it, the root by the   *)
(* empty string, so a parent is the longest node that is a strict prefix   *)
(* and an edge is what the child adds to it.  The value arrays of the      *)
(* edges are kept per position: slotAt[At(n, i)] is the slot of the i-th   *)
(* token of the path to n.  Splitting an edge then adds a node and moves   *)
(* no value.  Paths that part within a page share no position of it.       *)
(* A token stands for a (namespace, token) pair: children are looked up by *)
(* namespace and first page, so keys of two namespaces share no node.      *)
(*                                                                         *)
(* The operations are written as actions on the tree's variables with      *)
(* their inputs as parameters; ServingCache supplies the callers.  Access  *)
(* stamps and hit counters are left out: eviction picks any of the leaves  *)
(* the code could pick under some access order.                            *)
(***************************************************************************)
EXTENDS Integers, FiniteSets, SequencesExt, Tables

CONSTANTS
  Token,      \* (namespace, token) pairs
  Slot,       \* physical KV slots, the values of the tree
  Ckpt,       \* recurrent checkpoints
  LeaseId,    \* names for the leases match_prefix and its kin return
  PageSize    \* tokens per page: edges are split and cut at pages only

ASSUME PageSizeAssumption == PageSize \in Nat \ {0}

VARIABLES
  nodes,         \* the nodes below the root
  slotAt,        \* the slot of every cached position
  cachedTokens,  \* cache.cached_tokens, maintained by hand
  resumable,     \* the nodes a match may stop at
  ckptAt,        \* the checkpoint of the nodes that have one
  lockRef,       \* node.lock_ref
  leases         \* the leases not yet released

radixVars == <<nodes, slotAt, cachedTokens, resumable, ckptAt, lockRef, leases>>

Root == <<>>

RadixInit ==
  /\ nodes = {}
  /\ slotAt = <<>>
  /\ cachedTokens = 0
  /\ resumable = {}
  /\ ckptAt = <<>>
  /\ lockRef = <<>>
  /\ leases = <<>>
-----------------------------------------------------------------------------
(* Walking the tree. *)

Aligned(length) == (length \div PageSize) * PageSize

Upto(key, length) == SubSeq(key, 1, length)

\* The i-th position of a key: the pages up to it, and the index.
At(key, i) == <<Upto(key, Aligned(i + PageSize - 1)), i>>

\* How many leading tokens two strings share.
CommonLength(s, t) ==
  Cardinality({i \in 1 .. Len(s) : i <= Len(t) /\ Upto(s, i) = Upto(t, i)})

Deepest(S) == CHOOSE n \in S \cup {Root} : \A m \in S : Len(m) <= Len(n)

\* The nodes the walk of a key passes through, and the one it gets stuck at.
Along(key) == {n \in nodes : IsPrefix(n, key)}
Stuck(key) == Deepest(Along(key))

Below(n) == {m \in nodes : IsStrictPrefix(n, m)}
Children(n) == {c \in Below(n) : \A m \in Below(n) : IsPrefix(m, c) => m = c}
Parent(n) == Deepest({m \in nodes : IsStrictPrefix(m, n)})

\* child_key: a child is found when the key continues with its first page.  The
\* walk then leaves that child's edge in the middle, at a page boundary.
LeftEdges(key) ==
  {c \in Children(Stuck(key)) : CommonLength(c, key) >= Len(Stuck(key)) + PageSize}

\* Mutant of SplitPoint: the edge is cut inside a page.
SplitPointUnaligned(c, key) == Upto(key, CommonLength(c, key))
SplitPoint(c, key) == Upto(key, Aligned(CommonLength(c, key)))

\* split_node: the intermediate node takes over the lock count of the child.
SplitNodes(key) == nodes \cup {SplitPoint(c, key) : c \in LeftEdges(key)}

\* Mutant of SplitLock: the intermediate node starts unlocked.
SplitLockZero(n, key) == IF n \in nodes THEN lockRef[n] ELSE 0
SplitLock(n, key) ==
  IF n \in nodes THEN lockRef[n] ELSE lockRef[CHOOSE c \in LeftEdges(key) : TRUE]

\* adjust_lock: taking or giving up a lease at node end changes the counts of
\* the whole path to it.
\* Mutant: of the node alone.
LocksNode(n, end) == IF n = end THEN 1 ELSE 0
Locks(n, end) == IF IsPrefix(n, end) THEN 1 ELSE 0

PathValues(n) == [i \in 1 .. Len(n) |-> slotAt[At(n, i)]]

\* Options are sets of at most one element.
CkptOf(n) == IF n \in DOMAIN ckptAt THEN {ckptAt[n]} ELSE {}

Lease(n, values, ckpt) == [node |-> n, values |-> values, ckpt |-> ckpt]
-----------------------------------------------------------------------------
(* The operations. *)

\* match_prefix: the deepest resumable node on the key's page-aligned walk is
\* leased as l; the edge the walk leaves in the middle is split even so.
MatchPrefix(l, key) ==
  LET usable == Upto(key, Aligned(Len(key)))
      best == Deepest(Along(usable) \cap resumable)
  IN  /\ l \notin DOMAIN leases
      /\ nodes' = SplitNodes(usable)
      /\ lockRef' = [n \in SplitNodes(usable) |->
                       SplitLock(n, usable) + Locks(n, best)]
      /\ leases' = Put(leases, l, Lease(best, PathValues(best), CkptOf(best)))
      /\ UNCHANGED <<slotAt, cachedTokens, resumable, ckptAt>>

\* release: unlocks the path.  A second release is an error that changes nothing.
ReleaseLease(l) ==
  /\ l \in DOMAIN leases
  /\ lockRef' = [n \in nodes |-> lockRef[n] - Locks(n, leases[l].node)]
  /\ leases' = [m \in DOMAIN leases \ {l} |-> leases[m]]
  /\ UNCHANGED <<nodes, slotAt, cachedTokens, resumable, ckptAt>>

\* insert_internal: how much of the key the tree holds already ...
\* Mutant of CachedLength: the walk forgets the part of the edge it splits.
CachedLengthUnsplit(key) == Len(Stuck(key))
CachedLength(key) == Len(Deepest({n \in SplitNodes(key) : IsPrefix(n, key)}))
\* ... the new values that duplicate cached ones ...
\* Mutants of RedundantSlots: all values of cached positions; none.
RedundantSlotsAll(key, values) == {values[i] : i \in 1 .. CachedLength(key)}
RedundantSlotsNone(key, values) == {}
RedundantSlots(key, values) ==
  {values[i] : i \in {j \in 1 .. CachedLength(key) : values[j] # slotAt[At(key, j)]}}
\* ... and the new checkpoint, when the node keeps the one it has.
\* Mutant of RedundantCkpt: the new checkpoint is not reported.
RedundantCkptNone(key, ckpt) == {}
RedundantCkpt(key, ckpt) ==
  IF key \in resumable /\ key \in DOMAIN ckptAt THEN ckpt \ CkptOf(key) ELSE {}

Insertable(key, values) ==
  Len(key) > 0 /\ Len(key) = Len(values) /\ Len(key) % PageSize = 0

\* insert (L = {}) and insert_and_match (L holds the new lease).
Insert(key, values, ckpt, L) ==
  LET split == SplitNodes(key)
      fresh == {At(key, i) : i \in CachedLength(key) + 1 .. Len(key)}
      newSlotAt == Extended(slotAt, [p \in fresh |-> values[p[2]]])
      newCkptAt == IF key \in DOMAIN ckptAt \/ ckpt = {} THEN ckptAt
                   ELSE Put(ckptAt, key, CHOOSE c \in ckpt : TRUE)
  IN  /\ Insertable(key, values)
      /\ L \cap DOMAIN leases = {}
      /\ nodes' = split \cup {key}
      /\ slotAt' = newSlotAt
      /\ cachedTokens' = cachedTokens + (Len(key) - CachedLength(key))
      /\ resumable' = resumable \cup {key}
      /\ ckptAt' = newCkptAt
      /\ lockRef' = [n \in split \cup {key} |->
                       (IF n \in split THEN SplitLock(n, key) ELSE 0)
                       + Cardinality(L) * Locks(n, key)]
      /\ leases' = Extended(leases,
           [l \in L |-> Lease(key, [i \in 1 .. Len(key) |-> newSlotAt[At(key, i)]],
                              IF key \in DOMAIN newCkptAt THEN {newCkptAt[key]} ELSE {})])

\* extend looks the child up by one token; a child whose edge is longer than
\* one token raises Invalid_argument instead of being split.
Extendable(l) == l \in DOMAIN leases /\ PageSize = 1 /\ leases[l].node \in resumable
ExtendRaises(l, token) ==
  /\ Extendable(l)
  /\ \E c \in Children(leases[l].node) :
        Len(c) > Len(leases[l].node) + 1 /\ c[Len(leases[l].node) + 1] = token

\* extend: lease l stays, lease m covers one token more.
Extend(l, m, token, slot, ckpt) ==
  LET child == Append(leases[l].node, token)
      found == child \in nodes
      newSlotAt == IF found THEN slotAt ELSE Put(slotAt, At(child, Len(child)), slot)
      newCkptAt == IF child \in DOMAIN ckptAt \/ ckpt = {} THEN ckptAt
                   ELSE Put(ckptAt, child, CHOOSE c \in ckpt : TRUE)
  IN  /\ Extendable(l)
      /\ ~ExtendRaises(l, token)
      /\ m \notin DOMAIN leases
      /\ nodes' = nodes \cup {child}
      /\ slotAt' = newSlotAt
      /\ cachedTokens' = IF found THEN cachedTokens ELSE cachedTokens + 1
      /\ resumable' = resumable \cup {child}
      /\ ckptAt' = newCkptAt
      /\ lockRef' = [n \in nodes \cup {child} |->
                       (IF n \in nodes THEN lockRef[n] ELSE 0)
                       + Locks(n, child)]
      /\ leases' = Put(leases, m,
           Lease(child, Append(leases[l].values, newSlotAt[At(child, Len(child))]),
                 IF child \in DOMAIN newCkptAt THEN {newCkptAt[child]} ELSE {}))

\* Mutant of EvictableLeaves: locks are not looked at.
LeavesLockedToo == {n \in nodes : Below(n) = {}}

\* collect_leaves: what eviction may take.
EvictableLeaves == {n \in nodes : Below(n) = {} /\ lockRef[n] = 0}

\* Mutant of EdgeOf: the values of the whole path.
EdgeOfPath(n) == {At(n, i) : i \in 1 .. Len(n)}

\* The cached positions on the edge into n.
EdgeOf(n) == {At(n, i) : i \in Len(Parent(n)) + 1 .. Len(n)}

\* Mutant of EvictLeaf: the node's resumability outlives it.
EvictLeafHalf(n) ==
  /\ n \in EvictableLeaves
  /\ nodes' = nodes \ {n}
  /\ slotAt' = [p \in DOMAIN slotAt \ EdgeOf(n) |-> slotAt[p]]
  /\ cachedTokens' = cachedTokens - (Len(n) - Len(Parent(n)))
  /\ ckptAt' = [m \in DOMAIN ckptAt \ {n} |-> ckptAt[m]]
  /\ lockRef' = [m \in nodes \ {n} |-> lockRef[m]]
  /\ UNCHANGED <<resumable, leases>>

\* One round of evict's loop, delete_leaf; a call repeats it up to its target.
EvictLeaf(n) ==
  /\ n \in EvictableLeaves
  /\ nodes' = nodes \ {n}
  /\ slotAt' = [p \in DOMAIN slotAt \ EdgeOf(n) |-> slotAt[p]]
  /\ cachedTokens' = cachedTokens - (Len(n) - Len(Parent(n)))
  /\ resumable' = resumable \ {n}
  /\ ckptAt' = [m \in DOMAIN ckptAt \ {n} |-> ckptAt[m]]
  /\ lockRef' = [m \in nodes \ {n} |-> lockRef[m]]
  /\ UNCHANGED leases
-----------------------------------------------------------------------------
(* What must hold of the tree, whoever calls it. *)

\* Two nodes part at a node (or at the root): no node has two children that
\* start with the same page, so a lookup can never miss a cached prefix.
TreeShape ==
  \A m, n \in nodes :
    LET shared == Upto(m, Aligned(CommonLength(m, n))) IN
      shared \in nodes \cup {Root}

\* Every node carries at least one token, and the hand-kept token counter and the
\* slots are exactly those of the edges.
EdgesExact ==
  /\ Root \notin nodes
  /\ \A n \in nodes : Len(n) % PageSize = 0
  /\ DOMAIN slotAt = UNION {{At(n, i) : i \in 1 .. Len(n)} : n \in nodes}
  /\ cachedTokens = Cardinality(DOMAIN slotAt)

\* The tree finds every prefix it holds, and holds no more than it counts.
TreeSound == TreeShape /\ EdgesExact

\* A node's lock count is the number of leases at it or below it, whatever
\* splits happened since the leases were taken.
LockRefExact ==
  \A n \in nodes :
    lockRef[n] = Cardinality({l \in DOMAIN leases : IsPrefix(n, leases[l].node)})

\* While a lease lives its path stays in the tree with the very slots the lease
\* was given: neither eviction nor a second insertion of the prefix changes it.
LeasePinned ==
  \A l \in DOMAIN leases :
    LET n == leases[l].node IN
      /\ n = Root \/ n \in resumable
      /\ leases[l].values = PathValues(n)
      /\ leases[l].ckpt \subseteq CkptOf(n)

\* Eviction can reclaim whatever is unlocked: an unlocked node has an unlocked
\* leaf at or below it, so evictable_tokens in the statistics is a promise evict
\* can keep.
EvictableReachable ==
  \A n \in nodes : lockRef[n] = 0 =>
    \E leaf \in EvictableLeaves : IsPrefix(n, leaf)
=============================================================================
