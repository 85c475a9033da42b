---------------------------- MODULE ServingCache ----------------------------
(***************************************************************************)
(* src/lib/serving_cache.ml: the radix tree together with the two slot     *)
(* pools.  A caller reserves slots and a checkpoint, has the device fill   *)
(* them, and then either hands them to the tree or gives them back; what   *)
(* the tree does not keep goes back to the pools in the same call.  The    *)
(* callers are those of serving_engine.ml: the slots they insert are those *)
(* of a lease they hold followed by those they reserved.  Several callers  *)
(* are between reservation and insertion at a time.                        *)
(***************************************************************************)
EXTENDS RadixCache

CONSTANTS
  Caller,     \* concurrent users of the cache
  MaxLength   \* bound: the longest key

\* The token pool is an array made once, at startup.
ASSUME CacheAssumption == MaxLength \in Nat /\ IsFiniteSet(Slot)

VARIABLES
  tokensUsed,   \* the token pool's slots in use
  ckptsUsed,    \* the checkpoint pool's slots in use
  held,         \* what each caller has reserved and not yet settled
  refused       \* a pool has refused to take something back

poolVars == <<tokensUsed, ckptsUsed, refused>>
vars == <<nodes, slotAt, cachedTokens, resumable, ckptAt, lockRef, leases,
          tokensUsed, ckptsUsed, held, refused>>

Tokens == INSTANCE SlotPool WITH Slot <- Slot, inUse <- tokensUsed
Ckpts == INSTANCE SlotPool WITH Slot <- Ckpt, inUse <- ckptsUsed

Keys == UNION {[1 .. n -> Token] : n \in 1 .. MaxLength}

Init ==
  /\ RadixInit
  /\ Tokens!PoolInit
  /\ Ckpts!PoolInit
  /\ held = <<>>
  /\ refused = FALSE
-----------------------------------------------------------------------------
(* Slots go back to the pools in two ways.  A pool that is given a slot it   *)
(* does not have in use refuses the whole array, and the caller gets an      *)
(* error, whatever it has changed before.                                    *)

\* Checkpoints only after the tokens were taken (release_redundant, evict).
Settle(S, K) ==
  /\ tokensUsed' = IF S \subseteq tokensUsed THEN tokensUsed \ S ELSE tokensUsed
  /\ ckptsUsed' = IF S \subseteq tokensUsed /\ K \subseteq ckptsUsed
                  THEN ckptsUsed \ K ELSE ckptsUsed
  /\ refused' = (refused \/ ~(S \subseteq tokensUsed /\ K \subseteq ckptsUsed))

\* Each pool on its own (extend_match and the aborts of serving_engine.ml).
GiveBack(S, K) ==
  /\ tokensUsed' = IF S \subseteq tokensUsed THEN tokensUsed \ S ELSE tokensUsed
  /\ ckptsUsed' = IF K \subseteq ckptsUsed THEN ckptsUsed \ K ELSE ckptsUsed
  /\ refused' = (refused \/ ~(S \subseteq tokensUsed /\ K \subseteq ckptsUsed))
-----------------------------------------------------------------------------
Without(c) == [d \in DOMAIN held \ {c} |-> held[d]]

\* What is left of a reservation; nothing left is no reservation.
Keep(c, slots, ckpts) ==
  IF slots = <<>> /\ ckpts = <<>> THEN Without(c)
  ELSE [held EXCEPT ![c] = [slots |-> slots, ckpts |-> ckpts]]

\* reserve_tokens, then reserve_checkpoint as often as the caller needs one;
\* when either pool is short the caller gets an error and keeps nothing.
Reserve(c, count, ckpts) ==
  /\ c \notin DOMAIN held
  /\ \E S \in kSubset(count, Slot \ tokensUsed) :
       /\ Tokens!Grant(S)
       /\ \E slots \in SetToSeqs(S) :
            held' = Put(held, c, [slots |-> slots, ckpts |-> ckpts])
  /\ Ckpts!Grant(Range(ckpts))
  /\ UNCHANGED <<radixVars, refused>>

\* Mutant of Abort: the checkpoints are forgotten.
AbortTokens(c) ==
  /\ c \in DOMAIN held
  /\ GiveBack(Range(held[c].slots), {})
  /\ held' = Without(c)
  /\ UNCHANGED radixVars

\* release_tokens and release_checkpoint of everything the caller still holds.
Abort(c) ==
  /\ c \in DOMAIN held
  /\ GiveBack(Range(held[c].slots), Range(held[c].ckpts))
  /\ held' = Without(c)
  /\ UNCHANGED radixVars

\* match_prefix keeps the last reserve_tail tokens out of the lookup.
Match(l, key, reserveTail) ==
  /\ MatchPrefix(l, Upto(key, IF reserveTail > Len(key) THEN 0 ELSE Len(key) - reserveTail))
  /\ UNCHANGED <<poolVars, held>>

ReleaseMatch(l) ==
  /\ ReleaseLease(l)
  /\ UNCHANGED <<poolVars, held>>

First(s) == IF s = <<>> THEN {} ELSE {s[1]}

\* (A refused release would also drop the leases L or m; that it is never
\* refused is ReleasesAccepted.)
\* insert and insert_and_match, each followed by release_redundant: the caller
\* passes values, a checkpoint or none, and what it keeps holding afterwards.
InsertAndSettle(key, values, ckpt, L) ==
  /\ Insert(key, values, ckpt, L)
  /\ Settle(RedundantSlots(key, values), RedundantCkpt(key, ckpt))

\* A caller inserts its whole reservation behind the prefix it leases, if any.
InsertHeld(c, key, base, L) ==
  LET prefix == IF base = {} THEN Root ELSE leases[CHOOSE l \in base : TRUE].node
      values == IF base = {} THEN held[c].slots
                ELSE leases[CHOOSE l \in base : TRUE].values \o held[c].slots
  IN  /\ c \in DOMAIN held
      /\ IsPrefix(prefix, key)
      /\ InsertAndSettle(key, values, First(held[c].ckpts), L)
      /\ held' = Without(c)

\* extend_match: the slot goes back when the tree had one for the same token.
ExtendMatch(c, l, m, token) ==
  LET child == Append(leases[l].node, token)
      slot == held[c].slots[1]
  IN  /\ c \in DOMAIN held /\ Len(held[c].slots) = 1
      /\ l \in DOMAIN leases /\ Len(leases[l].node) < MaxLength
      /\ Extend(l, m, token, slot, First(held[c].ckpts))
      /\ GiveBack(IF child \in nodes THEN {slot} \ {slotAt[At(child, Len(child))]} ELSE {},
                  RedundantCkpt(child, First(held[c].ckpts)))
      /\ held' = Without(c)

\* commit_speculative: the rejected tail goes back, the whole pages of the
\* accepted head are inserted, and the rest of the head stays with the caller;
\* so does the checkpoint when something was accepted but nothing inserted.
CommitSpeculative(c, key, accepted) ==
  LET slots == held[c].slots
      ckpt == First(held[c].ckpts)
      pages == Aligned(accepted)
      page == Upto(key, pages)
      rejected == Range(SubSeq(slots, accepted + 1, Len(slots)))
      rest == SubSeq(slots, pages + 1, accepted)
  IN  /\ c \in DOMAIN held /\ Len(key) = Len(slots) /\ accepted \in 0 .. Len(slots)
      /\ IF pages = 0
         THEN /\ Settle(rejected, IF accepted = 0 THEN ckpt ELSE {})
              /\ UNCHANGED radixVars
         ELSE /\ Insert(page, Upto(slots, pages), ckpt, {})
              /\ Settle(rejected \cup RedundantSlots(page, Upto(slots, pages)),
                        RedundantCkpt(page, ckpt))
      /\ held' = Keep(c, rest, IF accepted > 0 /\ pages = 0 THEN held[c].ckpts ELSE <<>>)

\* evict, one leaf at a time.
Evict(n) ==
  /\ EvictLeaf(n)
  /\ Settle({slotAt[p] : p \in EdgeOf(n)}, CkptOf(n))
  /\ UNCHANGED held

CkptChoices == {<<>>} \cup {<<k>> : k \in Ckpt \ ckptsUsed}
Bases == {{}} \cup {{l} : l \in DOMAIN leases}
LeaseChoices == {{}} \cup {{l} : l \in LeaseId \ DOMAIN leases}

Next ==
  \/ \E c \in Caller, count \in 1 .. MaxLength, k \in CkptChoices : Reserve(c, count, k)
  \/ \E c \in DOMAIN held : Abort(c)
  \/ \E l \in LeaseId, key \in Keys : Match(l, key, 0)
  \/ \E l \in DOMAIN leases : ReleaseMatch(l)
  \/ \E c \in DOMAIN held, key \in Keys, b \in Bases, L \in LeaseChoices :
        InsertHeld(c, key, b, L)
  \/ \E c \in DOMAIN held, l \in DOMAIN leases, m \in LeaseId, t \in Token :
        ExtendMatch(c, l, m, t)
  \/ \E c \in DOMAIN held, key \in Keys, accepted \in 0 .. MaxLength :
        CommitSpeculative(c, key, accepted)
  \/ \E n \in nodes : Evict(n)

Spec == Init /\ [][Next]_vars
-----------------------------------------------------------------------------
\* The shape of the cache's state.
TypeOK ==
  /\ nodes \subseteq Keys
  /\ DOMAIN slotAt \subseteq Keys \X (1 .. MaxLength) /\ Range(slotAt) \subseteq Slot
  /\ cachedTokens \in Nat
  /\ resumable \subseteq nodes
  /\ DOMAIN ckptAt \subseteq resumable /\ Range(ckptAt) \subseteq Ckpt
  /\ lockRef \in [nodes -> Nat]
  /\ DOMAIN leases \subseteq LeaseId
  /\ \A l \in DOMAIN leases :
       leases[l].node \in nodes \cup {Root} /\ leases[l].values \in Seq(Slot)
  /\ tokensUsed \subseteq Slot /\ ckptsUsed \subseteq Ckpt
  /\ DOMAIN held \subseteq Caller
  /\ \A c \in DOMAIN held : held[c].slots \in Seq(Slot) /\ held[c].ckpts \in Seq(Ckpt)
  /\ refused \in BOOLEAN

HeldSlots == UNION {Range(held[c].slots) : c \in DOMAIN held}
HeldCkpts == UNION {Range(held[c].ckpts) : c \in DOMAIN held}

\* A slot in use has exactly one owner: one position of the tree or one place in
\* one reservation.  No slot is owned while free, none is leaked, none is shared;
\* with nothing reserved this is what validate asserts.
TokenOwnership ==
  /\ IsInjective(slotAt)
  /\ \A c \in DOMAIN held : IsInjective(held[c].slots)
  /\ \A c, d \in DOMAIN held :
       c # d => Range(held[c].slots) \cap Range(held[d].slots) = {}
  /\ Range(slotAt) \cap HeldSlots = {}
  /\ Range(slotAt) \cup HeldSlots = tokensUsed

\* The same for recurrent checkpoints, owned by a node or by a reservation.
CheckpointOwnership ==
  /\ IsInjective(ckptAt)
  /\ \A c \in DOMAIN held : IsInjective(held[c].ckpts)
  /\ \A c, d \in DOMAIN held :
       c # d => Range(held[c].ckpts) \cap Range(held[d].ckpts) = {}
  /\ Range(ckptAt) \cap HeldCkpts = {}
  /\ Range(ckptAt) \cup HeldCkpts = ckptsUsed

\* With pages of several tokens: cutting an edge, looking a child up and keeping a
\* draft that ends inside a page lose no prefix and no slot.
PagesSound == TreeSound /\ TokenOwnership

\* What the cache itself gives back (redundant slots and checkpoints, evicted
\* ones, rejected draft slots) is always in use: release_redundant, which runs
\* after the tree has changed, cannot fail.
ReleasesAccepted == ~refused

\* Nobody who holds a match can tell the tree, with its splits and evictions, from
\* a plain map of cached positions to slots: a cached position keeps its slot when
\* the same prefix is inserted again, new positions get slots of their own, and
\* what a match was given is not dropped before it is released.
Store == INSTANCE PrefixStore WITH
  store <- slotAt,
  readers <- [l \in DOMAIN leases |->
                {At(leases[l].node, i) : i \in 1 .. Len(leases[l].node)}]
ImplementsPrefixStore == Store!StoreSpec
=============================================================================
