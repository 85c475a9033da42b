------------------------ MODULE ServingEngineProofs ------------------------
(***************************************************************************)
(* What holds of the engine for any prompts, cursors, slots and            *)
(* checkpoints, with and without recurrent state, and every page size: a   *)
(* call that returns, with a result or an error, forgets no slot, no       *)
(* checkpoint and no lease, one that raises forgets its reservation and no *)
(* more, cursors stay where their steps are, and, for a model without      *)
(* recurrent state, what the cache serves was computed from exactly the    *)
(* prefix it is served for.                                                *)
(***************************************************************************)
EXTENDS ServingEngine, ServingCacheProofs

USE DEF cursorVars

\* The operations of the engine, and where a call can stand.
Ops == {"none", "prompt", "verify", "decode", "lookup", "cursor"}
Phases == {"idle", "matched", "reserve", "run", "accept", "insert", "abort", "close", "advance"}

\* The phases in which the call holds a reservation, and those in which it is whole.
Holding == {"run", "accept", "insert", "abort"}
Filling == {"run", "accept", "insert"}

\* The shape of the call under way.
CallTypes ==
  call \in [op : Ops, phase : Phases, tokens : Strings, base : Int, lease : SUBSET LeaseId,
            cursor : SUBSET Cursor, slots : Seq(Slot), done : Nat]

\* Until a release is refused, the cache is as its own callers would leave it.
CacheSound == TreeInv /\ Short /\ refused \in BOOLEAN /\ (~refused => CacheInv)

\* An accepted draft is a lookup's; an idle engine has no call; after a refusal the
\* call can only give back and end.
PhaseSound ==
  /\ CallTypes
  /\ refused => call.phase \in {"abort", "close", "idle"}
  /\ call.phase = "accept" => call.op = "lookup"
  /\ call.phase = "idle" => call = NoCall
  /\ call.phase \in {"matched", "reserve"} => call.done = 0
  /\ call.phase = "advance" => call.op = "cursor"

\* A call computes at least one token behind what it leases.
ComputesMore ==
  call.phase \notin {"idle", "advance"} =>
    /\ IsPrefix(Source.node, call.tokens) /\ Cached < Len(call.tokens)
    /\ Len(call.tokens) <= MaxLength

\* Each lease is the call's or an open cursor's, and no cursor's lease is the call's
\* but that of the cursor it decodes.
LeasesKnown ==
  /\ call.lease \subseteq DOMAIN leases /\ (call.lease = {} \/ \E l \in LeaseId : call.lease = {l})
  /\ \A l \in DOMAIN leases : l \in call.lease \/ \E q \in DOMAIN cursors : l = cursors[q].lease
  /\ call.op # "cursor" \/ call.phase = "advance" => \A q \in DOMAIN cursors : cursors[q].lease \notin call.lease
  /\ call.op # "cursor" => call.cursor = {}
  /\ call.op = "cursor" => \E q \in DOMAIN cursors :
       /\ call.cursor = {q}
       /\ call.phase # "advance" => /\ call.lease = {cursors[q].lease}
                                    /\ \E t \in Token : call.tokens = Append(cursors[q].tokens, t)
       /\ call.phase = "advance" => \E m \in LeaseId : call.lease = {m} /\ leases[m].node = call.tokens

\* Each open cursor has a live lease of its own, at the tokens of its step.
CursorsSound ==
  /\ DOMAIN cursors \subseteq Cursor
  /\ \A q \in DOMAIN cursors : cursors[q].lease \in DOMAIN leases /\ leases[cursors[q].lease].node = cursors[q].tokens
  /\ \A q, r \in DOMAIN cursors : q # r => cursors[q].lease # cursors[r].lease

\* The engine holds a reservation exactly between reserving and settling, for what is
\* still to be inserted.
HeldSound ==
  /\ call.phase \notin Holding => Me \notin DOMAIN held
  /\ call.phase \in Holding => Me \in DOMAIN held
  /\ call.phase \in Filling => /\ Len(Reserved) = Suffix - call.done
                               /\ Len(held[Me].ckpts) = IF CkptsNeeded = 0 THEN 0 ELSE CkptsNeeded - call.done

\* A replay has inserted the first slots of its reservation; the tree has each of
\* them, or the pool has it back.
ReplaySound ==
  call.phase \in Filling =>
    /\ call.done < Suffix
    /\ ~Replays => call.done = 0
    /\ Replays => /\ Len(call.slots) = Suffix
                  /\ \A i \in 1 .. Len(Reserved) : Reserved[i] = call.slots[call.done + i]
    /\ call.done > 0 =>
         /\ PageSize = 1 /\ Upto(call.tokens, Cached + call.done) \in nodes
         /\ \A i \in 1 .. call.done : \/ slotAt[At(call.tokens, Cached + i)] = call.slots[i]
                                      \/ call.slots[i] \notin tokensUsed

\* The inductive invariant of the engine's transactions.
EngineInv ==
  /\ CacheSound /\ PhaseSound /\ ComputesMore /\ LeasesKnown /\ CursorsSound /\ HeldSound /\ ReplaySound

\* Content is known of what is in use only, and buffers are kept one at a time.
DeviceSound ==
  /\ Cardinality(decodeBuf) <= 1 /\ Cardinality(planBuf) <= 1
  /\ DOMAIN slotData \subseteq tokensUsed /\ DOMAIN ckptData \subseteq ckptsUsed
  /\ lastCkpt \subseteq Ckpt
-----------------------------------------------------------------------------
(* What the invariant says of a call.                                         *)

\* The call's fields, and that the engine is a caller of the cache.
LEMMA CallIs ==
  ASSUME CallTypes
  PROVE  /\ call.op \in Ops /\ call.phase \in Phases /\ call.tokens \in Strings /\ call.base \in Int
         /\ call.lease \in SUBSET LeaseId /\ call.cursor \in SUBSET Cursor
         /\ call.slots \in Seq(Slot) /\ call.done \in Nat
         /\ Len(call.tokens) \in Nat
         /\ Me \in Caller
<1>1. Me \in Caller
  BY CallerAssumption DEF Me
<1>2. call.tokens \in Strings
  BY DEF CallTypes
<1> QED
  BY <1>1, <1>2, UptoUpto DEF CallTypes

\* What a call builds on: the path of its lease, or the root.
LEMMA SourceIs ==
  ASSUME CacheSound, CallTypes, LeasesKnown
  PROVE  /\ Source.node \in nodes \cup {Root} /\ Source.node \in Paged /\ Cached \in Nat /\ Cached <= MaxLength
         /\ Source.values = PathValues(Source.node)
         /\ \A l : call.lease = {l} => Source = leases[l] /\ l \in DOMAIN leases
         /\ call.lease = {} => Source.node = Root /\ Cached = 0
<1>1. TreeInv /\ Short
  BY DEF CacheSound
<1>2. CASE call.lease = {}
  <2>1. Source.node = Root /\ Source.values = <<>>
    BY <1>2 DEF Source, Lease
  <2>2. PathValues(Root) = <<>>
    BY DEF PathValues, Root
  <2> QED
    BY <1>2, <2>1, <2>2, PagedOrder, CacheAssumption DEF Cached
<1>3. ASSUME NEW m, call.lease = {m}
      PROVE  /\ Source = leases[m] /\ m \in DOMAIN leases
             /\ Source.node \in nodes \cup {Root} /\ Source.node \in Paged /\ Cached \in Nat /\ Cached <= MaxLength
             /\ Source.values = PathValues(Source.node)
  <2>1. m = CHOOSE l \in call.lease : TRUE
    BY <1>3
  <2>2. Source = leases[m] /\ m \in DOMAIN leases
    BY <1>3, <2>1 DEF Source, LeasesKnown
  <2>3. Source.node \in nodes \cup {Root} /\ Source.node \in Paged /\ Source.values = PathValues(Source.node)
    BY <1>1, <2>2, LeasedNodes DEF TreeInv, LeasePinned
  <2>4. Len(Source.node) \in Nat /\ Len(Source.node) <= MaxLength
    BY <1>1, <2>3, PagedOrder, CacheAssumption DEF Short
  <2> QED
    BY <2>2, <2>3, <2>4 DEF Cached
<1>4. call.lease = {} \/ \E l \in LeaseId : call.lease = {l}
  BY DEF LeasesKnown
<1>5. CASE \E l \in LeaseId : call.lease = {l}
  <2>1. PICK m : call.lease = {m}
    BY <1>5
  <2>2. \A l : call.lease = {l} => l = m
    BY <2>1
  <2>3. call.lease # {}
    BY <2>1
  <2> QED
    BY <1>3, <2>1, <2>2, <2>3
<1>6. ASSUME call.lease = {} PROVE \A l : call.lease # {l}
  BY <1>6
<1> QED
  BY <1>2, <1>4, <1>5, <1>6

\* What of a call does not depend on its phase.
LEMMA SourceStays ==
  ASSUME leases' = leases, call'.lease = call.lease, call'.tokens = call.tokens, call'.op = call.op
  PROVE  /\ Source' = Source /\ Cached' = Cached /\ Suffix' = Suffix
         /\ Replays' = Replays /\ CkptsNeeded' = CkptsNeeded
<1>1. Source' = Source
  BY DEF Source
<1>2. Cached' = Cached /\ Suffix' = Suffix
  BY <1>1 DEF Cached, Suffix
<1>3. Replays' = Replays
  BY <1>2 DEF Replays
<1> QED
  BY <1>1, <1>2, <1>3 DEF CkptsNeeded

\* The cache is as it was when no variable of it changed.
LEMMA SoundStays ==
  ASSUME CacheSound, UNCHANGED vars
  PROVE  CacheSound'
<1>1. /\ UNCHANGED <<nodes, slotAt, cachedTokens, resumable, ckptAt, lockRef, leases>>
      /\ UNCHANGED <<tokensUsed, ckptsUsed, held, refused>>
  BY DEF vars
<1>2. TreeInv /\ Short /\ refused \in BOOLEAN /\ (~refused => CacheInv)
  BY DEF CacheSound
<1>3. TreeInv'
  BY <1>1, <1>2 DEF TreeInv, TreeTypes, Tree, LockRefExact, LeasePinned, PathValues, CkptOf
<1>4. Short'
  BY <1>1, <1>2 DEF Short
<1>5. ~refused => CacheInv'
  BY <1>1, <1>2, <1>3, <1>4, PoolsStay
<1> QED
  BY <1>1, <1>2, <1>3, <1>4, <1>5 DEF CacheSound

\* A change of phase alone: between phases that hold a reservation, or between
\* phases that do not.
MayMove(p) ==
  /\ p \in Phases \ {"idle", "advance"} /\ call.phase \notin {"idle", "advance"} /\ ~refused
  /\ p \in Holding <=> call.phase \in Holding
  /\ p \in Filling => call.phase \in Filling
  /\ p = "accept" => call.op = "lookup"
  /\ p \in {"matched", "reserve"} => call.phase = "matched"

\* It keeps the invariant.
LEMMA PhaseMoves ==
  ASSUME EngineInv, NEW p, MayMove(p), Goto(p), UNCHANGED <<vars, cursors>>
  PROVE  EngineInv'
<1>1. CacheSound /\ PhaseSound /\ ComputesMore /\ LeasesKnown /\ CursorsSound /\ HeldSound /\ ReplaySound
  BY DEF EngineInv
<1>2. /\ p \in Phases \ {"idle", "advance"} /\ call.phase \notin {"idle", "advance"} /\ ~refused
      /\ p \in Holding <=> call.phase \in Holding
      /\ p \in Filling => call.phase \in Filling
      /\ p = "accept" => call.op = "lookup"
      /\ p \in {"matched", "reserve"} => call.phase = "matched"
  BY DEF MayMove
<1>3. CallTypes
  BY <1>1 DEF PhaseSound
<1>4. /\ call' = [call EXCEPT !.phase = p] /\ call'.phase = p /\ call'.op = call.op /\ call'.tokens = call.tokens
      /\ call'.lease = call.lease /\ call'.cursor = call.cursor /\ call'.slots = call.slots /\ call'.done = call.done
  BY <1>3 DEF CallTypes, Goto
<1>5. /\ nodes' = nodes /\ slotAt' = slotAt /\ leases' = leases /\ tokensUsed' = tokensUsed /\ held' = held
      /\ refused' = refused /\ cursors' = cursors
  BY DEF vars
<1>6. Source' = Source /\ Cached' = Cached /\ Suffix' = Suffix /\ Replays' = Replays /\ CkptsNeeded' = CkptsNeeded
  BY <1>4, <1>5, SourceStays
<1>7. CacheSound'
  BY <1>1, SoundStays
<1>8. PhaseSound'
  <2>1. CallTypes'
    BY <1>2, <1>3, <1>4 DEF CallTypes
  <2> QED
    BY <1>1, <1>2, <1>4, <1>5, <2>1 DEF PhaseSound
<1>9. ComputesMore'
  BY <1>1, <1>2, <1>4, <1>6 DEF ComputesMore
<1>10. LeasesKnown'
  BY <1>1, <1>2, <1>4, <1>5 DEF LeasesKnown
<1>11. CursorsSound'
  BY <1>1, <1>5 DEF CursorsSound
<1>12. HeldSound'
  BY <1>1, <1>2, <1>4, <1>5, <1>6 DEF HeldSound, Reserved
<1>13. ReplaySound'
  BY <1>1, <1>2, <1>4, <1>5, <1>6 DEF ReplaySound, Reserved
<1> QED
  BY <1>7, <1>8, <1>9, <1>10, <1>11, <1>12, <1>13 DEF EngineInv

\* The match decided, the reservation refused, and the device's work change the phase
\* only.
LEMMA PhaseActions ==
  ASSUME EngineInv, Suit \/ ReserveFails \/ RunSchedule \/ RunSteps \/ RunFails
  PROVE  EngineInv'
<1>1. PhaseSound
  BY DEF EngineInv
<1>2. CASE Suit
  <2>1. PICK p \in {"close", "reserve"} : Goto(p) /\ UNCHANGED <<vars, cursors>> /\ call.phase = "matched"
    BY <1>2 DEF Suit, In
  <2>2. MayMove(p)
    BY <1>1, <2>1 DEF MayMove, PhaseSound, Phases, Holding, Filling
  <2> QED
    BY <2>1, <2>2, PhaseMoves
<1>3. CASE ReserveFails
  <2>1. PICK p : p = "close" /\ Goto(p) /\ UNCHANGED <<vars, cursors>> /\ call.phase = "reserve"
    BY <1>3 DEF ReserveFails, In
  <2>2. MayMove(p)
    BY <1>1, <2>1 DEF MayMove, PhaseSound, Phases, Holding, Filling
  <2> QED
    BY <2>1, <2>2, PhaseMoves
<1>4. CASE RunSchedule
  <2>1. PICK p \in {"abort", "accept", "insert"} :
          Goto(p) /\ UNCHANGED <<vars, cursors>> /\ call.phase = "run" /\ (p = "accept" => call.op = "lookup")
    BY <1>4 DEF RunSchedule, In
  <2>2. MayMove(p)
    BY <1>1, <2>1 DEF MayMove, PhaseSound, Phases, Holding, Filling
  <2> QED
    BY <2>1, <2>2, PhaseMoves
<1>5. CASE RunSteps
  <2>1. PICK p : p = "insert" /\ Goto(p) /\ UNCHANGED <<vars, cursors>> /\ call.phase = "run"
    BY <1>5 DEF RunSteps, In
  <2>2. MayMove(p)
    BY <1>1, <2>1 DEF MayMove, PhaseSound, Phases, Holding, Filling
  <2> QED
    BY <2>1, <2>2, PhaseMoves
<1>6. CASE RunFails
  <2>1. PICK p : p = "abort" /\ Goto(p) /\ UNCHANGED <<vars, cursors>> /\ call.phase = "run"
    BY <1>6 DEF RunFails, In
  <2>2. MayMove(p)
    BY <1>1, <2>1 DEF MayMove, PhaseSound, Phases, Holding, Filling
  <2> QED
    BY <2>1, <2>2, PhaseMoves
<1> QED
  BY <1>2, <1>3, <1>4, <1>5, <1>6
-----------------------------------------------------------------------------
(* Starting a call.                                                           *)

\* A lease is added, or given back, and the others stay.
LeaseAdded(l, n) ==
  /\ l \notin DOMAIN leases /\ DOMAIN leases' = DOMAIN leases \cup {l}
  /\ leases'[l].node = n /\ \A m \in DOMAIN leases : leases'[m] = leases[m]
LeaseGone(l) ==
  /\ l \in DOMAIN leases /\ DOMAIN leases' = DOMAIN leases \ {l}
  /\ \A m \in DOMAIN leases \ {l} : leases'[m] = leases[m]

\* A match leases a prefix of what is looked up, all of it when a match may stop there.
LEMMA MatchFinds ==
  ASSUME TreeInv, NEW l, NEW key \in Strings, MatchPrefix(l, key)
  PROVE  \E n \in Paged : IsPrefix(n, key) /\ LeaseAdded(l, n) /\ (key \in resumable => n = key)
<1> DEFINE usable == Upto(key, Aligned(Len(key)))
           found == Along(usable) \cap resumable
           best == Deepest(found)
<1>1. TreeTypes /\ Tree(nodes)
  BY DEF TreeInv
<1>2. /\ l \notin DOMAIN leases
      /\ leases' = Put(leases, l, Lease(best, PathValues(best), CkptOf(best)))
  BY DEF MatchPrefix
<1>3. Len(key) \in Nat /\ Aligned(Len(key)) \in 0 .. Len(key) /\ Whole(Aligned(Len(key)))
  BY PagesAre, UptoUpto
<1>4. usable \in Paged /\ Len(usable) \in Nat /\ IsPrefix(usable, key)
  BY <1>3, UptoIs, PrefixOrder DEF Paged
<1> HIDE DEF usable
<1>5. found \in SUBSET Paged /\ \A n \in found : IsPrefix(n, usable)
  BY <1>1 DEF Along, Tree
<1>6. \A n \in found : Len(n) <= Len(usable)
  BY <1>4, <1>5, PagedOrder
<1>7. best \in found \cup {Root} /\ \A n \in found : Len(n) <= Len(best)
  <2> HIDE DEF found
  <2> QED
    BY <1>4, <1>5, <1>6, DeepestIs
<1>8. best \in Paged /\ IsPrefix(best, usable)
  BY <1>4, <1>5, <1>7, PagedOrder
<1> HIDE DEF best
<1>9. IsPrefix(best, key)
  <2>1. best \in Strings /\ usable \in Strings
    BY <1>4, <1>8 DEF Paged
  <2> QED
    BY <1>4, <1>8, <2>1, PrefixOrder
<1>10. LeaseAdded(l, best)
  BY <1>2 DEF LeaseAdded, Put, Lease
<1>11. ASSUME key \in resumable PROVE best = key
  <2>1. key \in nodes /\ key \in Paged /\ Whole(Len(key))
    BY <1>1, <1>11 DEF TreeTypes, Tree, Paged
  <2>2. Aligned(Len(key)) = Len(key)
    BY <1>3, <2>1, PagesAre
  <2>3. usable = key
    BY <2>2, UptoUpto DEF usable
  <2>4. key \in found
    BY <1>11, <2>1, <2>3, PagedOrder DEF found, Along
  <2>5. Len(key) <= Len(best)
    BY <1>7, <2>4
  <2>6. best \in Strings
    BY <1>8 DEF Paged
  <2> QED
    BY <1>9, <2>5, <2>6, PrefixOrder
<1> QED
  BY <1>8, <1>9, <1>10, <1>11

\* A lease given back.
LEMMA ReleaseDrops ==
  ASSUME NEW l, ReleaseLease(l)
  PROVE  LeaseGone(l)
BY DEF ReleaseLease, LeaseGone

\* A release keeps the cache sound, also after a refusal.
LEMMA ReleaseSound ==
  ASSUME CacheSound, NEW l, ReleaseMatch(l)
  PROVE  CacheSound' /\ LeaseGone(l) /\ refused' = refused /\ held' = held
<1>1. ReleaseLease(l) /\ UNCHANGED <<poolVars, held>>
  BY DEF ReleaseMatch
<1>2. TreeInv /\ Short /\ refused \in BOOLEAN /\ (~refused => CacheInv) /\ nodes' = nodes /\ l \in DOMAIN leases
      /\ refused' = refused /\ held' = held
  BY <1>1 DEF CacheSound, ReleaseLease, poolVars
<1>3. TreeInv'
  BY <1>1, <1>2, ReleaseKeeps
<1>4. Short'
  BY <1>2 DEF Short
<1>5. ~refused => CacheInv'
  BY <1>2, UnlockKeeps
<1> QED
  BY <1>1, <1>2, <1>3, <1>4, <1>5, ReleaseDrops DEF CacheSound

\* The call a match begins.
Begun(op, tokens, lease, cursor) ==
  /\ call' \in [op : Ops, phase : Phases, tokens : Strings, base : Int, lease : SUBSET LeaseId,
                cursor : SUBSET Cursor, slots : Seq(Slot), done : Nat]
  /\ call'.op = op /\ call'.phase = "matched" /\ call'.tokens = tokens
  /\ call'.lease = lease /\ call'.cursor = cursor /\ call'.done = 0

\* What Begin leaves.
LEMMA BeginIs ==
  ASSUME NEW op \in Ops, NEW tokens \in Strings, NEW base \in Int, NEW lease \in SUBSET LeaseId,
         NEW cursor \in SUBSET Cursor, Begin(op, tokens, base, lease, cursor)
  PROVE  Begun(op, tokens, lease, cursor)
<1>1. <<>> \in Seq(Slot) /\ "matched" \in Phases
  BY NothingIs DEF Phases
<1> QED
  BY <1>1 DEF Begin, NoCall, Begun

\* An engine without a call has reserved nothing and leases what its cursors lease.
LEMMA IdleIs ==
  ASSUME EngineInv, Idle
  PROVE  /\ call = NoCall /\ Me \notin DOMAIN held /\ ~refused /\ CacheInv /\ TreeInv
         /\ \A l \in DOMAIN leases : \E q \in DOMAIN cursors : l = cursors[q].lease
         /\ CursorsSound
<1>1. call.phase = "idle" /\ ~refused
  BY DEF Idle
<1>2. call = NoCall
  BY <1>1 DEF EngineInv, PhaseSound
<1>3. Me \notin DOMAIN held
  BY <1>1 DEF EngineInv, HeldSound, Holding
<1>4. CacheInv /\ TreeInv
  BY <1>1 DEF EngineInv, CacheSound
<1>5. call.lease = {}
  BY <1>2 DEF NoCall
<1> QED
  BY <1>1, <1>2, <1>3, <1>4, <1>5 DEF EngineInv, LeasesKnown

\* A match begins a call with the lease it returns.
StartsWith(op, l, tokens, base, tail) ==
  /\ Idle /\ op \in {"prompt", "verify", "decode", "lookup"} /\ base \in Int /\ tail \in 1 .. Len(tokens)
  /\ Match(l, tokens, tail) /\ Begin(op, tokens, base, {l}, {}) /\ cursors' = cursors

\* It keeps the invariant.
LEMMA StartKeeps ==
  ASSUME EngineInv, NEW op, NEW l \in LeaseId, NEW tokens \in Keys, NEW base, NEW tail,
         StartsWith(op, l, tokens, base, tail)
  PROVE  EngineInv'
<1> DEFINE key == Upto(tokens, Len(tokens) - tail)
<1>1. /\ Idle /\ op \in {"prompt", "verify", "decode", "lookup"} /\ base \in Int /\ tail \in 1 .. Len(tokens)
      /\ Match(l, tokens, tail) /\ Begin(op, tokens, base, {l}, {}) /\ cursors' = cursors
  BY DEF StartsWith
<1>2. /\ call = NoCall /\ Me \notin DOMAIN held /\ ~refused /\ CacheInv /\ TreeInv
      /\ \A m \in DOMAIN leases : \E q \in DOMAIN cursors : m = cursors[q].lease
      /\ CursorsSound
  BY <1>1, IdleIs
<1>3. tokens \in Strings /\ Len(tokens) \in Nat /\ Len(tokens) <= MaxLength /\ MaxLength \in Nat
  BY KeysAre, UptoUpto
<1>4. Len(tokens) - tail \in 0 .. Len(tokens) /\ Len(tokens) - tail < Len(tokens) /\ ~(tail > Len(tokens))
  BY <1>1, <1>3
<1>5. key \in Strings /\ Len(key) = Len(tokens) - tail /\ IsPrefix(key, tokens)
  BY <1>3, <1>4, UptoIs, PrefixOrder
<1>6. MatchPrefix(l, key) /\ UNCHANGED <<tokensUsed, ckptsUsed, held, refused>>
  BY <1>1, <1>4 DEF Match, poolVars
<1> HIDE DEF key
<1>7. PICK n \in Paged : IsPrefix(n, key) /\ LeaseAdded(l, n)
  BY <1>2, <1>5, <1>6, MatchFinds
<1>8. CacheInv'
  <2>1. Len(key) <= MaxLength
    BY <1>3, <1>4, <1>5
  <2> QED
    BY <1>2, <1>5, <1>6, <2>1, LookupKeeps
<1>9. CacheSound'
  BY <1>8 DEF CacheSound, CacheInv, HeldTypes
<1>10. Begun(op, tokens, {l}, {})
  <2>1. op \in Ops /\ {l} \in SUBSET LeaseId /\ {} \in SUBSET Cursor
    BY <1>1 DEF Ops
  <2> QED
    BY <1>1, <1>3, <2>1, BeginIs
<1>11. /\ call'.op = op /\ call'.phase = "matched" /\ call'.tokens = tokens
       /\ call'.lease = {l} /\ call'.cursor = {} /\ call'.done = 0 /\ op # "cursor"
  BY <1>1, <1>10 DEF Begun
<1>12. PhaseSound'
  <2>1. CallTypes'
    BY <1>10 DEF Begun, CallTypes
  <2> QED
    BY <1>2, <1>6, <1>11, <2>1 DEF PhaseSound
<1>13. ComputesMore'
  <2>1. Source' = leases'[l] /\ leases'[l].node = n
    BY <1>7, <1>11 DEF Source, LeaseAdded
  <2>2. n \in Strings /\ IsPrefix(n, tokens) /\ Len(n) \in Nat
    BY <1>3, <1>5, <1>7, PrefixOrder, PagedOrder DEF Paged
  <2>3. Len(n) <= Len(key)
    BY <1>5, <1>7, <2>2, PrefixOrder
  <2> QED
    BY <1>3, <1>4, <1>5, <1>11, <2>1, <2>2, <2>3 DEF ComputesMore, Cached
<1>14. LeasesKnown'
  BY <1>1, <1>2, <1>7, <1>11 DEF LeasesKnown, LeaseAdded, CursorsSound
<1>15. CursorsSound'
  BY <1>1, <1>2, <1>7 DEF LeaseAdded, CursorsSound
<1>16. HeldSound'
  BY <1>2, <1>6, <1>11 DEF HeldSound, Holding, Filling
<1>17. ReplaySound'
  BY <1>11 DEF ReplaySound, Filling
<1> QED
  BY <1>9, <1>12, <1>13, <1>14, <1>15, <1>16, <1>17 DEF EngineInv

\* The calls that begin with a match.
LEMMA MatchedStarts ==
  ASSUME EngineInv, NEW l \in LeaseId, NEW tokens \in Prompts,
         \/ \E op \in {"prompt", "verify"} : StartPrompt(op, l, tokens)
         \/ StartDecode(l, tokens)
         \/ \E draft \in 1 .. MaxLength : StartLookup(l, tokens, draft)
  PROVE  EngineInv'
<1>1. tokens \in Keys
  BY PromptsAssumption
<1>2. tokens \in Strings /\ Len(tokens) \in Nat /\ Len(tokens) > 0
  <2>1. tokens \in Strings /\ tokens # Root
    BY <1>1, KeysAre
  <2> QED
    BY <2>1, PrefixOrder, UptoUpto
<1>3. CASE \E op \in {"prompt", "verify"} : StartPrompt(op, l, tokens)
  <2>1. PICK op \in {"prompt", "verify"} : StartPrompt(op, l, tokens)
    BY <1>3
  <2>2. StartsWith(op, l, tokens, 0, 1)
    BY <1>2, <2>1 DEF StartPrompt, StartsWith
  <2> QED
    BY <1>1, <2>2, StartKeeps
<1>4. CASE StartDecode(l, tokens)
  <2>1. StartsWith("decode", l, tokens, Len(tokens) - 1, 1)
    BY <1>2, <1>4 DEF StartDecode, StartsWith
  <2> QED
    BY <1>1, <2>1, StartKeeps
<1>5. CASE \E draft \in 1 .. MaxLength : StartLookup(l, tokens, draft)
  <2>1. PICK draft \in 1 .. MaxLength : StartLookup(l, tokens, draft)
    BY <1>5
  <2>2. draft \in 1 .. Len(tokens) - 1
    BY <2>1 DEF StartLookup
  <2>3. draft \in Int /\ Len(tokens) - draft - 1 \in Int /\ draft + 1 \in 1 .. Len(tokens)
    BY <1>2, <2>2
  <2>4. StartsWith("lookup", l, tokens, Len(tokens) - draft - 1, draft + 1)
    BY <2>1, <2>3 DEF StartLookup, StartsWith
  <2> QED
    BY <1>1, <2>4, StartKeeps
<1> QED
  BY <1>3, <1>4, <1>5

\* A string with one more token.
LEMMA OneMore ==
  ASSUME NEW s \in Strings, NEW t \in Token
  PROVE  /\ Append(s, t) \in Strings /\ Len(Append(s, t)) = Len(s) + 1 /\ IsPrefix(s, Append(s, t))
         /\ Last(Append(s, t)) = t
<1>1. /\ Append(s, t) \in Strings /\ Len(Append(s, t)) = Len(s) + 1 /\ Len(s) \in Nat
      /\ \A i \in 1 .. Len(s) : Append(s, t)[i] = s[i]
      /\ Append(s, t)[Len(s) + 1] = t
  BY DEF Strings
<1>2. Len(s) \in 0 .. Len(Append(s, t))
  BY <1>1
<1>3. Upto(Append(s, t), Len(s)) = s
  <2>1. /\ Upto(Append(s, t), Len(s)) \in Strings /\ Len(Upto(Append(s, t), Len(s))) = Len(s)
        /\ \A i \in 1 .. Len(s) : Upto(Append(s, t), Len(s))[i] = Append(s, t)[i]
    BY <1>1, <1>2, UptoIs
  <2> QED
    BY <1>1, <2>1, SameString
<1>4. IsPrefix(s, Append(s, t))
  <2>1. Len(s) <= Len(Append(s, t))
    BY <1>1
  <2> HIDE DEF Strings
  <2> QED
    BY <1>1, <1>3, <2>1, PrefixIs
<1>5. Last(Append(s, t)) = t
  BY <1>1 DEF Last
<1> QED
  BY <1>1, <1>4, <1>5

\* A cursor's decode takes the cursor's lease for its call.
LEMMA StartCursorKeeps ==
  ASSUME EngineInv, NEW q \in DOMAIN cursors, NEW token \in Token, StartCursor(q, token)
  PROVE  EngineInv'
<1> DEFINE s == cursors[q].tokens
           l == cursors[q].lease
           key == Append(s, token)
<1>1. /\ Idle /\ Len(s) < MaxLength /\ UNCHANGED <<vars, cursors>>
      /\ Begin("cursor", key, Len(s), {l}, {q})
  BY DEF StartCursor
<1>2. /\ call = NoCall /\ Me \notin DOMAIN held /\ ~refused /\ CacheInv /\ TreeInv
      /\ \A m \in DOMAIN leases : \E r \in DOMAIN cursors : m = cursors[r].lease
      /\ CursorsSound
  BY <1>1, IdleIs
<1>3. leases' = leases /\ held' = held /\ refused' = refused /\ cursors' = cursors
  BY <1>1 DEF vars
<1>4. l \in DOMAIN leases /\ l \in LeaseId /\ leases[l].node = s /\ q \in Cursor
  BY <1>2 DEF CursorsSound, TreeInv, TreeTypes
<1>5. s \in Strings /\ Len(s) \in Nat
  <2>1. leases[l].node \in Paged
    BY <1>2, <1>4, LeasedNodes
  <2> QED
    BY <1>4, <2>1, PagedOrder DEF Paged
<1> HIDE DEF s, l
<1>6. key \in Strings /\ Len(key) = Len(s) + 1 /\ IsPrefix(s, key)
  BY <1>5, OneMore
<1>7. CacheSound'
  BY <1>1, SoundStays DEF EngineInv
<1>8. Begun("cursor", key, {l}, {q})
  <2>1. "cursor" \in Ops /\ Len(s) \in Int /\ {l} \in SUBSET LeaseId /\ {q} \in SUBSET Cursor
    BY <1>4, <1>5 DEF Ops
  <2> HIDE DEF key
  <2> QED
    BY <1>1, <1>6, <2>1, BeginIs
<1>9. /\ call'.op = "cursor" /\ call'.phase = "matched" /\ call'.tokens = key
      /\ call'.lease = {l} /\ call'.cursor = {q} /\ call'.done = 0
  BY <1>8 DEF Begun
<1>10. PhaseSound'
  <2>1. CallTypes'
    BY <1>8 DEF Begun, CallTypes
  <2> QED
    BY <1>2, <1>3, <1>9, <2>1 DEF PhaseSound
<1>11. ComputesMore'
  <2>1. Source' = leases[l]
    BY <1>3, <1>9 DEF Source
  <2>2. MaxLength \in Nat
    BY CacheAssumption
  <2> QED
    BY <1>1, <1>4, <1>5, <1>6, <1>9, <2>1, <2>2 DEF ComputesMore, Cached, s
<1>12. LeasesKnown'
  <2>1. \A m \in DOMAIN leases' : \E r \in DOMAIN cursors' : m = cursors'[r].lease
    BY <1>2, <1>3
  <2>2. cursors'[q].lease = l /\ cursors'[q].tokens = s /\ q \in DOMAIN cursors'
    BY <1>3 DEF s, l
  <2> QED
    BY <1>3, <1>4, <1>9, <2>1, <2>2 DEF LeasesKnown
<1>13. CursorsSound'
  BY <1>2, <1>3 DEF CursorsSound
<1>14. HeldSound'
  BY <1>2, <1>3, <1>9 DEF HeldSound, Holding, Filling
<1>15. ReplaySound'
  BY <1>9 DEF ReplaySound, Filling
<1> QED
  BY <1>7, <1>10, <1>11, <1>12, <1>13, <1>14, <1>15 DEF EngineInv

\* What is known of a call in any of its phases.
LEMMA Known ==
  ASSUME EngineInv
  PROVE  /\ CacheSound /\ PhaseSound /\ CallTypes /\ ComputesMore /\ LeasesKnown /\ CursorsSound
         /\ HeldSound /\ ReplaySound /\ TreeInv /\ Short
         /\ ~refused => CacheInv
BY DEF EngineInv, PhaseSound, CacheSound

\* A prompt that matches nothing gives its lease back and goes on without one.
LEMMA MissKeeps ==
  ASSUME EngineInv, Miss
  PROVE  EngineInv'
<1>1. PICK l \in call.lease : ReleaseMatch(l)
  BY DEF Miss
<1>2. /\ call.phase = "matched" /\ call.op = "prompt" /\ Cached = 0
      /\ call' = [call EXCEPT !.lease = {}, !.phase = "reserve"] /\ cursors' = cursors
  BY DEF Miss, In, MissedPrompt
<1>3. /\ CacheSound /\ PhaseSound /\ CallTypes /\ ComputesMore /\ LeasesKnown /\ CursorsSound
      /\ HeldSound /\ ReplaySound
  BY Known
<1>4. CacheSound' /\ LeaseGone(l) /\ refused' = refused /\ held' = held
  BY <1>1, <1>3, ReleaseSound
<1>5. call.lease = {l}
  BY <1>1, <1>3 DEF LeasesKnown
<1>6. /\ CallTypes' /\ call'.op = "prompt" /\ call'.phase = "reserve" /\ call'.tokens = call.tokens
      /\ call'.lease = {} /\ call'.cursor = call.cursor /\ call'.done = call.done
  BY <1>2, <1>3 DEF CallTypes, Phases
<1>7. PhaseSound'
  BY <1>2, <1>3, <1>4, <1>6 DEF PhaseSound
<1>8. ComputesMore'
  <2>1. Source'.node = Root
    BY <1>6 DEF Source, Lease
  <2>2. call.tokens \in Strings
    BY <1>3 DEF CallTypes
  <2>3. IsPrefix(Root, call.tokens) /\ Len(Root) = 0
    BY <2>2, PrefixOrder
  <2> QED
    BY <1>2, <1>3, <1>6, <2>1, <2>3 DEF ComputesMore, Cached
<1>9. LeasesKnown'
  BY <1>2, <1>3, <1>4, <1>5, <1>6 DEF LeasesKnown, LeaseGone
<1>10. CursorsSound'
  <2>1. \A q \in DOMAIN cursors : cursors[q].lease # l
    BY <1>2, <1>3, <1>5 DEF LeasesKnown
  <2> QED
    BY <1>2, <1>3, <1>4, <2>1 DEF CursorsSound, LeaseGone
<1>11. HeldSound'
  BY <1>2, <1>3, <1>4, <1>6 DEF HeldSound, Holding, Filling
<1>12. ReplaySound'
  BY <1>6 DEF ReplaySound, Filling
<1> QED
  BY <1>4, <1>7, <1>8, <1>9, <1>10, <1>11, <1>12 DEF EngineInv

\* The engine reserves what it is going to fill.
LEMMA ReserveForCallKeeps ==
  ASSUME EngineInv, ReserveForCall
  PROVE  EngineInv' /\ tokensUsed \subseteq tokensUsed' /\ ckptsUsed \subseteq ckptsUsed'
<1>1. PICK K \in kSubset(CkptsNeeded, Ckpt \ ckptsUsed) : \E ckpts \in SetToSeqs(K) : Reserve(Me, Suffix, ckpts)
  BY DEF ReserveForCall
<1>2. PICK ckpts \in SetToSeqs(K) : Reserve(Me, Suffix, ckpts)
  BY <1>1
<1>3. /\ call.phase = "reserve" /\ call' = [call EXCEPT !.phase = "run", !.slots = held'[Me].slots] /\ cursors' = cursors
  BY DEF ReserveForCall, In
<1>4. /\ CacheSound /\ PhaseSound /\ CallTypes /\ ComputesMore /\ LeasesKnown /\ CursorsSound
      /\ HeldSound /\ ReplaySound
  BY Known
<1>5. ~refused /\ CacheInv /\ Me \notin DOMAIN held /\ call.done = 0 /\ Me \in Caller
  BY <1>3, <1>4, CallIs DEF PhaseSound, CacheSound, HeldSound, Holding
<1>6. CkptsNeeded \in Nat /\ Suffix \in Nat /\ Suffix > 0
  <2>1. Cached \in Nat /\ Len(call.tokens) \in Nat /\ Cached < Len(call.tokens)
    BY <1>3, <1>4, SourceIs, CallIs DEF ComputesMore
  <2>2. Suffix \in Nat /\ Suffix > 0
    BY <2>1 DEF Suffix
  <2> QED
    BY <2>2 DEF CkptsNeeded
<1>7. ckpts \in Seq(Ckpt) /\ IsInjective(ckpts) /\ Len(ckpts) = CkptsNeeded
  <2>1. Cardinality(K) = CkptsNeeded /\ K \subseteq Ckpt
    BY DEF kSubset
  <2>2. ckpts \in [1 .. CkptsNeeded -> K] /\ \A i, j \in 1 .. CkptsNeeded : i # j => ckpts[i] # ckpts[j]
    BY <2>1 DEF SetToSeqs
  <2>3. ckpts \in [1 .. CkptsNeeded -> Ckpt] /\ DOMAIN ckpts = 1 .. CkptsNeeded
    BY <2>1, <2>2
  <2>4. ckpts \in Seq(Ckpt) /\ Len(ckpts) = CkptsNeeded
    BY <1>6, <2>3
  <2> QED
    BY <2>2, <2>3, <2>4 DEF IsInjective
<1>8. /\ CacheInv' /\ UNCHANGED radixVars
      /\ DOMAIN held' = DOMAIN held \cup {Me}
      /\ Len(held'[Me].slots) = Suffix /\ held'[Me].ckpts = ckpts
      /\ tokensUsed \subseteq tokensUsed' /\ ckptsUsed \subseteq ckptsUsed'
  BY <1>2, <1>5, <1>7, ReserveKeeps
<1>9. Me \in DOMAIN held' /\ leases' = leases
  BY <1>5, <1>8 DEF radixVars
<1>10. CacheSound' /\ refused' = FALSE /\ held'[Me].slots \in Seq(Slot)
  BY <1>8, <1>9 DEF CacheSound, CacheInv, HeldTypes
<1>11. /\ CallTypes' /\ call'.op = call.op /\ call'.phase = "run" /\ call'.tokens = call.tokens
       /\ call'.lease = call.lease /\ call'.cursor = call.cursor /\ call'.done = 0 /\ call'.slots = held'[Me].slots
  BY <1>3, <1>4, <1>5, <1>10 DEF CallTypes, Phases
<1>12. Source' = Source /\ Cached' = Cached /\ Suffix' = Suffix /\ Replays' = Replays /\ CkptsNeeded' = CkptsNeeded
  BY <1>9, <1>11, SourceStays
<1>13. PhaseSound'
  BY <1>10, <1>11 DEF PhaseSound
<1>14. ComputesMore'
  BY <1>3, <1>4, <1>11, <1>12 DEF ComputesMore
<1>15. LeasesKnown'
  BY <1>3, <1>4, <1>9, <1>11 DEF LeasesKnown
<1>16. CursorsSound'
  BY <1>3, <1>4, <1>9 DEF CursorsSound
<1>17. HeldSound'
  <2>1. Len(Reserved') = Suffix' - call'.done
    BY <1>6, <1>8, <1>11, <1>12 DEF Reserved
  <2>2. Len(held'[Me].ckpts) = IF CkptsNeeded' = 0 THEN 0 ELSE CkptsNeeded' - call'.done
    BY <1>6, <1>7, <1>8, <1>11, <1>12
  <2> QED
    BY <1>9, <1>11, <2>1, <2>2 DEF HeldSound, Holding, Filling
<1>18. ReplaySound'
  <2>1. Reserved' = call'.slots /\ Len(Reserved') = Suffix'
    BY <1>8, <1>11, <1>12 DEF Reserved
  <2>2. \A i \in 1 .. Len(Reserved') : Reserved'[i] = call'.slots[call'.done + i]
    BY <1>11, <2>1
  <2> QED
    BY <1>6, <1>11, <1>12, <2>1, <2>2 DEF ReplaySound
<1> QED
  BY <1>8, <1>10, <1>13, <1>14, <1>15, <1>16, <1>17, <1>18 DEF EngineInv
-----------------------------------------------------------------------------
(* Settling.                                                                  *)

\* No lease is taken, given back or changed.
LeasesSame == DOMAIN leases' = DOMAIN leases /\ \A l \in DOMAIN leases : leases'[l] = leases[l]

\* The call goes on to a phase that settles it, with its lease and what it builds on.
CallMoves(p) ==
  /\ call.phase \notin {"idle", "advance"}
  /\ p \in Phases \ {"idle", "advance", "accept", "matched", "reserve"}
  /\ call' \in [op : Ops, phase : Phases, tokens : Strings, base : Int, lease : SUBSET LeaseId,
                cursor : SUBSET Cursor, slots : Seq(Slot), done : Nat]
  /\ call'.phase = p /\ call'.op = call.op /\ call'.lease = call.lease /\ call'.cursor = call.cursor
  /\ call'.tokens = call.tokens \/ call.op = "lookup"
  /\ cursors' = cursors /\ LeasesSame
  /\ refused' => p \in {"abort", "close"}

\* Such a step keeps what is known of the call, its leases and its cursors.
LEMMA CallMovesOn ==
  ASSUME EngineInv, NEW p, CallMoves(p)
  PROVE  /\ PhaseSound' /\ LeasesKnown' /\ CursorsSound' /\ Source' = Source /\ Cached' = Cached
         /\ call'.tokens = call.tokens => /\ ComputesMore' /\ Suffix' = Suffix /\ Replays' = Replays
                                          /\ CkptsNeeded' = CkptsNeeded
<1>1. /\ call.phase \notin {"idle", "advance"} /\ p \in Phases \ {"idle", "advance", "accept", "matched", "reserve"}
      /\ CallTypes'
      /\ call'.phase = p /\ call'.op = call.op /\ call'.lease = call.lease /\ call'.cursor = call.cursor
      /\ call'.tokens = call.tokens \/ call.op = "lookup"
      /\ cursors' = cursors
      /\ DOMAIN leases' = DOMAIN leases /\ \A l \in DOMAIN leases : leases'[l] = leases[l]
      /\ refused' => p \in {"abort", "close"}
  BY DEF CallMoves, LeasesSame, CallTypes
<1>2. PhaseSound /\ ComputesMore /\ LeasesKnown /\ CursorsSound
  BY Known
<1>3. Source' = Source
  <2>1. CASE call.lease = {}
    BY <1>1, <2>1 DEF Source
  <2>2. CASE \E l \in LeaseId : call.lease = {l}
    BY <1>1, <1>2, <2>2 DEF Source, LeasesKnown
  <2> QED
    BY <1>2, <2>1, <2>2 DEF LeasesKnown
<1>4. Cached' = Cached
  BY <1>3 DEF Cached
<1>5. PhaseSound'
  BY <1>1 DEF PhaseSound
<1>6. LeasesKnown'
  BY <1>1, <1>2 DEF LeasesKnown
<1>7. CursorsSound'
  BY <1>1, <1>2 DEF CursorsSound
<1>8. ASSUME call'.tokens = call.tokens
      PROVE  ComputesMore' /\ Suffix' = Suffix /\ Replays' = Replays /\ CkptsNeeded' = CkptsNeeded
  <2>1. ComputesMore'
    BY <1>1, <1>2, <1>3, <1>4, <1>8 DEF ComputesMore
  <2>2. Suffix' = Suffix
    BY <1>4, <1>8 DEF Suffix
  <2>3. Replays' = Replays
    BY <1>1, <1>4, <2>2 DEF Replays
  <2> QED
    BY <1>1, <2>1, <2>2, <2>3 DEF CkptsNeeded
<1> QED
  BY <1>3, <1>4, <1>5, <1>6, <1>7, <1>8

\* An insertion that returns no match leaves the leases as they are.
LEMMA InsertLeases ==
  ASSUME NEW key, NEW values, NEW ckpt, Insert(key, values, ckpt, {})
  PROVE  LeasesSame
BY DEF Insert, Extended, LeasesSame

\* A reservation that is settled whole is no more.
LEMMA NoneHeld == Keep(Me, <<>>, <<>>) = Without(Me) /\ Me \notin DOMAIN Without(Me)
BY DEF Keep, Without

\* A settling step of a call whose slots and checkpoints are those it should have.
LEMMA SettlingIs ==
  ASSUME EngineInv, call.phase \in Filling
  PROVE  /\ ~refused /\ CacheInv /\ Me \in DOMAIN held /\ Cached \in Nat /\ Suffix \in Nat /\ CkptsNeeded \in Nat
         /\ Cached + Suffix = Len(call.tokens) /\ call.done \in Nat /\ call.done < Suffix
         /\ Reserved \in Seq(Slot) /\ IsInjective(Reserved) /\ Len(Reserved) = Suffix - call.done
         /\ held[Me].ckpts \in Seq(Ckpt) /\ IsInjective(held[Me].ckpts)
         /\ Len(held[Me].ckpts) = IF CkptsNeeded = 0 THEN 0 ELSE CkptsNeeded - call.done
         /\ call.tokens \in Strings /\ Len(call.tokens) \in Nat /\ Len(call.tokens) <= MaxLength
         /\ IsPrefix(Source.node, call.tokens) /\ Source.values = PathValues(Source.node)
         /\ Source.node \in nodes \cup {Root} /\ Source.node \in Paged
         /\ ~Replays => call.done = 0 /\ Len(held[Me].ckpts) <= 1
<1>1. /\ CacheSound /\ PhaseSound /\ CallTypes /\ ComputesMore /\ LeasesKnown
      /\ HeldSound /\ ReplaySound
  BY Known
<1>2. call.phase \notin {"abort", "close", "idle", "advance"} /\ call.phase \in Holding
  BY DEF Filling, Holding
<1>3. ~refused /\ CacheInv /\ Me \in DOMAIN held
  BY <1>1, <1>2 DEF PhaseSound, CacheSound, HeldSound
<1>4. /\ Cached \in Nat /\ call.tokens \in Strings /\ Len(call.tokens) \in Nat /\ Cached < Len(call.tokens)
      /\ Source.values = PathValues(Source.node) /\ Source.node \in nodes \cup {Root} /\ Source.node \in Paged
      /\ call.done \in Nat
  BY <1>1, <1>2, SourceIs, CallIs DEF ComputesMore
<1>5. Suffix \in Nat /\ Cached + Suffix = Len(call.tokens)
  BY <1>4 DEF Suffix
<1>6. CkptsNeeded \in Nat /\ (~Replays => CkptsNeeded \in {0, 1})
  BY <1>5 DEF CkptsNeeded
<1>7. call.done < Suffix /\ (~Replays => call.done = 0)
  BY <1>1 DEF ReplaySound
<1>8. Reserved = held[Me].slots /\ Me \in DOMAIN held
  BY <1>3 DEF Reserved
<1>9. Reserved \in Seq(Slot) /\ IsInjective(Reserved) /\ held[Me].ckpts \in Seq(Ckpt) /\ IsInjective(held[Me].ckpts)
  BY <1>3, <1>8, ShareIs
<1>10. /\ Len(Reserved) = Suffix - call.done
       /\ Len(held[Me].ckpts) = IF CkptsNeeded = 0 THEN 0 ELSE CkptsNeeded - call.done
  BY <1>1 DEF HeldSound
<1>11. ~Replays => Len(held[Me].ckpts) <= 1
  BY <1>6, <1>7, <1>10
<1> QED
  BY <1>1, <1>2, <1>3, <1>4, <1>5, <1>6, <1>7, <1>9, <1>10, <1>11 DEF ComputesMore

\* Whatever the caller hands over is in use, and so the pools take it.
LEMMA SplitsAccepted ==
  ASSUME CacheInv, NEW c \in DOMAIN held, NEW U, NEW B, NEW V, NEW E, SlotsSplit(U, B), CkptsSplit(V, E),
         U \subseteq Range(held[c].slots), V \subseteq Range(held[c].ckpts)
  PROVE  Accepted(B, E)
<1>1. Range(held[c].slots) \subseteq tokensUsed /\ Range(held[c].ckpts) \subseteq ckptsUsed
  BY ShareIs
<1>2. B \subseteq U /\ E \subseteq V
  BY DEF SlotsSplit, CkptsSplit
<1> QED
  BY <1>1, <1>2 DEF Accepted

\* The whole reservation goes to the tree.
LEMMA InsertCallKeeps ==
  ASSUME EngineInv, InsertCall
  PROVE  EngineInv'
<1> DEFINE values == Source.values \o Reserved
           R == RedundantSlots(call.tokens, values)
           E == RedundantCkpt(call.tokens, NextCkpt)
<1>1. /\ call.phase = "insert" /\ ~Replays /\ call.op # "cursor"
      /\ InsertAndSettle(call.tokens, values, NextCkpt, {})
      /\ held' = IF Accepted(R, E) THEN Without(Me) ELSE held
      /\ Goto(IF Accepted(R, E) THEN "close" ELSE "abort")
      /\ cursors' = cursors
  BY DEF InsertCall, In
<1>2. call.phase \in Filling
  BY <1>1 DEF Filling
<1>3. /\ ~refused /\ CacheInv /\ Me \in DOMAIN held
      /\ Reserved \in Seq(Slot) /\ IsInjective(Reserved)
      /\ held[Me].ckpts \in Seq(Ckpt) /\ Len(held[Me].ckpts) <= 1
      /\ call.tokens \in Strings /\ Len(call.tokens) \in Nat /\ Len(call.tokens) <= MaxLength
      /\ IsPrefix(Source.node, call.tokens) /\ Source.values = PathValues(Source.node)
      /\ Source.node \in nodes \cup {Root}
  BY <1>1, <1>2, SettlingIs
<1>4. /\ Insert(call.tokens, values, NextCkpt, {}) /\ Settle(R, E)
  BY <1>1 DEF InsertAndSettle
<1>5. call.tokens \in Paged
  BY <1>3, <1>4 DEF Insert, Insertable, Paged, Whole
<1>6. /\ NextCkpt = Range(held[Me].ckpts) /\ (NextCkpt = {} \/ \E x : NextCkpt = {x})
      /\ held[Me].slots = Reserved /\ IsInjective(held[Me].ckpts)
  BY <1>3, FirstIs DEF NextCkpt, Reserved
<1>7. /\ TreeInv' /\ Short'
      /\ SlotsSplit(Range(Reserved), R) /\ CkptsSplit(NextCkpt, E)
  <2>1. Me \in DOMAIN held /\ NextCkpt \in SUBSET Range(held[Me].ckpts) /\ Range(Reserved) \subseteq Range(held[Me].slots)
    BY <1>3, <1>6
  <2>2. values = PathValues(Source.node) \o Reserved
    BY <1>3
  <2>3. {} \in SUBSET LeaseId
    OBVIOUS
  <2> HIDE DEF values
  <2> QED
    BY <1>3, <1>4, <1>5, <1>6, <2>1, <2>2, <2>3, InsertParts
<1>8. Accepted(R, E)
  <2> HIDE DEF R, E
  <2> QED
    BY <1>3, <1>6, <1>7, SplitsAccepted
<1> HIDE DEF values, R, E
<1>9. held' = Keep(Me, <<>>, <<>>) /\ Me \notin DOMAIN held' /\ call' = [call EXCEPT !.phase = "close"]
  BY <1>1, <1>3, <1>8, NothingIs, NoneHeld DEF Goto
<1>10. CacheInv'
  <2>1. HandsOver(Me, <<>>, <<>>, Range(Reserved), R, NextCkpt, E)
    <3>1. /\ <<>> \in Seq(Slot) /\ <<>> \in Seq(Ckpt) /\ IsInjective(<<>>) /\ Range(<<>>) = {}
      BY NothingIs
    <3> QED
      BY <1>4, <1>6, <1>7, <1>9, <3>1 DEF HandsOver
  <2> QED
    BY <1>3, <1>7, <2>1, CallerStep
<1>11. CacheSound' /\ refused' = FALSE
  BY <1>10 DEF CacheSound, CacheInv, HeldTypes
<1>12. /\ call'.phase = "close" /\ call'.tokens = call.tokens /\ CallMoves("close")
  <2>1. CallTypes /\ LeasesSame
    BY <1>4, Known, InsertLeases
  <2>2. /\ call' \in [op : Ops, phase : Phases, tokens : Strings, base : Int, lease : SUBSET LeaseId,
                      cursor : SUBSET Cursor, slots : Seq(Slot), done : Nat]
        /\ call'.phase = "close" /\ call'.op = call.op /\ call'.lease = call.lease /\ call'.cursor = call.cursor
        /\ call'.tokens = call.tokens
    BY <1>9, <2>1 DEF CallTypes, Phases
  <2> QED
    BY <1>1, <1>11, <2>1, <2>2 DEF CallMoves, Phases
<1>13. PhaseSound' /\ LeasesKnown' /\ CursorsSound' /\ ComputesMore'
  BY <1>12, CallMovesOn
<1>14. HeldSound' /\ ReplaySound'
  BY <1>9, <1>12 DEF HeldSound, ReplaySound, Holding, Filling
<1> QED
  BY <1>11, <1>13, <1>14 DEF EngineInv

\* The rejected slots of a draft go back, and the call is for what was accepted.
LEMMA AcceptDraftKeeps ==
  ASSUME EngineInv, NEW accepted \in 0 .. MaxLength, AcceptDraft(accepted)
  PROVE  EngineInv'
<1> DEFINE committed == accepted + 1
           tail == SubSeq(Reserved, committed + 1, Suffix)
           head == Upto(Reserved, committed)
<1>1. /\ call.phase = "accept" /\ committed <= Suffix
      /\ GiveBack(Range(tail), {})
      /\ held' = Keep(Me, head, <<>>)
      /\ call' = [call EXCEPT !.phase = "insert", !.tokens = Upto(call.tokens, Cached + committed)]
      /\ UNCHANGED radixVars /\ cursors' = cursors
  BY DEF AcceptDraft, In
<1>2. call.phase \in Filling /\ call.op = "lookup" /\ CkptsNeeded = 0 /\ ~Replays
  BY <1>1, Known DEF Filling, PhaseSound, CkptsNeeded, Replays
<1>3. /\ ~refused /\ CacheInv /\ Me \in DOMAIN held /\ Cached \in Nat /\ Suffix \in Nat
      /\ Cached + Suffix = Len(call.tokens) /\ call.done = 0
      /\ Reserved \in Seq(Slot) /\ IsInjective(Reserved) /\ Len(Reserved) = Suffix
      /\ held[Me].ckpts \in Seq(Ckpt) /\ Len(held[Me].ckpts) = 0
      /\ call.tokens \in Strings /\ Len(call.tokens) <= MaxLength
      /\ IsPrefix(Source.node, call.tokens) /\ Source.node \in Paged
  BY <1>2, SettlingIs
<1>4. committed \in Nat /\ committed > 0 /\ MaxLength \in Nat /\ accepted \in Nat
  BY CacheAssumption
<1> HIDE DEF committed
<1>5. /\ head \in Seq(Slot) /\ IsInjective(head) /\ Len(head) = committed
      /\ Range(Reserved) = Range(tail) \cup Range(head) /\ Range(tail) \cap Range(head) = {}
  <2>1. committed + 1 = committed + 1 /\ Len(Reserved) = Suffix /\ committed <= Len(Reserved)
    BY <1>1, <1>3
  <2> DEFINE none == SubSeq(Reserved, committed + 1, committed)
  <2>2. tail = SubSeq(Reserved, committed + 1, Len(Reserved)) /\ head = SubSeq(Reserved, 1, committed)
    BY <1>3 DEF Upto
  <2> HIDE DEF tail, head, none
  <2>3. CutInThree(Slot, Reserved, committed, committed, head, none, tail)
    BY <1>3, <1>4, <2>1, <2>2 DEF CutInThree, none
  <2>4. /\ head \in Seq(Slot) /\ IsInjective(head) /\ Len(head) = committed
        /\ Range(Reserved) = Range(head) \cup Range(none) \cup Range(tail) /\ Range(head) \cap Range(tail) = {}
    BY <2>3, ThreeParts
  <2>5. Range(none) = {}
    <3>1. none = <<>>
      BY <1>3, <1>4 DEF none
    <3> QED
      BY <3>1, NothingIs
  <2> QED
    BY <2>4, <2>5
<1> HIDE DEF tail, head
<1>6. held[Me].slots = Reserved /\ Me \in DOMAIN held /\ held[Me].ckpts = <<>> /\ Range(held[Me].ckpts) = {}
  <2>1. held[Me].ckpts = <<>>
    BY <1>3
  <2> QED
    BY <1>3, <2>1, NothingIs DEF Reserved
<1>7. /\ nodes' = nodes /\ slotAt' = slotAt /\ ckptAt' = ckptAt /\ leases' = leases /\ TreeInv' /\ Short'
  <2>1. UNCHANGED <<nodes, slotAt, cachedTokens, resumable, ckptAt, lockRef, leases>>
    BY <1>1 DEF radixVars
  <2>2. TreeInv /\ Short
    BY Known
  <2>3. TreeInv'
    BY <2>1, <2>2 DEF TreeInv, TreeTypes, Tree, LockRefExact, LeasePinned, PathValues, CkptOf
  <2> QED
    BY <2>1, <2>2, <2>3 DEF Short
<1>8. CacheInv'
  <2>1. IsInjective(slotAt) /\ IsInjective(ckptAt)
    BY <1>3, <1>6, ShareIs
  <2>2. SlotsSplit(Range(tail), Range(tail)) /\ CkptsSplit({}, {})
    <3>1. Range(tail) = {} \cup Range(tail) /\ {} \cap Range(tail) = {} /\ {} = {} \cup {} /\ {} \cap {} = {}
      OBVIOUS
    <3>2. IsInjective(slotAt') /\ Range(slotAt') = Range(slotAt) \cup {}
      BY <1>7, <2>1
    <3>3. IsInjective(ckptAt') /\ Range(ckptAt') = Range(ckptAt) \cup {}
      BY <1>7, <2>1
    <3>4. SlotsSplit(Range(tail), Range(tail))
      BY <3>1, <3>2 DEF SlotsSplit
    <3> QED
      BY <3>1, <3>3, <3>4 DEF CkptsSplit
  <2>3. HandsOver(Me, head, <<>>, Range(tail), Range(tail), {}, {})
    <3>1. <<>> \in Seq(Ckpt) /\ IsInjective(<<>>) /\ Range(<<>>) = {}
      BY NothingIs
    <3> QED
      BY <1>1, <1>5, <1>6, <2>2, <3>1 DEF HandsOver
  <2> QED
    BY <1>3, <1>6, <1>7, <2>3, CallerStep
<1>9. CacheSound' /\ refused' = FALSE
  BY <1>8 DEF CacheSound, CacheInv, HeldTypes
<1>10. Me \in DOMAIN held' /\ held'[Me].slots = head /\ held'[Me].ckpts = <<>>
  <2>1. head # <<>>
    BY <1>4, <1>5
  <2> QED
    BY <1>1, <1>3, <2>1 DEF Keep
<1>11. /\ Upto(call.tokens, Cached + committed) \in Strings
       /\ Len(Upto(call.tokens, Cached + committed)) = Cached + committed
       /\ Cached + committed \in 0 .. Len(call.tokens)
  <2>1. Cached + committed \in 0 .. Len(call.tokens)
    BY <1>1, <1>3, <1>4
  <2> QED
    BY <1>3, <2>1, UptoIs
<1>12. /\ call' \in [op : Ops, phase : Phases, tokens : Strings, base : Int, lease : SUBSET LeaseId,
                     cursor : SUBSET Cursor, slots : Seq(Slot), done : Nat]
       /\ call'.phase = "insert" /\ call'.op = "lookup" /\ call'.lease = call.lease /\ call'.cursor = call.cursor
       /\ call'.tokens = Upto(call.tokens, Cached + committed) /\ call'.done = 0
  BY <1>1, <1>2, <1>3, <1>11, Known DEF CallTypes, Phases
<1>13. PhaseSound' /\ LeasesKnown' /\ CursorsSound' /\ Source' = Source /\ Cached' = Cached
  <2>1. LeasesSame
    BY <1>7 DEF LeasesSame
  <2>2. CallMoves("insert")
    BY <1>1, <1>2, <1>9, <1>12, <2>1 DEF CallMoves, Phases
  <2> QED
    BY <2>2, CallMovesOn
<1>14. ComputesMore'
  <2>1. Source.node \in Strings /\ Len(Source.node) <= Cached + committed
    BY <1>3, <1>4 DEF Paged, Cached
  <2>2. IsPrefix(Upto(call.tokens, Cached + committed), call.tokens)
    BY <1>3, <1>11, PrefixOrder
  <2>3. IsPrefix(Source.node, Upto(call.tokens, Cached + committed))
    BY <1>3, <1>11, <2>1, <2>2, PrefixOrder
  <2> QED
    BY <1>3, <1>4, <1>11, <1>12, <1>13, <2>3 DEF ComputesMore
<1>15. Suffix' = committed /\ CkptsNeeded' = 0 /\ ~Replays'
  BY <1>3, <1>4, <1>11, <1>12, <1>13 DEF Suffix, CkptsNeeded, Replays
<1>16. HeldSound'
  BY <1>4, <1>5, <1>10, <1>12, <1>15 DEF HeldSound, Holding, Filling, Reserved
<1>17. ReplaySound'
  BY <1>4, <1>12, <1>15 DEF ReplaySound
<1> QED
  BY <1>9, <1>13, <1>14, <1>16, <1>17 DEF EngineInv

\* The lease of a cursor moves on to the token it decoded.
LEMMA ExtendCallKeeps ==
  ASSUME EngineInv, NEW m \in LeaseId, ExtendCall(m)
  PROVE  EngineInv'
<1>1. PICK l \in call.lease : ExtendMatch(Me, l, m, Last(call.tokens))
  BY DEF ExtendCall
<1>2. /\ call.phase = "insert" /\ call.op = "cursor" /\ cursors' = cursors
      /\ call' = [call EXCEPT !.phase = "advance", !.lease = {m}]
  BY DEF ExtendCall, In
<1>3. call.phase \in Filling /\ ~Replays
  BY <1>2 DEF Filling, Replays
<1>4. /\ ~refused /\ CacheInv /\ Me \in DOMAIN held /\ Len(held[Me].ckpts) <= 1
  BY <1>3, SettlingIs
<1>5. LeasesKnown /\ CursorsSound /\ CallTypes /\ TreeInv
  BY Known
<1>6. PICK q \in DOMAIN cursors :
        /\ call.cursor = {q} /\ call.lease = {cursors[q].lease}
        /\ \E t \in Token : call.tokens = Append(cursors[q].tokens, t)
  BY <1>2, <1>5 DEF LeasesKnown
<1>7. PICK t \in Token : call.tokens = Append(cursors[q].tokens, t)
  BY <1>6
<1>8. /\ l = cursors[q].lease /\ l \in DOMAIN leases /\ leases[l].node = cursors[q].tokens
  BY <1>1, <1>5, <1>6 DEF CursorsSound
<1>9. Last(call.tokens) = t /\ Append(leases[l].node, t) = call.tokens
  <2>1. leases[l].node \in Strings
    BY <1>5, <1>8, LeasedNodes DEF Paged
  <2> QED
    BY <1>7, <1>8, <2>1, OneMore
<1>10. ExtendMatch(Me, l, m, t)
  BY <1>1, <1>9
<1>11. CacheInv'
  BY <1>4, <1>8, <1>10, ExtendMatchKeeps
<1>12. CacheSound' /\ refused' = FALSE
  BY <1>11 DEF CacheSound, CacheInv, HeldTypes
<1>13. Me \notin DOMAIN held'
  BY <1>4, <1>10, NoneHeld DEF ExtendMatch
<1>14. LeaseAdded(m, call.tokens)
  <2>1. Extend(l, m, t, held[Me].slots[1], First(held[Me].ckpts))
    BY <1>10 DEF ExtendMatch
  <2> QED
    BY <1>9, <2>1 DEF Extend, Put, Lease, LeaseAdded
<1>15. /\ CallTypes' /\ call'.phase = "advance" /\ call'.op = "cursor" /\ call'.tokens = call.tokens
       /\ call'.lease = {m} /\ call'.cursor = {q}
  BY <1>2, <1>5, <1>6 DEF CallTypes, Phases
<1>16. PhaseSound'
  BY <1>12, <1>15 DEF PhaseSound
<1>17. ComputesMore'
  BY <1>15 DEF ComputesMore
<1>18. LeasesKnown'
  <2>1. \A k \in DOMAIN leases' : k \in {m} \/ \E r \in DOMAIN cursors : k = cursors[r].lease
    BY <1>5, <1>6, <1>14 DEF LeasesKnown, LeaseAdded
  <2>2. \A r \in DOMAIN cursors : cursors[r].lease \notin {m}
    BY <1>5, <1>14 DEF CursorsSound, LeaseAdded
  <2> QED
    BY <1>2, <1>14, <1>15, <2>1, <2>2 DEF LeasesKnown, LeaseAdded
<1>19. CursorsSound'
  BY <1>2, <1>5, <1>14 DEF CursorsSound, LeaseAdded
<1>20. HeldSound' /\ ReplaySound'
  BY <1>13, <1>15 DEF HeldSound, ReplaySound, Holding, Filling
<1> QED
  BY <1>12, <1>16, <1>17, <1>18, <1>19, <1>20 DEF EngineInv

\* What a failed call has reserved goes back, also after a refusal.
LEMMA AbortCallKeeps ==
  ASSUME EngineInv, AbortCall
  PROVE  EngineInv'
<1>1. call.phase = "abort" /\ Abort(Me) /\ Goto("close") /\ cursors' = cursors
  BY DEF AbortCall, In
<1>2. CacheSound /\ CallTypes /\ TreeInv /\ Short /\ HeldSound
  BY Known
<1>3. Me \in DOMAIN held /\ Me \notin DOMAIN held'
  <2>1. Me \in DOMAIN held
    BY <1>1, <1>2 DEF HeldSound, Holding
  <2> QED
    BY <1>1, <2>1, NoneHeld DEF Abort
<1>4. UNCHANGED <<nodes, slotAt, cachedTokens, resumable, ckptAt, lockRef, leases>>
  BY <1>1 DEF Abort, radixVars
<1>5. TreeInv' /\ Short'
  BY <1>2, <1>4 DEF TreeInv, TreeTypes, Tree, LockRefExact, LeasePinned, PathValues, CkptOf, Short
<1>6. refused' \in BOOLEAN /\ (refused => refused')
  BY <1>1, <1>2 DEF Abort, GiveBack, CacheSound
<1>7. ~refused => CacheInv'
  BY <1>1, <1>2, <1>3, AbortKeeps DEF CacheSound
<1>8. CacheSound'
  BY <1>5, <1>6, <1>7 DEF CacheSound
<1>9. call'.phase = "close" /\ call'.tokens = call.tokens /\ CallMoves("close")
  <2>1. LeasesSame
    BY <1>4 DEF LeasesSame
  <2>2. /\ call' \in [op : Ops, phase : Phases, tokens : Strings, base : Int, lease : SUBSET LeaseId,
                      cursor : SUBSET Cursor, slots : Seq(Slot), done : Nat]
        /\ call'.phase = "close" /\ call'.op = call.op /\ call'.lease = call.lease /\ call'.cursor = call.cursor
        /\ call'.tokens = call.tokens
    BY <1>1, <1>2 DEF CallTypes, Phases, Goto
  <2> QED
    BY <1>1, <2>1, <2>2 DEF CallMoves, Phases
<1>10. PhaseSound' /\ LeasesKnown' /\ CursorsSound' /\ ComputesMore'
  BY <1>9, CallMovesOn
<1>11. HeldSound' /\ ReplaySound'
  BY <1>3, <1>9 DEF HeldSound, ReplaySound, Holding, Filling
<1> QED
  BY <1>8, <1>10, <1>11 DEF EngineInv
-----------------------------------------------------------------------------
(* Ending a call.                                                             *)

\* An engine without a call, whose cache is sound and whose cursors have its leases.
Resting ==
  /\ call = NoCall /\ CacheSound /\ CursorsSound /\ Me \notin DOMAIN held
  /\ \A l \in DOMAIN leases : \E q \in DOMAIN cursors : l = cursors[q].lease

\* That is all the invariant asks between calls.
LEMMA RestingSound == Resting => EngineInv
<1> SUFFICES ASSUME Resting PROVE EngineInv
  OBVIOUS
<1>1. /\ call.op = "none" /\ call.phase = "idle" /\ call.tokens = <<>> /\ call.base = 0 /\ call.lease = {}
      /\ call.cursor = {} /\ call.slots = <<>> /\ call.done = 0
  BY DEF NoCall, Resting
<1>2. CallTypes
  <2>1. <<>> \in Strings /\ <<>> \in Seq(Slot)
    BY PrefixOrder, NothingIs DEF Root
  <2> QED
    BY <2>1 DEF CallTypes, NoCall, Ops, Phases, Resting
<1>3. PhaseSound
  BY <1>1, <1>2 DEF PhaseSound, Resting
<1>4. ComputesMore /\ HeldSound /\ ReplaySound
  BY <1>1 DEF ComputesMore, HeldSound, ReplaySound, Holding, Filling, Resting
<1>5. LeasesKnown
  BY <1>1 DEF LeasesKnown, Resting
<1> QED
  BY <1>3, <1>4, <1>5 DEF EngineInv, Resting

\* The same, of the state a step leads to.
Rests ==
  /\ call' = NoCall /\ CacheSound' /\ CursorsSound' /\ Me \notin DOMAIN held'
  /\ \A l \in DOMAIN leases' : \E q \in DOMAIN cursors' : l = cursors'[q].lease

\* So such a step keeps it.
LEMMA RestSound ==
  ASSUME Rests
  PROVE  EngineInv'
<1>1. Resting'
  BY DEF Rests, Resting, NoCall
<1> QED
  BY <1>1, RestingSound, PTL

\* The call ends; its lease is given back, unless it is a cursor's.
LEMMA CloseKeeps ==
  ASSUME EngineInv, Close
  PROVE  EngineInv'
<1>1. /\ call.phase = "close" /\ call' = NoCall /\ cursors' = cursors
      /\ IF call.op = "cursor" \/ call.lease = {} THEN UNCHANGED vars
         ELSE \E l \in call.lease : ReleaseMatch(l)
  BY DEF Close, In
<1>2. CacheSound /\ LeasesKnown /\ CursorsSound /\ Me \notin DOMAIN held
  BY <1>1, Known DEF HeldSound, Holding
<1>3. CASE call.op = "cursor" \/ call.lease = {}
  <2>1. UNCHANGED vars /\ leases' = leases /\ held' = held
    BY <1>1, <1>3 DEF vars
  <2>2. CacheSound'
    BY <1>2, <2>1, SoundStays
  <2>3. CursorsSound'
    BY <1>1, <1>2, <2>1 DEF CursorsSound
  <2>4. \A l \in DOMAIN leases : \E q \in DOMAIN cursors : l = cursors[q].lease
    BY <1>1, <1>2, <1>3 DEF LeasesKnown
  <2>5. Rests
    BY <1>1, <1>2, <2>1, <2>2, <2>3, <2>4 DEF Rests
  <2> QED
    BY <2>5, RestSound
<1>4. CASE ~(call.op = "cursor" \/ call.lease = {})
  <2>1. PICK l \in call.lease : ReleaseMatch(l)
    BY <1>1, <1>4
  <2>2. call.lease = {l} /\ \A q \in DOMAIN cursors : cursors[q].lease # l
    BY <1>2, <1>4, <2>1 DEF LeasesKnown
  <2>3. CacheSound' /\ LeaseGone(l) /\ held' = held
    BY <1>2, <2>1, ReleaseSound
  <2>4. CursorsSound'
    BY <1>1, <1>2, <2>2, <2>3 DEF CursorsSound, LeaseGone
  <2>5. \A k \in DOMAIN leases' : \E q \in DOMAIN cursors' : k = cursors'[q].lease
    BY <1>1, <1>2, <2>2, <2>3 DEF LeasesKnown, LeaseGone
  <2>6. Rests
    BY <1>1, <1>2, <2>3, <2>4, <2>5 DEF Rests
  <2> QED
    BY <2>6, RestSound
<1> QED
  BY <1>3, <1>4

\* The cursor takes its call's lease, and gives back the one it had.
LEMMA AdvanceKeeps ==
  ASSUME EngineInv, Advance
  PROVE  EngineInv'
<1>1. PICK q \in call.cursor, m \in call.lease :
        /\ ReleaseMatch(cursors[q].lease)
        /\ cursors' = [cursors EXCEPT ![q] = [tokens |-> call.tokens, lease |-> m]]
  BY DEF Advance
<1>2. call.phase = "advance" /\ call' = NoCall
  BY DEF Advance, In
<1>3. CacheSound /\ LeasesKnown /\ CursorsSound /\ Me \notin DOMAIN held /\ call.op = "cursor"
  BY <1>2, Known DEF HeldSound, Holding, PhaseSound
<1>4. /\ call.cursor = {q} /\ call.lease = {m} /\ leases[m].node = call.tokens /\ m \in DOMAIN leases
      /\ q \in DOMAIN cursors /\ \A r \in DOMAIN cursors : cursors[r].lease # m
  BY <1>1, <1>2, <1>3 DEF LeasesKnown
<1>5. CacheSound' /\ LeaseGone(cursors[q].lease) /\ held' = held
  BY <1>1, <1>3, ReleaseSound
<1>6. /\ DOMAIN cursors' = DOMAIN cursors /\ cursors'[q].tokens = call.tokens /\ cursors'[q].lease = m
      /\ \A r \in DOMAIN cursors \ {q} : cursors'[r] = cursors[r]
  BY <1>1, <1>4
<1>7. CursorsSound'
  BY <1>3, <1>4, <1>5, <1>6 DEF CursorsSound, LeaseGone
<1>8. \A k \in DOMAIN leases' : \E r \in DOMAIN cursors' : k = cursors'[r].lease
  BY <1>3, <1>4, <1>5, <1>6 DEF LeasesKnown, LeaseGone
<1>9. Rests
  BY <1>2, <1>3, <1>5, <1>7, <1>8 DEF Rests
<1> QED
  BY <1>9, RestSound

\* A cursor opened at tokens a match may stop at is anchored at all of them.
LEMMA OpenKeeps ==
  ASSUME EngineInv, NEW q \in Cursor, NEW l \in LeaseId, NEW tokens, OpenCursor(q, l, tokens)
  PROVE  EngineInv'
<1>1. /\ Idle /\ q \notin DOMAIN cursors /\ tokens \in resumable /\ Match(l, tokens, 0) /\ call' = call
      /\ cursors' = Put(cursors, q, [tokens |-> tokens, lease |-> l])
  BY DEF OpenCursor
<1>2. /\ call = NoCall /\ Me \notin DOMAIN held /\ ~refused /\ CacheInv /\ TreeInv
      /\ \A m \in DOMAIN leases : \E r \in DOMAIN cursors : m = cursors[r].lease
      /\ CursorsSound
  BY <1>1, IdleIs
<1>3. tokens \in Strings /\ Len(tokens) <= MaxLength /\ Len(tokens) \in Nat /\ Upto(tokens, Len(tokens)) = tokens
  <2>1. tokens \in nodes /\ tokens \in Strings
    BY <1>1, <1>2 DEF TreeInv, TreeTypes, Tree, Paged
  <2> QED
    BY <1>2, <2>1, UptoUpto DEF CacheInv, Short
<1>4. MatchPrefix(l, tokens) /\ UNCHANGED <<tokensUsed, ckptsUsed, held, refused>>
  <2>1. ~(0 > Len(tokens)) /\ Len(tokens) - 0 = Len(tokens)
    BY <1>3
  <2> QED
    BY <1>1, <1>3, <2>1 DEF Match, poolVars
<1>5. LeaseAdded(l, tokens)
  <2>1. PICK n \in Paged : IsPrefix(n, tokens) /\ LeaseAdded(l, n) /\ (tokens \in resumable => n = tokens)
    BY <1>2, <1>3, <1>4, MatchFinds
  <2> QED
    BY <1>1, <2>1
<1>6. CacheInv'
  BY <1>2, <1>3, <1>4, LookupKeeps
<1>7. CacheSound'
  BY <1>6 DEF CacheSound, CacheInv, HeldTypes
<1>8. /\ DOMAIN cursors' = DOMAIN cursors \cup {q} /\ cursors'[q].tokens = tokens /\ cursors'[q].lease = l
      /\ \A r \in DOMAIN cursors : cursors'[r] = cursors[r]
  BY <1>1 DEF Put
<1>9. CursorsSound'
  BY <1>1, <1>2, <1>5, <1>8 DEF CursorsSound, LeaseAdded
<1>10. \A k \in DOMAIN leases' : \E r \in DOMAIN cursors' : k = cursors'[r].lease
  BY <1>2, <1>5, <1>8 DEF LeaseAdded
<1>11. Rests
  BY <1>1, <1>2, <1>4, <1>7, <1>9, <1>10 DEF Rests
<1> QED
  BY <1>11, RestSound

\* A closed cursor gives its lease back.
LEMMA CloseCursorKeeps ==
  ASSUME EngineInv, NEW q \in DOMAIN cursors, CloseCursor(q)
  PROVE  EngineInv'
<1>1. /\ Idle /\ ReleaseMatch(cursors[q].lease) /\ call' = call
      /\ cursors' = [r \in DOMAIN cursors \ {q} |-> cursors[r]]
  BY DEF CloseCursor
<1>2. /\ call = NoCall /\ Me \notin DOMAIN held /\ CursorsSound /\ CacheSound
      /\ \A m \in DOMAIN leases : \E r \in DOMAIN cursors : m = cursors[r].lease
  BY <1>1, IdleIs, Known
<1>3. CacheSound' /\ LeaseGone(cursors[q].lease) /\ held' = held
  BY <1>1, <1>2, ReleaseSound
<1>4. DOMAIN cursors' = DOMAIN cursors \ {q} /\ \A r \in DOMAIN cursors \ {q} : cursors'[r] = cursors[r]
  BY <1>1
<1>5. CursorsSound'
  BY <1>2, <1>3, <1>4 DEF CursorsSound, LeaseGone
<1>6. \A k \in DOMAIN leases' : \E r \in DOMAIN cursors' : k = cursors'[r].lease
  BY <1>2, <1>3, <1>4 DEF LeaseGone
<1>7. Rests
  BY <1>1, <1>2, <1>3, <1>5, <1>6 DEF Rests
<1> QED
  BY <1>7, RestSound

\* What holds of a new cache.
LEMMA CacheBegins == Init => CacheInv
BY CacheStarts

\* A reset begins with a new cache.
LEMMA ResetKeeps ==
  ASSUME EngineInv, Reset
  PROVE  EngineInv'
<1>1. /\ Idle /\ call' = call /\ cursors' = <<>> /\ held' = <<>> /\ leases' = <<>>
      /\ nodes' = {} /\ slotAt' = <<>> /\ cachedTokens' = 0 /\ resumable' = {}
      /\ ckptAt' = <<>> /\ lockRef' = <<>> /\ tokensUsed' = {} /\ ckptsUsed' = {} /\ refused' = FALSE
  BY DEF Reset
<1>2. call = NoCall
  BY <1>1, IdleIs
<1>3. Init'
  BY <1>1 DEF Init, RadixInit, Tokens!PoolInit, Ckpts!PoolInit
<1>4. CacheInv'
  BY <1>3, CacheBegins, PTL
<1>5. CacheSound'
  BY <1>4 DEF CacheSound, CacheInv, HeldTypes
<1>6. DOMAIN leases' = {} /\ DOMAIN cursors' = {} /\ DOMAIN held' = {}
  BY <1>1
<1>7. CursorsSound'
  BY <1>6 DEF CursorsSound
<1>8. Rests
  BY <1>1, <1>2, <1>5, <1>6, <1>7 DEF Rests
<1> QED
  BY <1>8, RestSound

\* What a cursor that outlived a reset does leaves the cache and the calls alone.
LEMMA OrphanKeeps ==
  ASSUME EngineInv, NEW q, DecodeOrphan(q) \/ CloseOrphan(q)
  PROVE  EngineInv'
<1>1. Idle /\ call' = call /\ cursors' = cursors /\ UNCHANGED vars
  BY DEF DecodeOrphan, CloseOrphan
<1>2. /\ call = NoCall /\ Me \notin DOMAIN held /\ CursorsSound /\ CacheSound
      /\ \A l \in DOMAIN leases : \E r \in DOMAIN cursors : l = cursors[r].lease
  BY <1>1, IdleIs, Known
<1>3. leases' = leases /\ held' = held
  BY <1>1 DEF vars
<1>4. CacheSound'
  BY <1>1, <1>2, SoundStays
<1>5. CursorsSound'
  BY <1>1, <1>2, <1>3 DEF CursorsSound
<1>6. Rests
  BY <1>1, <1>2, <1>3, <1>4, <1>5 DEF Rests
<1> QED
  BY <1>6, RestSound

\* A share that only changes its owner is still owned once.
LEMMA RenamedKeeps ==
  ASSUME NEW table, NEW share, NEW used, NEW share2, NEW c \in DOMAIN share, NEW d,
         Owned(table, share, used), d \notin DOMAIN share,
         DOMAIN share2 = (DOMAIN share \ {c}) \cup {d}, share2[d] = share[c],
         \A e \in DOMAIN share \ {c} : share2[e] = share[e]
  PROVE  Owned(table, share2, used)
<1> DEFINE was(e) == IF e = d THEN c ELSE e
<1>1. \A e \in DOMAIN share2 : was(e) \in DOMAIN share /\ share2[e] = share[was(e)]
  OBVIOUS
<1>2. \A e, f \in DOMAIN share2 : e # f => was(e) # was(f)
  OBVIOUS
<1>3. \A e \in DOMAIN share : \E f \in DOMAIN share2 : e = was(f)
  OBVIOUS
<1> HIDE DEF was
<1>4. UNION {Range(share2[e]) : e \in DOMAIN share2} = UNION {Range(share[e]) : e \in DOMAIN share}
  BY <1>1, <1>3
<1>5. /\ IsInjective(table)
      /\ \A e \in DOMAIN share : IsInjective(share[e])
      /\ \A e, f \in DOMAIN share : e # f => Range(share[e]) \cap Range(share[f]) = {}
      /\ \A e \in DOMAIN share : Range(table) \cap Range(share[e]) = {}
      /\ Range(table) \cup UNION {Range(share[e]) : e \in DOMAIN share} = used
  BY DEF Owned
<1>6. /\ \A e \in DOMAIN share2 : IsInjective(share2[e])
      /\ \A e \in DOMAIN share2 : Range(table) \cap Range(share2[e]) = {}
  BY <1>1, <1>5
<1>7. \A e, f \in DOMAIN share2 : e # f => Range(share2[e]) \cap Range(share2[f]) = {}
  BY <1>1, <1>2, <1>5
<1> QED
  BY <1>4, <1>5, <1>6, <1>7 DEF Owned

\* A call that ends in an exception leaves its reservation under a name of its own.
LEMMA RaiseKeeps ==
  ASSUME EngineInv, NEW gone \in Lost, ExtendCallRaises(gone)
  PROVE  EngineInv'
<1>1. /\ call.phase = "insert" /\ call.op = "cursor" /\ gone \notin DOMAIN held /\ call' = NoCall
      /\ held' = Put(Without(Me), gone, held[Me]) /\ cursors' = cursors
      /\ UNCHANGED <<nodes, slotAt, cachedTokens, resumable, ckptAt, lockRef, leases>>
      /\ UNCHANGED <<tokensUsed, ckptsUsed, refused>>
  BY DEF ExtendCallRaises, In, radixVars, poolVars
<1>2. ~refused /\ CacheInv /\ Me \in DOMAIN held
  BY <1>1, SettlingIs DEF Filling
<1>3. LeasesKnown /\ CursorsSound
  BY Known
<1>4. gone \in Caller /\ gone # Me
  BY DEF Lost
<1>5. /\ DOMAIN held' = (DOMAIN held \ {Me}) \cup {gone} /\ held'[gone] = held[Me]
      /\ \A c \in DOMAIN held \ {Me} : held'[c] = held[c]
  BY <1>1, <1>4 DEF Put, Without
<1>6. TreeInv /\ Short /\ HeldTypes /\ Owned(slotAt, SlotsOf(held), tokensUsed) /\ Owned(ckptAt, CkptsOf(held), ckptsUsed)
  BY <1>2 DEF CacheInv
<1>7. TreeInv' /\ Short'
  BY <1>1, <1>6 DEF TreeInv, TreeTypes, Tree, LockRefExact, LeasePinned, PathValues, CkptOf, Short
<1>8. HeldTypes'
  BY <1>1, <1>2, <1>4, <1>5, <1>6 DEF HeldTypes
<1>9. Owned(slotAt, SlotsOf(held'), tokensUsed)
  BY <1>1, <1>2, <1>4, <1>5, <1>6, RenamedKeeps DEF SlotsOf
<1>10. Owned(ckptAt, CkptsOf(held'), ckptsUsed)
  BY <1>1, <1>2, <1>4, <1>5, <1>6, RenamedKeeps DEF CkptsOf
<1>11. CacheInv'
  BY <1>1, <1>7, <1>8, <1>9, <1>10 DEF CacheInv, Owned
<1>12. CacheSound'
  BY <1>11 DEF CacheSound, CacheInv, HeldTypes
<1>13. CursorsSound'
  BY <1>1, <1>3 DEF CursorsSound
<1>14. \A l \in DOMAIN leases : \E q \in DOMAIN cursors : l = cursors[q].lease
  BY <1>1, <1>3 DEF LeasesKnown
<1>15. Me \notin DOMAIN held'
  BY <1>4, <1>5
<1>16. Rests
  BY <1>1, <1>12, <1>13, <1>14, <1>15 DEF Rests
<1> QED
  BY <1>16, RestSound
-----------------------------------------------------------------------------
(* A replay, which inserts its reservation token by token.                    *)

\* Two sequences of slots, one behind the other.
LEMMA BehindIs ==
  ASSUME NEW s \in Seq(Slot), NEW t \in Seq(Slot)
  PROVE  /\ s \o t \in Seq(Slot) /\ Len(s \o t) = Len(s) + Len(t)
         /\ \A i \in 1 .. Len(s) : (s \o t)[i] = s[i]
         /\ \A i \in 1 .. Len(t) : (s \o t)[Len(s) + i] = t[i]
OBVIOUS

\* With pages of one token a position is the prefix that ends there.
LEMMA AtUpto ==
  ASSUME PageSize = 1, NEW s \in Strings, NEW n \in 0 .. Len(s), NEW i \in 1 .. n
  PROVE  At(Upto(s, n), i) = At(s, i)
<1>1. Len(s) \in Nat /\ i \in Nat /\ i \in 0 .. n
  BY UptoUpto
<1>2. i + PageSize - 1 = i
  BY <1>1
<1>3. Aligned(i) \in Nat /\ Aligned(i) <= i /\ i < Aligned(i) + 1
  BY <1>1, PagesAre
<1>4. Aligned(i) = i
  BY <1>1, <1>3
<1>5. Upto(Upto(s, n), i) = Upto(s, i)
  BY <1>1, UptoUpto
<1> QED
  BY <1>2, <1>4, <1>5 DEF At

\* The key and the values of the next insertion, and the node the last one ended at.
ReplayKey == Upto(call.tokens, Cached + call.done + 1)
ReplayBase == Upto(call.tokens, Cached + call.done)
ReplayValues == Source.values \o SubSeq(call.slots, 1, call.done + 1)
ReplaySlots == RedundantSlots(ReplayKey, ReplayValues)
ReplayCkpt == RedundantCkpt(ReplayKey, NextCkpt)

\* What the step is, by these names.
LEMMA ReplayStep ==
  ASSUME CallTypes, InsertReplay
  PROVE  /\ call.phase = "insert" /\ Replays
         /\ Insert(ReplayKey, ReplayValues, NextCkpt, {}) /\ Settle(ReplaySlots, ReplayCkpt)
         /\ held' = IF Accepted(ReplaySlots, ReplayCkpt)
                    THEN Keep(Me, Tail(Reserved), IF Recurrent THEN Tail(held[Me].ckpts) ELSE <<>>) ELSE held
         /\ call' = [call EXCEPT !.done = call.done + 1,
                       !.phase = IF ~Accepted(ReplaySlots, ReplayCkpt) THEN "abort"
                                 ELSE IF ReplayKey = call.tokens THEN "close" ELSE "insert"]
         /\ cursors' = cursors
<1>1. Cached + (call.done + 1) = Cached + call.done + 1
  <2>1. call.done \in Nat /\ Cached \in Nat
    BY CallIs DEF Cached
  <2> QED
    BY <2>1
<1> QED
  BY <1>1 DEF InsertReplay, In, InsertAndSettle, ReplayKey, ReplayValues, ReplaySlots, ReplayCkpt

\* Where a replay stands before its next insertion.
Replaying ==
  /\ call.phase \in Filling /\ Replays /\ ~refused /\ CacheInv /\ PageSize = 1
  /\ Cached \in Nat /\ call.done \in Nat /\ Suffix \in Nat /\ call.done < Suffix
  /\ Cached + Suffix = Len(call.tokens) /\ call.tokens \in Strings /\ Len(call.tokens) <= MaxLength
  /\ Len(call.slots) = Suffix /\ call.slots \in Seq(Slot)
  /\ ReplayKey \in Paged /\ Len(ReplayKey) = Cached + call.done + 1
  /\ ReplayBase \in nodes \cup {Root} /\ ReplayBase \in Paged /\ Len(ReplayBase) = Cached + call.done
  /\ IsPrefix(ReplayBase, ReplayKey)
  /\ ReplayValues \in Seq(Slot) /\ Len(ReplayValues) = Cached + call.done + 1
  /\ \A i \in 1 .. Cached : ReplayValues[i] = slotAt[At(call.tokens, i)]
  /\ \A i \in 1 .. call.done + 1 : ReplayValues[Cached + i] = call.slots[i]

\* The invariant gives them all.
LEMMA ReplayingIs ==
  ASSUME EngineInv, InsertReplay
  PROVE  Replaying
<1>1. CallTypes /\ ReplaySound
  BY Known
<1>2. /\ call.phase = "insert" /\ Replays /\ Insert(ReplayKey, ReplayValues, NextCkpt, {})
  BY <1>1, ReplayStep
<1>3. call.phase \in Filling
  BY <1>2 DEF Filling
<1>4. /\ ~refused /\ CacheInv /\ Me \in DOMAIN held /\ Cached \in Nat /\ Suffix \in Nat
      /\ Cached + Suffix = Len(call.tokens) /\ call.done \in Nat /\ call.done < Suffix
      /\ call.tokens \in Strings /\ Len(call.tokens) \in Nat /\ Len(call.tokens) <= MaxLength
      /\ IsPrefix(Source.node, call.tokens) /\ Source.values = PathValues(Source.node)
      /\ Source.node \in nodes \cup {Root} /\ Source.node \in Paged
  BY <1>3, SettlingIs
<1>5. /\ Len(call.slots) = Suffix /\ call.slots \in Seq(Slot)
      /\ call.done > 0 => PageSize = 1 /\ ReplayBase \in nodes
  BY <1>1, <1>2, <1>3 DEF ReplaySound, ReplayBase, CallTypes
<1>6. Cached + call.done + 1 \in 0 .. Len(call.tokens) /\ Cached + call.done \in 0 .. Cached + call.done + 1
  BY <1>4
<1>7. /\ ReplayKey \in Strings /\ Len(ReplayKey) = Cached + call.done + 1
      /\ ReplayBase \in Strings /\ Len(ReplayBase) = Cached + call.done
      /\ ReplayBase = Upto(ReplayKey, Cached + call.done)
  <2>1. Cached + call.done \in 0 .. Len(call.tokens)
    BY <1>4
  <2> QED
    BY <1>4, <1>6, <2>1, UptoIs, UptoUpto DEF ReplayKey, ReplayBase
<1>8. IsPrefix(ReplayBase, ReplayKey)
  BY <1>6, <1>7, PrefixOrder
<1>9. ReplayKey \in Paged /\ Len(ReplayKey) = Len(ReplayValues)
  BY <1>2, <1>7 DEF Insert, Insertable, Paged, Whole
<1>10. Source.node = Upto(call.tokens, Cached)
  BY <1>4, PrefixIs DEF Cached, Paged
<1>11. PageSize = 1 /\ ReplayBase \in nodes \cup {Root}
  <2>1. CASE call.done > 0
    BY <1>5, <2>1
  <2>2. CASE call.done = 0
    <3>1. ReplayBase = Source.node
      BY <1>4, <1>10, <2>2 DEF ReplayBase
    <3>2. Whole(Cached) /\ Whole(Cached + 1)
      BY <1>4, <1>7, <1>9, <2>2 DEF Paged, Cached
    <3>3. Cached + PageSize <= Cached + 1 /\ PageSize \in Nat \ {0}
      BY <1>4, <3>2, PagesAre
    <3> QED
      BY <1>4, <3>1, <3>3
  <2> QED
    BY <1>4, <2>1, <2>2
<1>12. ReplayBase \in Paged
  BY <1>4, <1>11, PathsAre
<1>13. Source.values \in Seq(Slot) /\ Len(Source.values) = Cached
       /\ \A i \in 1 .. Cached : Source.values[i] = slotAt[At(call.tokens, i)]
  <2>1. PathValues(Source.node) \in Seq(Slot)
    BY <1>4, PathsAre
  <2>2. Len(PathValues(Source.node)) = Cached
    BY <1>4 DEF PathValues, Cached
  <2>3. ASSUME NEW i \in 1 .. Cached PROVE At(Source.node, i) = At(call.tokens, i)
    <3>1. Cached \in 0 .. Len(call.tokens)
      BY <1>4
    <3> QED
      BY <1>4, <1>10, <1>11, <3>1, AtUpto
  <2>4. \A i \in 1 .. Cached : PathValues(Source.node)[i] = slotAt[At(Source.node, i)]
    BY DEF PathValues, Cached
  <2> QED
    BY <1>4, <2>1, <2>2, <2>3, <2>4
<1>14. /\ SubSeq(call.slots, 1, call.done + 1) \in Seq(Slot) /\ Len(SubSeq(call.slots, 1, call.done + 1)) = call.done + 1
       /\ \A i \in 1 .. call.done + 1 : SubSeq(call.slots, 1, call.done + 1)[i] = call.slots[i]
  BY <1>4, <1>5
<1>15. /\ ReplayValues \in Seq(Slot) /\ Len(ReplayValues) = Cached + call.done + 1
       /\ \A i \in 1 .. Cached : ReplayValues[i] = Source.values[i]
       /\ \A i \in 1 .. call.done + 1 : ReplayValues[Cached + i] = SubSeq(call.slots, 1, call.done + 1)[i]
  <2> DEFINE new == SubSeq(call.slots, 1, call.done + 1)
  <2>1. ReplayValues = Source.values \o new
    BY DEF ReplayValues
  <2>2. new \in Seq(Slot) /\ Len(new) = call.done + 1
    BY <1>14
  <2> HIDE DEF new
  <2>3. /\ ReplayValues \in Seq(Slot) /\ Len(ReplayValues) = Cached + (call.done + 1)
        /\ \A i \in 1 .. Cached : ReplayValues[i] = Source.values[i]
        /\ \A i \in 1 .. call.done + 1 : ReplayValues[Cached + i] = new[i]
    <3> DEFINE v == Source.values
    <3>1. v \in Seq(Slot) /\ Len(v) = Cached
      BY <1>13
    <3> HIDE DEF v
    <3>2. /\ v \o new \in Seq(Slot) /\ Len(v \o new) = Len(v) + Len(new)
          /\ \A i \in 1 .. Len(v) : (v \o new)[i] = v[i]
          /\ \A i \in 1 .. Len(new) : (v \o new)[Len(v) + i] = new[i]
      BY <2>2, <3>1, BehindIs
    <3>3. ReplayValues = v \o new
      BY <2>1 DEF v
    <3> QED
      BY <2>2, <3>1, <3>2, <3>3 DEF v
  <2>4. Cached + (call.done + 1) = Cached + call.done + 1
    BY <1>4
  <2> QED
    BY <2>3, <2>4 DEF new
<1> QED
  BY <1>2, <1>3, <1>4, <1>5, <1>7, <1>8, <1>9, <1>11, <1>12, <1>13, <1>14, <1>15 DEF Replaying

\* Everything the replay inserted before is cached.
LEMMA ReplayCached ==
  ASSUME Replaying, Tree(nodes)
  PROVE  CachedLength(ReplayKey) \in Nat /\ Cached + call.done <= CachedLength(ReplayKey)
<1>1. /\ ReplayKey \in Paged /\ ReplayBase \in nodes \cup {Root} /\ ReplayBase \in Paged
      /\ IsPrefix(ReplayBase, ReplayKey) /\ Len(ReplayBase) = Cached + call.done
  BY DEF Replaying
<1>2. Reached(ReplayKey) \in Paged /\ CachedLength(ReplayKey) = Len(Reached(ReplayKey))
  BY <1>1, ReachedIs
<1>3. IsPrefix(ReplayBase, Reached(ReplayKey))
  <2>1. CASE ReplayBase \in nodes
    BY <1>1, <2>1, PagedOrder, ReachedIs
  <2>2. CASE ReplayBase = Root
    BY <1>2, <2>2, PagedOrder
  <2> QED
    BY <1>1, <2>1, <2>2
<1> QED
  BY <1>1, <1>2, <1>3, PagedOrder

\* When the pools take what the insertion makes redundant, the slots inserted before
\* are those of the tree, and the values are its own but for the last.
LEMMA ReplayFills ==
  ASSUME EngineInv, InsertReplay, Accepted(ReplaySlots, ReplayCkpt)
  PROVE  ReplayValues = PathValues(ReplayBase) \o <<Reserved[1]>>
<1>1. Replaying /\ ReplaySound /\ TreeInv
  BY ReplayingIs, Known
<1>2. /\ call.phase \in Filling /\ Replays /\ PageSize = 1 /\ Cached \in Nat /\ call.done \in Nat /\ Suffix \in Nat
      /\ call.done < Suffix /\ Cached + Suffix = Len(call.tokens) /\ call.tokens \in Strings /\ CacheInv
      /\ ReplayBase \in nodes \cup {Root} /\ Len(ReplayBase) = Cached + call.done
      /\ Len(ReplayKey) = Cached + call.done + 1
      /\ ReplayValues \in Seq(Slot) /\ Len(ReplayValues) = Cached + call.done + 1
      /\ \A i \in 1 .. Cached : ReplayValues[i] = slotAt[At(call.tokens, i)]
      /\ \A i \in 1 .. call.done + 1 : ReplayValues[Cached + i] = call.slots[i]
  BY <1>1 DEF Replaying
<1>3. ReplaySlots \subseteq tokensUsed
  BY DEF Accepted
<1>4. ASSUME NEW i \in 1 .. Cached + call.done
      PROVE  At(ReplayKey, i) = At(call.tokens, i) /\ At(ReplayBase, i) = At(call.tokens, i)
  <2>1. /\ Cached + call.done + 1 \in 0 .. Len(call.tokens) /\ Cached + call.done \in 0 .. Len(call.tokens)
        /\ i \in 1 .. Cached + call.done + 1
    BY <1>2
  <2> QED
    BY <1>2, <2>1, AtUpto DEF ReplayKey, ReplayBase
<1>5. ASSUME NEW i \in 1 .. Cached + call.done
      PROVE  ReplayValues[i] = slotAt[At(call.tokens, i)]
  <2>1. CASE i <= Cached
    BY <1>2, <2>1
  <2>2. CASE i > Cached
    <3>1. PICK j \in 1 .. call.done : i = Cached + j
      <4>1. i - Cached \in 1 .. call.done /\ i = Cached + (i - Cached)
        BY <1>2, <2>2
      <4> QED
        BY <4>1
    <3>2. ReplayValues[i] = call.slots[j] /\ call.done > 0
      BY <1>2, <3>1
    <3>3. slotAt[At(call.tokens, Cached + j)] = call.slots[j] \/ call.slots[j] \notin tokensUsed
      BY <1>1, <1>2, <3>1, <3>2 DEF ReplaySound
    <3>4. ASSUME ReplayValues[i] # slotAt[At(call.tokens, i)] PROVE FALSE
      <4>1. i \in 1 .. CachedLength(ReplayKey)
        <5>1. CachedLength(ReplayKey) \in Nat /\ Cached + call.done <= CachedLength(ReplayKey)
          BY <1>1, ReplayCached DEF TreeInv
        <5> QED
          BY <1>2, <5>1
      <4>2. ReplayValues[i] # slotAt[At(ReplayKey, i)]
        BY <1>4, <3>4
      <4>3. ReplayValues[i] \in ReplaySlots
        BY <4>1, <4>2 DEF ReplaySlots, RedundantSlots
      <4> QED
        BY <1>3, <3>1, <3>2, <3>3, <3>4, <4>3
    <3> QED
      BY <3>4
  <2> QED
    BY <1>2, <2>1, <2>2
<1>6. ReplayValues[Cached + call.done + 1] = Reserved[1]
  <2>1. Len(Reserved) = Suffix - call.done /\ \A i \in 1 .. Len(Reserved) : Reserved[i] = call.slots[call.done + i]
    BY <1>1, <1>2, SettlingIs DEF ReplaySound
  <2>2. 1 \in 1 .. Len(Reserved) /\ call.done + 1 \in 1 .. call.done + 1 /\ Cached + (call.done + 1) = Cached + call.done + 1
    <3>1. Cached \in Nat /\ call.done \in Nat /\ Suffix \in Nat /\ call.done < Suffix
      BY <1>2
    <3>2. Len(Reserved) \in Nat /\ Len(Reserved) > 0
      BY <2>1, <3>1
    <3>3. 1 \in 1 .. Len(Reserved)
      BY <3>2
    <3> QED
      BY <3>1, <3>3
  <2>3. Reserved[1] = call.slots[call.done + 1]
    BY <2>1, <2>2
  <2> QED
    BY <1>2, <2>2, <2>3
<1> DEFINE own == PathValues(ReplayBase) \o <<Reserved[1]>>
<1>7. /\ PathValues(ReplayBase) \in Seq(Slot) /\ Len(PathValues(ReplayBase)) = Cached + call.done
      /\ \A i \in 1 .. Cached + call.done : PathValues(ReplayBase)[i] = slotAt[At(ReplayBase, i)]
  <2>1. PathValues(ReplayBase) \in Seq(Slot)
    BY <1>2, PathsAre
  <2> QED
    BY <1>2, <2>1 DEF PathValues
<1>8. Reserved[1] \in Slot
  <2>1. Cached + call.done + 1 \in 1 .. Len(ReplayValues)
    BY <1>2
  <2> QED
    BY <1>2, <1>6, <2>1
<1>9. /\ own \in Seq(Slot) /\ Len(own) = Cached + call.done + 1 /\ own[Cached + call.done + 1] = Reserved[1]
      /\ \A i \in 1 .. Cached + call.done : own[i] = PathValues(ReplayBase)[i]
  <2> DEFINE p == PathValues(ReplayBase)
             last == <<Reserved[1]>>
  <2>1. last \in Seq(Slot) /\ Len(last) = 1 /\ last[1] = Reserved[1] /\ p \in Seq(Slot) /\ Len(p) = Cached + call.done
    BY <1>7, <1>8
  <2> HIDE DEF p, last
  <2>2. /\ p \o last \in Seq(Slot) /\ Len(p \o last) = Cached + call.done + 1
        /\ \A i \in 1 .. Cached + call.done : (p \o last)[i] = p[i]
        /\ \A i \in 1 .. 1 : (p \o last)[Cached + call.done + i] = last[i]
    <3>1. /\ p \o last \in Seq(Slot) /\ Len(p \o last) = Len(p) + Len(last)
          /\ \A i \in 1 .. Len(p) : (p \o last)[i] = p[i]
          /\ \A i \in 1 .. Len(last) : (p \o last)[Len(p) + i] = last[i]
      BY <2>1, BehindIs
    <3> QED
      BY <1>2, <2>1, <3>1
  <2>3. (p \o last)[Cached + call.done + 1] = Reserved[1]
    BY <2>1, <2>2
  <2> QED
    BY <2>2, <2>3 DEF p, last
<1>10. \A i \in 1 .. Cached + call.done : own[i] = ReplayValues[i]
  BY <1>4, <1>5, <1>7, <1>9
<1> HIDE DEF own
<1>11. \A i \in 1 .. Cached + call.done + 1 : own[i] = ReplayValues[i]
  BY <1>2, <1>6, <1>9, <1>10
<1>12. own = ReplayValues
  BY <1>2, <1>9, <1>11, SeqEqual
<1> QED
  BY <1>12 DEF own

\* A sequence without repetitions is its first element and others.
LEMMA HeadAndTail ==
  ASSUME NEW S, NEW s \in Seq(S), IsInjective(s), Len(s) > 0
  PROVE  /\ Tail(s) \in Seq(S) /\ IsInjective(Tail(s)) /\ Len(Tail(s)) = Len(s) - 1
         /\ \A i \in 1 .. Len(s) - 1 : Tail(s)[i] = s[i + 1]
         /\ Range(s) = {s[1]} \cup Range(Tail(s)) /\ s[1] \notin Range(Tail(s)) /\ s[1] \in S
<1> DEFINE t == Tail(s)
<1>1. Len(s) \in Nat /\ DOMAIN s = 1 .. Len(s) /\ s[1] \in S /\ 1 \in 1 .. Len(s)
  OBVIOUS
<1>2. /\ t \in Seq(S) /\ Len(t) = Len(s) - 1 /\ DOMAIN t = 1 .. Len(s) - 1
      /\ \A i \in 1 .. Len(s) - 1 : t[i] = s[i + 1]
  BY <1>1
<1> HIDE DEF t
<1>3. \A i, j \in 1 .. Len(s) : s[i] = s[j] => i = j
  BY <1>1 DEF IsInjective
<1>4. IsInjective(t)
  <2>1. ASSUME NEW i \in 1 .. Len(s) - 1, NEW j \in 1 .. Len(s) - 1, t[i] = t[j] PROVE i = j
    <3>1. i + 1 \in 1 .. Len(s) /\ j + 1 \in 1 .. Len(s) /\ s[i + 1] = s[j + 1]
      BY <1>1, <1>2, <2>1
    <3>2. i + 1 = j + 1
      BY <1>3, <3>1
    <3> QED
      BY <3>2
  <2> QED
    BY <1>2, <2>1 DEF IsInjective
<1>5. Range(t) = {s[i] : i \in 2 .. Len(s)}
  <2>1. ASSUME NEW x \in Range(t) PROVE x \in {s[i] : i \in 2 .. Len(s)}
    <3>1. PICK i \in 1 .. Len(s) - 1 : x = s[i + 1]
      BY <1>2 DEF Range
    <3>2. i + 1 \in 2 .. Len(s)
      BY <1>1
    <3> QED
      BY <3>1, <3>2
  <2>2. ASSUME NEW i \in 2 .. Len(s) PROVE s[i] \in Range(t)
    <3>1. i - 1 \in 1 .. Len(s) - 1 /\ (i - 1) + 1 = i
      BY <1>1
    <3>2. t[i - 1] = s[i]
      BY <1>2, <3>1
    <3> QED
      BY <1>2, <3>1, <3>2 DEF Range
  <2> QED
    BY <2>1, <2>2
<1>6. Range(s) = {s[i] : i \in 1 .. Len(s)}
  BY <1>1 DEF Range
<1>7. Range(s) = {s[1]} \cup Range(t)
  <2>1. \A i \in 1 .. Len(s) : i = 1 \/ i \in 2 .. Len(s)
    BY <1>1
  <2>2. \A i \in 2 .. Len(s) : i \in 1 .. Len(s)
    BY <1>1
  <2> QED
    BY <1>1, <1>5, <1>6, <2>1, <2>2
<1>8. s[1] \notin Range(t)
  <2>1. \A i \in 2 .. Len(s) : i \in 1 .. Len(s) /\ i # 1
    BY <1>1
  <2> QED
    BY <1>1, <1>3, <1>5, <2>1
<1> QED
  BY <1>1, <1>2, <1>4, <1>7, <1>8 DEF t

\* What is left of the replay's checkpoints, and of its slots.
RestCkpts == IF Recurrent THEN Tail(held[Me].ckpts) ELSE <<>>
RestIs ==
  /\ Reserved \in Seq(Slot) /\ Tail(Reserved) \in Seq(Slot) /\ IsInjective(Tail(Reserved))
  /\ Len(Tail(Reserved)) = Suffix - call.done - 1
  /\ \A i \in 1 .. Len(Tail(Reserved)) : Tail(Reserved)[i] = call.slots[call.done + 1 + i]
  /\ <<Reserved[1]>> \in Seq(Slot) /\ IsInjective(<<Reserved[1]>>) /\ Range(<<Reserved[1]>>) = {Reserved[1]}
  /\ Range(Reserved) = {Reserved[1]} \cup Range(Tail(Reserved)) /\ {Reserved[1]} \cap Range(Tail(Reserved)) = {}
  /\ RestCkpts \in Seq(Ckpt) /\ IsInjective(RestCkpts)
  /\ Len(RestCkpts) = IF CkptsNeeded = 0 THEN 0 ELSE CkptsNeeded - call.done - 1
  /\ CkptsNeeded \in {0, Suffix}
  /\ Range(held[Me].ckpts) = NextCkpt \cup Range(RestCkpts) /\ NextCkpt \cap Range(RestCkpts) = {}
  /\ NextCkpt \in SUBSET Ckpt /\ (NextCkpt = {} \/ \E x : NextCkpt = {x})

\* A replay's step splits its reservation in that way.
LEMMA ReplayRest ==
  ASSUME EngineInv, InsertReplay
  PROVE  RestIs /\ Me \in DOMAIN held /\ held[Me].slots = Reserved
<1>1. CallTypes /\ ReplaySound
  BY Known
<1>2. call.phase \in Filling /\ Replays
  BY <1>1, ReplayStep DEF Filling
<1>3. /\ Me \in DOMAIN held /\ Cached \in Nat /\ Suffix \in Nat /\ call.done \in Nat /\ call.done < Suffix
      /\ Reserved \in Seq(Slot) /\ IsInjective(Reserved) /\ Len(Reserved) = Suffix - call.done
      /\ held[Me].ckpts \in Seq(Ckpt) /\ IsInjective(held[Me].ckpts)
      /\ Len(held[Me].ckpts) = IF CkptsNeeded = 0 THEN 0 ELSE CkptsNeeded - call.done
  BY <1>2, SettlingIs
<1>4. /\ Tail(Reserved) \in Seq(Slot) /\ IsInjective(Tail(Reserved)) /\ Len(Tail(Reserved)) = Len(Reserved) - 1
      /\ \A i \in 1 .. Len(Reserved) - 1 : Tail(Reserved)[i] = Reserved[i + 1]
      /\ Range(Reserved) = {Reserved[1]} \cup Range(Tail(Reserved)) /\ Reserved[1] \notin Range(Tail(Reserved))
      /\ Reserved[1] \in Slot
  <2>1. Len(Reserved) > 0
    BY <1>3
  <2> QED
    BY <1>3, <2>1, HeadAndTail
<1>5. Len(Tail(Reserved)) = Suffix - call.done - 1
  BY <1>3, <1>4
<1>6. ASSUME NEW i \in 1 .. Len(Tail(Reserved)) PROVE Tail(Reserved)[i] = call.slots[call.done + 1 + i]
  <2>1. i \in 1 .. Len(Reserved) - 1 /\ i + 1 \in 1 .. Len(Reserved) /\ call.done + (i + 1) = call.done + 1 + i
    <3>1. Len(Reserved) \in Nat /\ Len(Tail(Reserved)) = Len(Reserved) - 1
      BY <1>3, <1>4
    <3>2. i \in Nat /\ 1 <= i /\ i <= Len(Reserved) - 1
      BY <3>1
    <3>3. i + 1 \in 1 .. Len(Reserved) /\ i \in 1 .. Len(Reserved) - 1
      BY <3>1, <3>2
    <3>4. call.done \in Nat
      BY <1>3
    <3>5. call.done + (i + 1) = call.done + 1 + i
      BY <3>2, <3>4
    <3> QED
      BY <3>3, <3>5
  <2>2. Reserved[i + 1] = call.slots[call.done + (i + 1)]
    BY <1>1, <1>2, <2>1 DEF ReplaySound
  <2> QED
    BY <1>4, <2>1, <2>2
<1>7. <<Reserved[1]>> \in Seq(Slot) /\ IsInjective(<<Reserved[1]>>) /\ Range(<<Reserved[1]>>) = {Reserved[1]}
  BY <1>4 DEF IsInjective, Range
<1>8. CkptsNeeded = IF Recurrent THEN Suffix ELSE 0
  BY <1>2 DEF CkptsNeeded, Replays
<1>9. /\ RestCkpts \in Seq(Ckpt) /\ IsInjective(RestCkpts)
      /\ Len(RestCkpts) = IF CkptsNeeded = 0 THEN 0 ELSE CkptsNeeded - call.done - 1
      /\ Range(held[Me].ckpts) = NextCkpt \cup Range(RestCkpts) /\ NextCkpt \cap Range(RestCkpts) = {}
      /\ NextCkpt \in SUBSET Ckpt /\ (NextCkpt = {} \/ \E x : NextCkpt = {x})
  <2> DEFINE k == held[Me].ckpts
  <2>1. CASE Recurrent
    <3>1. k \in Seq(Ckpt) /\ IsInjective(k) /\ Len(k) = Suffix - call.done /\
          Len(k) > 0 /\ CkptsNeeded = Suffix /\ Suffix # 0
      BY <1>3, <1>8, <2>1
    <3>2. RestCkpts = Tail(k) /\ NextCkpt = First(k)
      BY <2>1 DEF RestCkpts, NextCkpt
    <3> HIDE DEF k
    <3>3. /\ Tail(k) \in Seq(Ckpt) /\ IsInjective(Tail(k)) /\ Len(Tail(k)) = Len(k) - 1
          /\ Range(k) = {k[1]} \cup Range(Tail(k)) /\ k[1] \notin Range(Tail(k)) /\ k[1] \in Ckpt
      BY <3>1, HeadAndTail
    <3>4. First(k) = {k[1]}
      BY <3>1 DEF First
    <3>5. Len(Tail(k)) = CkptsNeeded - call.done - 1
      BY <1>3, <3>1, <3>3
    <3>6. Range(k) = First(k) \cup Range(Tail(k)) /\ First(k) \cap Range(Tail(k)) = {} /\ First(k) \in SUBSET Ckpt
          /\ \E x : First(k) = {x}
      BY <3>3, <3>4
    <3> QED
      BY <3>1, <3>2, <3>3, <3>5, <3>6 DEF k
  <2>2. CASE ~Recurrent
    <3>1. k = <<>> /\ CkptsNeeded = 0
      BY <1>3, <1>8, <2>2
    <3>2. RestCkpts = <<>> /\ NextCkpt = {}
      BY <2>2, <3>1 DEF RestCkpts, NextCkpt, First
    <3> QED
      BY <3>1, <3>2, NothingIs
  <2> QED
    BY <2>1, <2>2
<1>10. held[Me].slots = Reserved
  BY DEF Reserved
<1> QED
  BY <1>3, <1>4, <1>5, <1>6, <1>7, <1>8, <1>9, <1>10, ZenonT(60) DEF RestIs

\* The call after an insertion of a replay.
ReplayedTo(p) ==
  /\ call' \in [op : Ops, phase : Phases, tokens : Strings, base : Int, lease : SUBSET LeaseId,
                cursor : SUBSET Cursor, slots : Seq(Slot), done : Nat]
  /\ call'.phase = p /\ call'.op = call.op /\ call'.lease = call.lease /\ call'.cursor = call.cursor
  /\ call'.tokens = call.tokens /\ call'.slots = call.slots /\ call'.done = call.done + 1

\* The updates of insert_replay make it so.
LEMMA ReplayedIs ==
  ASSUME CallTypes, NEW p \in Phases, call' = [call EXCEPT !.done = call.done + 1, !.phase = p]
  PROVE  ReplayedTo(p)
<1>1. call.done + 1 \in Nat
  BY CallIs
<1> QED
  BY <1>1 DEF CallTypes, ReplayedTo

\* A replay whose slots were taken from under it ends, with what it still holds.
LEMMA ReplayRefused ==
  ASSUME EngineInv, InsertReplay, ~Accepted(ReplaySlots, ReplayCkpt)
  PROVE  EngineInv'
<1>1. CallTypes /\ TreeInv /\ Short /\ CacheSound
  BY Known
<1>2. /\ call.phase = "insert" /\ Insert(ReplayKey, ReplayValues, NextCkpt, {}) /\ Settle(ReplaySlots, ReplayCkpt)
      /\ held' = held /\ cursors' = cursors
      /\ call' = [call EXCEPT !.done = call.done + 1, !.phase = "abort"]
  BY <1>1, ReplayStep
<1>3. ReplayKey \in Paged /\ Len(ReplayKey) <= MaxLength /\ ReplayValues \in Seq(Slot)
  <2>1. Replaying
    BY ReplayingIs
  <2>2. MaxLength \in Nat
    BY CacheAssumption
  <2> QED
    BY <2>1, <2>2 DEF Replaying
<1>4. NextCkpt \in SUBSET Ckpt /\ Me \in DOMAIN held
  BY ReplayRest DEF RestIs
<1>5. TreeInv'
  <2>1. Insert(ReplayKey, ReplayValues, NextCkpt, {}) /\ {} \in SUBSET LeaseId
    BY <1>2
  <2>2. TreeInv /\ ReplayKey \in Paged /\ ReplayValues \in Seq(Slot) /\ NextCkpt \in SUBSET Ckpt
    BY <1>1, <1>3, <1>4
  <2> QED
    BY <2>1, <2>2, InsertKeeps
<1>6. Short'
  <2>1. nodes' = SplitNodes(ReplayKey) \cup {ReplayKey}
    BY <1>1, <1>2, <1>3, InsertValues
  <2>2. Tree(nodes)
    BY <1>1 DEF TreeInv
  <2> QED
    BY <1>1, <1>3, <2>1, <2>2, SplitShort DEF Short
<1>7. refused' = TRUE
  BY <1>2 DEF Settle, Accepted
<1>8. CacheSound'
  BY <1>5, <1>6, <1>7 DEF CacheSound
<1>9. ReplayedTo("abort")
  BY <1>1, <1>2, ReplayedIs DEF Phases
<1>10. CallMoves("abort") /\ call'.tokens = call.tokens
  <2>1. LeasesSame
    BY <1>2, InsertLeases
  <2> QED
    BY <1>2, <1>9, <2>1 DEF CallMoves, Phases, ReplayedTo
<1>11. PhaseSound' /\ LeasesKnown' /\ CursorsSound' /\ ComputesMore'
  BY <1>10, CallMovesOn
<1>12. HeldSound' /\ ReplaySound'
  BY <1>2, <1>4, <1>9 DEF HeldSound, ReplaySound, Holding, Filling, ReplayedTo
<1> QED
  BY <1>8, <1>11, <1>12 DEF EngineInv

\* What an insertion of a replay that the pools accept leaves behind.
ReplayedOn ==
  /\ CacheInv' /\ held' = Keep(Me, Tail(Reserved), RestCkpts)
  /\ ReplayKey \in nodes'
  /\ \A i \in 1 .. call.done : slotAt'[At(call.tokens, Cached + i)] = slotAt[At(call.tokens, Cached + i)]
  /\ \/ slotAt'[At(ReplayKey, Cached + call.done + 1)] = call.slots[call.done + 1]
     \/ call.slots[call.done + 1] \notin tokensUsed'
  /\ tokensUsed' \subseteq tokensUsed /\ LeasesSame

\* An accepted insertion leaves that.
LEMMA ReplayInserts ==
  ASSUME EngineInv, InsertReplay, Accepted(ReplaySlots, ReplayCkpt)
  PROVE  ReplayedOn
<1>1. CallTypes /\ TreeInv /\ Replaying /\ Tree(nodes)
  BY Known, ReplayingIs DEF TreeInv
<1>2. /\ Insert(ReplayKey, ReplayValues, NextCkpt, {}) /\ Settle(ReplaySlots, ReplayCkpt)
      /\ held' = Keep(Me, Tail(Reserved), RestCkpts)
  BY <1>1, ReplayStep DEF RestCkpts
<1>3. RestIs /\ Me \in DOMAIN held /\ held[Me].slots = Reserved /\ Me \in DOMAIN held
  BY ReplayRest
<1>4. /\ CacheInv /\ ReplayKey \in Paged /\ Len(ReplayKey) <= MaxLength /\ ReplayValues \in Seq(Slot)
      /\ ReplayBase \in nodes \cup {Root} /\ IsPrefix(ReplayBase, ReplayKey)
      /\ Cached \in Nat /\ call.done \in Nat /\ Len(ReplayKey) = Cached + call.done + 1 /\ PageSize = 1
      /\ Cached + call.done + 1 <= Len(call.tokens) /\ call.tokens \in Strings /\ Len(call.tokens) \in Nat
      /\ ReplayValues[Cached + (call.done + 1)] = call.slots[call.done + 1]
  <2>1. Len(call.tokens) \in Nat /\ MaxLength \in Nat
    BY <1>1, CallIs, CacheAssumption
  <2>2. call.done + 1 \in 1 .. call.done + 1
    BY <1>1 DEF Replaying
  <2>3. ReplayValues[Cached + (call.done + 1)] = call.slots[call.done + 1]
    BY <1>1, <2>2 DEF Replaying
  <2>4. /\ Cached \in Nat /\ call.done \in Nat /\ Suffix \in Nat /\ call.done < Suffix
        /\ Cached + Suffix = Len(call.tokens) /\ Len(call.tokens) <= MaxLength
        /\ Len(ReplayKey) = Cached + call.done + 1
    BY <1>1 DEF Replaying
  <2>5. Cached + call.done + 1 <= Len(call.tokens) /\ Len(ReplayKey) <= MaxLength
    BY <2>1, <2>4
  <2> QED
    BY <1>1, <2>1, <2>3, <2>4, <2>5 DEF Replaying
<1>5. ReplayValues = PathValues(ReplayBase) \o <<Reserved[1]>>
  BY ReplayFills
<1>6. /\ <<Reserved[1]>> \in Seq(Slot) /\ IsInjective(<<Reserved[1]>>) /\ Range(<<Reserved[1]>>) = {Reserved[1]}
      /\ Range(Reserved) = {Reserved[1]} \cup Range(Tail(Reserved)) /\ {Reserved[1]} \cap Range(Tail(Reserved)) = {}
      /\ Range(held[Me].ckpts) = NextCkpt \cup Range(RestCkpts) /\ NextCkpt \cap Range(RestCkpts) = {}
      /\ NextCkpt = {} \/ \E x : NextCkpt = {x}
  BY <1>3 DEF RestIs
<1>7. /\ TreeInv' /\ Short'
      /\ SlotsSplit({Reserved[1]}, ReplaySlots) /\ CkptsSplit(NextCkpt, ReplayCkpt)
  <2>1. NextCkpt \in SUBSET Range(held[Me].ckpts) /\ Range(<<Reserved[1]>>) \subseteq Range(held[Me].slots)
    BY <1>3, <1>6
  <2>2. {} \in SUBSET LeaseId
    OBVIOUS
  <2> DEFINE new == <<Reserved[1]>>
  <2>3. new \in Seq(Slot) /\ IsInjective(new) /\ Range(new) = {Reserved[1]} /\ Range(new) \subseteq Range(held[Me].slots)
        /\ ReplayValues = PathValues(ReplayBase) \o new
    BY <1>5, <1>6, <2>1
  <2> HIDE DEF new
  <2>4. /\ TreeInv' /\ Short' /\ SlotsSplit(Range(new), ReplaySlots) /\ CkptsSplit(NextCkpt, ReplayCkpt)
    BY <1>2, <1>3, <1>4, <1>6, <2>1, <2>2, <2>3, InsertParts DEF ReplaySlots, ReplayCkpt
  <2> QED
    BY <2>3, <2>4
<1>8. CacheInv'
  <2>1. HandsOver(Me, Tail(Reserved), RestCkpts, {Reserved[1]}, ReplaySlots, NextCkpt, ReplayCkpt)
    BY <1>2, <1>3, <1>6, <1>7 DEF HandsOver, RestIs
  <2> QED
    BY <1>3, <1>4, <1>7, <2>1, CallerStep
<1>9. /\ nodes' = SplitNodes(ReplayKey) \cup {ReplayKey} /\ CachedLength(ReplayKey) \in 0 .. Len(ReplayKey)
      /\ \A p \in CachedIn(nodes) : slotAt'[p] = slotAt[p]
      /\ \A i \in CachedLength(ReplayKey) + 1 .. Len(ReplayKey) : slotAt'[At(ReplayKey, i)] = ReplayValues[i]
      /\ \A i \in 1 .. CachedLength(ReplayKey) : At(ReplayKey, i) \in CachedIn(nodes)
  BY <1>1, <1>2, <1>4, InsertValues
<1>10. Cached + call.done <= CachedLength(ReplayKey)
  BY <1>1, ReplayCached
<1>11. ASSUME NEW i \in 1 .. call.done
       PROVE  slotAt'[At(call.tokens, Cached + i)] = slotAt[At(call.tokens, Cached + i)]
  <2>1. /\ Cached + i \in 1 .. Cached + call.done + 1 /\ Cached + call.done + 1 \in 0 .. Len(call.tokens)
        /\ Cached + i \in 1 .. CachedLength(ReplayKey)
    BY <1>4, <1>9, <1>10
  <2>2. At(ReplayKey, Cached + i) = At(call.tokens, Cached + i)
    BY <1>4, <2>1, AtUpto DEF ReplayKey
  <2>3. At(ReplayKey, Cached + i) \in CachedIn(nodes)
    BY <1>9, <2>1
  <2> QED
    BY <1>9, <2>2, <2>3
<1>12. \/ slotAt'[At(ReplayKey, Cached + call.done + 1)] = call.slots[call.done + 1]
       \/ call.slots[call.done + 1] \notin tokensUsed'
  <2> DEFINE n == Cached + call.done + 1
  <2>1. n \in 1 .. Len(ReplayKey) /\ ReplayValues[n] = call.slots[call.done + 1] /\ n = Cached + (call.done + 1)
    BY <1>4
  <2> HIDE DEF n
  <2>2. CASE n > CachedLength(ReplayKey)
    <3>1. n \in CachedLength(ReplayKey) + 1 .. Len(ReplayKey)
      BY <1>4, <1>9, <2>1, <2>2
    <3> QED
      BY <1>9, <2>1, <3>1 DEF n
  <2>3. CASE ~(n > CachedLength(ReplayKey))
    <3>1. n \in 1 .. CachedLength(ReplayKey)
      BY <1>4, <1>9, <2>1, <2>3
    <3>2. slotAt'[At(ReplayKey, n)] = slotAt[At(ReplayKey, n)]
      BY <1>9, <3>1
    <3>3. CASE ReplayValues[n] = slotAt[At(ReplayKey, n)]
      BY <2>1, <3>2, <3>3 DEF n
    <3>4. CASE ReplayValues[n] # slotAt[At(ReplayKey, n)]
      <4>1. ReplayValues[n] \in ReplaySlots
        BY <3>1, <3>4 DEF ReplaySlots, RedundantSlots
      <4>2. tokensUsed' = tokensUsed \ ReplaySlots
        BY <1>2 DEF Settle, Accepted
      <4> QED
        BY <2>1, <4>1, <4>2
    <3> QED
      BY <3>3, <3>4
  <2> QED
    BY <2>2, <2>3
<1>13. tokensUsed' \subseteq tokensUsed
  BY <1>2 DEF Settle
<1>14. LeasesSame
  BY <1>2, InsertLeases
<1> QED
  BY <1>2, <1>8, <1>9, <1>11, <1>12, <1>13, <1>14 DEF ReplayedOn

\* A replay goes on with the next token, or has inserted its last.
LEMMA ReplayGoesOn ==
  ASSUME EngineInv, InsertReplay, Accepted(ReplaySlots, ReplayCkpt)
  PROVE  EngineInv'
<1>1. CallTypes /\ ReplaySound /\ Replaying
  BY Known, ReplayingIs
<1>2. ReplayedOn /\ RestIs /\ Me \in DOMAIN held
  BY ReplayInserts, ReplayRest
<1>3. CacheSound' /\ refused' = FALSE
  BY <1>2 DEF ReplayedOn, CacheSound, CacheInv, HeldTypes
<1>4. PICK p \in {"close", "insert"} :
        /\ p = IF ReplayKey = call.tokens THEN "close" ELSE "insert"
        /\ call' = [call EXCEPT !.done = call.done + 1, !.phase = p]
        /\ call.phase = "insert" /\ cursors' = cursors /\ Replays
  BY <1>1, ReplayStep
<1>5. ReplayedTo(p)
  BY <1>1, <1>4, ReplayedIs DEF Phases
<1>6. CallMoves(p) /\ call'.tokens = call.tokens /\ call'.phase = p
  BY <1>2, <1>3, <1>4, <1>5 DEF CallMoves, Phases, ReplayedTo, ReplayedOn
<1>7. /\ PhaseSound' /\ LeasesKnown' /\ CursorsSound' /\ ComputesMore' /\ Cached' = Cached
      /\ Suffix' = Suffix /\ Replays' = Replays /\ CkptsNeeded' = CkptsNeeded
  BY <1>6, CallMovesOn
<1>8. /\ Cached \in Nat /\ call.done \in Nat /\ Suffix \in Nat /\ call.done < Suffix
      /\ Cached + Suffix = Len(call.tokens) /\ call.tokens \in Strings /\ PageSize = 1
      /\ Len(call.slots) = Suffix /\ Len(ReplayKey) = Cached + call.done + 1 /\ call.phase \in Filling
  BY <1>1 DEF Replaying
<1>9. /\ Len(Tail(Reserved)) = Suffix - call.done - 1 /\ Tail(Reserved) \in Seq(Slot) /\ RestCkpts \in Seq(Ckpt)
      /\ \A i \in 1 .. Len(Tail(Reserved)) : Tail(Reserved)[i] = call.slots[call.done + 1 + i]
      /\ Len(RestCkpts) = IF CkptsNeeded = 0 THEN 0 ELSE CkptsNeeded - call.done - 1
      /\ CkptsNeeded \in {0, Suffix}
      /\ held' = Keep(Me, Tail(Reserved), RestCkpts)
  BY <1>2 DEF RestIs, ReplayedOn
<1>10. CASE ReplayKey = call.tokens
  <2>1. p = "close" /\ call.done + 1 = Suffix
    BY <1>4, <1>8, <1>10
  <2>2. Tail(Reserved) = <<>> /\ RestCkpts = <<>>
    <3> DEFINE s == Tail(Reserved)
    <3>1. s \in Seq(Slot) /\ Len(s) = Suffix - call.done - 1 /\ RestCkpts \in Seq(Ckpt)
      BY <1>9
    <3> HIDE DEF s
    <3>2. Suffix - call.done - 1 = 0
      BY <1>8, <2>1
    <3>3. Len(RestCkpts) = 0
      BY <1>8, <1>9, <3>2
    <3>4. s = <<>> /\ RestCkpts = <<>>
      BY <3>1, <3>2, <3>3
    <3> QED
      BY <3>4 DEF s
  <2>3. Me \notin DOMAIN held'
    BY <1>2, <1>9, <2>2, NoneHeld
  <2>4. HeldSound' /\ ReplaySound'
    BY <1>6, <2>1, <2>3 DEF HeldSound, ReplaySound, Holding, Filling
  <2> QED
    BY <1>3, <1>7, <2>4 DEF EngineInv
<1>11. CASE ReplayKey # call.tokens
  <2>1. p = "insert" /\ call.done + 1 < Suffix
    <3>1. call.done + 1 # Suffix
      <4>1. ASSUME call.done + 1 = Suffix PROVE FALSE
        <5>1. Cached + call.done + 1 = Len(call.tokens)
          BY <1>8, <4>1
        <5>2. ReplayKey = call.tokens
          BY <1>8, <5>1, UptoUpto DEF ReplayKey
        <5> QED
          BY <1>11, <5>2
      <4> QED
        BY <4>1
    <3> QED
      BY <1>4, <1>8, <1>11, <3>1
  <2>2. Tail(Reserved) # <<>>
    <3> DEFINE s == Tail(Reserved)
    <3>1. s \in Seq(Slot) /\ Len(s) = Suffix - call.done - 1
      BY <1>9
    <3> HIDE DEF s
    <3>2. Len(s) # 0
      BY <1>8, <2>1, <3>1
    <3>3. s # <<>>
      BY <3>2
    <3> QED
      BY <3>3 DEF s
  <2>3. Me \in DOMAIN held' /\ held'[Me].slots = Tail(Reserved) /\ held'[Me].ckpts = RestCkpts
    BY <1>2, <1>9, <2>2 DEF Keep
  <2>4. Reserved' = Tail(Reserved) /\ call'.done = call.done + 1 /\ call'.slots = call.slots /\ call'.tokens = call.tokens
    BY <1>5, <2>3 DEF Reserved, ReplayedTo
  <2>5. HeldSound'
    <3>1. Len(Reserved') = Suffix' - call'.done
      BY <1>7, <1>8, <1>9, <2>4
    <3>2. Len(held'[Me].ckpts) = IF CkptsNeeded' = 0 THEN 0 ELSE CkptsNeeded' - call'.done
      <4>1. /\ CkptsNeeded' = CkptsNeeded /\ call'.done = call.done + 1 /\ held'[Me].ckpts = RestCkpts
            /\ Len(RestCkpts) = IF CkptsNeeded = 0 THEN 0 ELSE CkptsNeeded - call.done - 1
        BY <1>7, <1>9, <2>3, <2>4
      <4>2. CkptsNeeded \in Nat /\ call.done \in Nat
        BY <1>8, <1>9, SMTT(30)
      <4>3. CkptsNeeded - (call.done + 1) = CkptsNeeded - call.done - 1
        BY <4>2
      <4> QED
        BY <4>1, <4>3
    <3> QED
      BY <1>6, <2>1, <2>3, <3>1, <3>2 DEF HeldSound, Holding, Filling
  <2>6. ReplaySound'
    <3>1. call'.done < Suffix' /\ Replays' /\ Len(call'.slots) = Suffix'
      BY <1>4, <1>7, <1>8, <2>1, <2>4
    <3>2. \A i \in 1 .. Len(Reserved') : Reserved'[i] = call'.slots[call'.done + i]
      BY <1>9, <2>4
    <3>3. Upto(call'.tokens, Cached' + call'.done) \in nodes'
      <4>1. Cached' + call'.done = Cached + call.done + 1
        BY <1>7, <1>8, <2>4
      <4> QED
        BY <1>2, <2>4, <4>1 DEF ReplayKey, ReplayedOn
    <3>4. ASSUME NEW i \in 1 .. call'.done
          PROVE  slotAt'[At(call.tokens, Cached + i)] = call.slots[i] \/ call.slots[i] \notin tokensUsed'
      <4>1. CASE i \in 1 .. call.done
        <5>1. slotAt[At(call.tokens, Cached + i)] = call.slots[i] \/ call.slots[i] \notin tokensUsed
          <6>1. call.done > 0
            BY <1>8, <4>1
          <6> QED
            BY <1>1, <1>8, <4>1, <6>1 DEF ReplaySound
        <5> QED
          BY <1>2, <4>1, <5>1 DEF ReplayedOn
      <4>2. CASE i = call.done + 1
        <5>1. /\ Cached + call.done + 1 \in 0 .. Len(call.tokens)
              /\ Cached + call.done + 1 \in 1 .. Cached + call.done + 1 /\ Cached + i = Cached + call.done + 1
          BY <1>8, <4>2
        <5>2. At(ReplayKey, Cached + call.done + 1) = At(call.tokens, Cached + i)
          BY <1>8, <5>1, AtUpto DEF ReplayKey
        <5> QED
          BY <1>2, <4>2, <5>2 DEF ReplayedOn
      <4>3. i \in 1 .. call.done \/ i = call.done + 1
        BY <1>8, <2>4
      <4> QED
        BY <4>1, <4>2, <4>3
    <3>5. \A i \in 1 .. call'.done : \/ slotAt'[At(call'.tokens, Cached' + i)] = call'.slots[i]
                                     \/ call'.slots[i] \notin tokensUsed'
      BY <1>7, <2>4, <3>4
    <3> QED
      BY <1>8, <3>1, <3>2, <3>3, <3>5 DEF ReplaySound
  <2> QED
    BY <1>3, <1>7, <2>5, <2>6 DEF EngineInv
<1> QED
  BY <1>10, <1>11
-----------------------------------------------------------------------------
(* The invariant of the engine.                                               *)

\* A new engine has it.
LEMMA EngineStarts ==
  ASSUME EngineInit
  PROVE  EngineInv
<1>1. Init /\ call = NoCall /\ cursors = <<>>
  BY DEF EngineInit
<1>2. CacheInv
  BY <1>1, CacheStarts
<1>3. CacheSound
  BY <1>2 DEF CacheSound, CacheInv, HeldTypes
<1>4. leases = <<>> /\ Me \notin DOMAIN held
  BY <1>1 DEF Init, RadixInit
<1>5. DOMAIN cursors = {} /\ DOMAIN leases = {}
  BY <1>1, <1>4
<1>6. CursorsSound
  BY <1>5 DEF CursorsSound
<1>7. Resting
  BY <1>1, <1>3, <1>4, <1>5, <1>6 DEF Resting
<1> QED
  BY <1>7, RestingSound

\* Every step of the engine keeps it.
LEMMA EngineGoesOn ==
  ASSUME EngineInv, [EngineNext]_engineVars
  PROVE  EngineInv'
<1>1. CASE Starting
  <2>1. CASE \E op \in {"prompt", "verify"}, l \in LeaseId, tokens \in Prompts : StartPrompt(op, l, tokens)
    BY <2>1, MatchedStarts
  <2>2. CASE \E l \in LeaseId, tokens \in Prompts : StartDecode(l, tokens)
    BY <2>2, MatchedStarts
  <2>3. CASE \E l \in LeaseId, tokens \in Prompts, draft \in 1 .. MaxLength : StartLookup(l, tokens, draft)
    BY <2>3, MatchedStarts
  <2>4. CASE \E q \in DOMAIN cursors, token \in Token : StartCursor(q, token)
    BY <2>4, StartCursorKeeps
  <2> QED
    BY <1>1, <2>1, <2>2, <2>3, <2>4 DEF Starting
<1>2. CASE Running
  <2>1. CASE Miss
    BY <2>1, MissKeeps
  <2>2. CASE ReserveForCall
    BY <2>2, ReserveForCallKeeps
  <2>3. CASE Suit \/ ReserveFails \/ RunSchedule \/ RunSteps \/ RunFails
    BY <2>3, PhaseActions
  <2> QED
    BY <1>2, <2>1, <2>2, <2>3 DEF Running
<1>3. CASE Settling
  <2>1. CASE InsertCall
    BY <2>1, InsertCallKeeps
  <2>2. CASE InsertReplay
    BY <2>2, ReplayGoesOn, ReplayRefused
  <2>3. CASE AbortCall
    BY <2>3, AbortCallKeeps
  <2>4. CASE \E gone \in Lost : ExtendCallRaises(gone)
    BY <2>4, RaiseKeeps
  <2>5. CASE \E accepted \in 0 .. MaxLength : AcceptDraft(accepted)
    BY <2>5, AcceptDraftKeeps
  <2>6. CASE \E m \in LeaseId : ExtendCall(m)
    BY <2>6, ExtendCallKeeps
  <2> QED
    BY <1>3, <2>1, <2>2, <2>3, <2>4, <2>5, <2>6 DEF Settling
<1>4. CASE Ending
  <2>1. CASE Close
    BY <2>1, CloseKeeps
  <2>2. CASE Advance
    BY <2>2, AdvanceKeeps
  <2>3. CASE Reset
    BY <2>3, ResetKeeps
  <2>4. CASE \E q \in Cursor, l \in LeaseId, tokens \in resumable : OpenCursor(q, l, tokens)
    BY <2>4, OpenKeeps
  <2>5. CASE \E q \in DOMAIN cursors : CloseCursor(q)
    BY <2>5, CloseCursorKeeps
  <2>6. CASE \E q \in orphans : DecodeOrphan(q) \/ CloseOrphan(q)
    BY <2>6, OrphanKeeps
  <2> QED
    BY <1>4, <2>1, <2>2, <2>3, <2>4, <2>5, <2>6 DEF Ending
<1>5. CASE UNCHANGED engineVars
  <2>1. UNCHANGED vars /\ call' = call /\ cursors' = cursors
    BY <1>5 DEF engineVars
  <2>2. /\ nodes' = nodes /\ slotAt' = slotAt /\ leases' = leases /\ tokensUsed' = tokensUsed /\ held' = held
        /\ refused' = refused
    BY <2>1 DEF vars
  <2>3. /\ CacheSound /\ PhaseSound /\ ComputesMore /\ LeasesKnown /\ CursorsSound /\ HeldSound /\ ReplaySound
    BY Known
  <2>4. Source' = Source /\ Cached' = Cached /\ Suffix' = Suffix /\ Replays' = Replays /\ CkptsNeeded' = CkptsNeeded
    BY <2>1, <2>2, SourceStays
  <2>5. CacheSound'
    BY <2>1, <2>3, SoundStays
  <2>6. PhaseSound' /\ ComputesMore'
    BY <2>1, <2>2, <2>3, <2>4 DEF PhaseSound, CallTypes, NoCall, ComputesMore
  <2>7. LeasesKnown' /\ CursorsSound'
    BY <2>1, <2>2, <2>3 DEF LeasesKnown, CursorsSound
  <2>8. HeldSound' /\ ReplaySound'
    BY <2>1, <2>2, <2>3, <2>4 DEF HeldSound, ReplaySound, Reserved
  <2> QED
    BY <2>5, <2>6, <2>7, <2>8 DEF EngineInv
<1> QED
  BY <1>1, <1>2, <1>3, <1>4, <1>5 DEF EngineNext

\* The invariant holds of every reachable state.
LEMMA EngineInvHolds == EngineSpec => []EngineInv
<1>1. EngineInit => EngineInv
  BY EngineStarts
<1>2. EngineInv /\ [EngineNext]_engineVars => EngineInv'
  BY EngineGoesOn
<1> QED
  BY <1>1, <1>2, PTL DEF EngineSpec
-----------------------------------------------------------------------------
(* The device.                                                                *)

\* What is reserved for a call is in use, and its next checkpoint is one.
LEMMA ReservedIs ==
  ASSUME EngineInv, call.phase \in Filling
  PROVE  /\ Range(Reserved) \subseteq tokensUsed /\ Range(held[Me].ckpts) \subseteq ckptsUsed
         /\ NextCkpt \subseteq Ckpt
<1>1. CacheInv /\ Me \in DOMAIN held /\ held[Me].ckpts \in Seq(Ckpt)
  BY SettlingIs
<1>2. NextCkpt \subseteq Ckpt
  <2> DEFINE k == held[Me].ckpts
  <2>1. k \in Seq(Ckpt) /\ NextCkpt = First(k)
    BY <1>1 DEF NextCkpt
  <2> HIDE DEF k
  <2>2. k # <<>> => k[1] \in Ckpt
    BY <2>1
  <2> QED
    BY <2>1, <2>2 DEF First
<1> QED
  BY <1>1, <1>2, ShareIs DEF Reserved

\* A step that leaves the device alone frees nothing.
LEMMA DeviceStays ==
  ASSUME DeviceSound, UNCHANGED deviceVars, tokensUsed \subseteq tokensUsed', ckptsUsed \subseteq ckptsUsed'
  PROVE  DeviceSound'
BY DEF DeviceSound, deviceVars

\* A step that settles a reservation forgets the content of what it frees.
LEMMA DeviceSettles ==
  ASSUME DeviceSound, KeepContent, lastCkpt' \subseteq Ckpt, planBuf' = planBuf,
         decodeBuf' = decodeBuf \/ decodeBuf' = {}
  PROVE  DeviceSound'
<1>1. DOMAIN slotData' \subseteq tokensUsed' /\ DOMAIN ckptData' \subseteq ckptsUsed'
  BY DEF KeepContent
<1>2. Cardinality(decodeBuf') <= 1 /\ Cardinality(planBuf') <= 1
  BY FS_EmptySet DEF DeviceSound
<1> QED
  BY <1>1, <1>2 DEF DeviceSound

\* The retained buffers are one at most.
LEMMA BuffersAre ==
  ASSUME DeviceSound, NEW data, NEW planned, SameBuffers \/ Buffers(data, planned)
  PROVE  Cardinality(decodeBuf') <= 1 /\ Cardinality(planBuf') <= 1
<1>1. \A x : Cardinality({x}) = 1
  BY FS_Singleton
<1>2. /\ decodeBuf' = decodeBuf \/ \E b : decodeBuf' = {b}
      /\ planBuf' = planBuf \/ \E b : planBuf' = {b}
  BY DEF SameBuffers, Buffers
<1>3. ASSUME NEW old, NEW new, Cardinality(old) <= 1, new = old \/ \E b : new = {b}
      PROVE  Cardinality(new) <= 1
  <2>1. CASE new = old
    BY <1>3, <2>1
  <2>2. CASE \E b : new = {b}
    <3>1. PICK b : new = {b}
      BY <2>2
    <3>2. Cardinality({b}) = 1
      BY <1>1
    <3>3. Cardinality(new) = 1
      BY <3>1, <3>2
    <3> QED
      BY <3>3
  <2> QED
    BY <1>3, <2>1, <2>2
<1>4. Cardinality(decodeBuf) <= 1 /\ Cardinality(planBuf) <= 1
  BY DEF DeviceSound
<1> QED
  BY <1>2, <1>3, <1>4

\* What the device fills is reserved.
LEMMA FillIs ==
  ASSUME EngineInv, DeviceSound, call.phase \in Filling, NEW right, Fill(right),
         UNCHANGED vars, UNCHANGED lastCkpt, Cardinality(decodeBuf') <= 1, Cardinality(planBuf') <= 1
  PROVE  DeviceSound'
<1>1. DOMAIN slotData' = Range(Reserved) \cup DOMAIN slotData /\
      DOMAIN ckptData' = Range(held[Me].ckpts) \cup DOMAIN ckptData
  BY DEF Fill, Extended
<1>2. tokensUsed' = tokensUsed /\ ckptsUsed' = ckptsUsed
  BY DEF vars
<1>3. DOMAIN slotData' \subseteq tokensUsed' /\ DOMAIN ckptData' \subseteq ckptsUsed'
  BY <1>1, <1>2, ReservedIs DEF DeviceSound
<1> QED
  BY <1>3 DEF DeviceSound

\* Every step of the engine keeps what is known of the device.
LEMMA DeviceGoesOn ==
  ASSUME EngineInv, DeviceSound, [EngineNext]_engineVars
  PROVE  DeviceSound'
<1>1. CASE Starting
  <2>1. UNCHANGED deviceVars /\ tokensUsed' = tokensUsed /\ ckptsUsed' = ckptsUsed
    BY <1>1 DEF Starting, StartPrompt, StartDecode, StartLookup, StartCursor, Match, poolVars, vars
  <2> QED
    BY <2>1, DeviceStays
<1>2. CASE Miss \/ Suit \/ ReserveFails
  <2>1. UNCHANGED deviceVars /\ tokensUsed' = tokensUsed /\ ckptsUsed' = ckptsUsed
    BY <1>2 DEF Miss, Suit, ReserveFails, ReleaseMatch, poolVars, vars
  <2> QED
    BY <2>1, DeviceStays
<1>3. CASE ReserveForCall
  BY <1>3, ReserveForCallKeeps, DeviceStays DEF ReserveForCall
<1>4. CASE RunSchedule
  <2>1. PICK right : Fill(right)
    BY <1>4 DEF RunSchedule
  <2>2. call.phase \in Filling /\ UNCHANGED vars /\ UNCHANGED lastCkpt /\ SameBuffers
    BY <1>4 DEF RunSchedule, In, Filling
  <2> QED
    BY <2>1, <2>2, BuffersAre, FillIs
<1>5. CASE RunSteps
  <2>1. PICK right, data : Fill(right) /\ Buffers(data, TRUE)
    BY <1>5 DEF RunSteps
  <2>2. call.phase \in Filling /\ UNCHANGED vars /\ UNCHANGED lastCkpt
    BY <1>5 DEF RunSteps, In, Filling
  <2> QED
    BY <2>1, <2>2, BuffersAre, FillIs
<1>6. CASE RunFails
  <2>1. PICK data, planned : SameBuffers \/ Buffers(data, planned)
    BY <1>6 DEF RunFails
  <2>2. /\ slotData' = slotData /\ ckptData' = ckptData /\ lastCkpt' = lastCkpt
        /\ tokensUsed' = tokensUsed /\ ckptsUsed' = ckptsUsed
    BY <1>6 DEF RunFails, vars
  <2>3. Cardinality(decodeBuf') <= 1 /\ Cardinality(planBuf') <= 1
    BY <2>1, BuffersAre
  <2> QED
    BY <2>2, <2>3 DEF DeviceSound
<1>7. CASE InsertCall
  <2>1. call.phase \in Filling /\ KeepContent /\ SameBuffers /\ (lastCkpt' = NextCkpt \/ lastCkpt' = lastCkpt)
    BY <1>7 DEF InsertCall, In, Filling
  <2>2. lastCkpt' \subseteq Ckpt
    BY <2>1, ReservedIs DEF DeviceSound
  <2> QED
    BY <2>1, <2>2, DeviceSettles DEF SameBuffers
<1>8. CASE InsertReplay \/ AbortCall \/ \E accepted \in 0 .. MaxLength : AcceptDraft(accepted)
  <2>1. KeepContent /\ SameBuffers /\ lastCkpt' = lastCkpt
    BY <1>8 DEF InsertReplay, AbortCall, AcceptDraft
  <2> QED
    BY <2>1, DeviceSettles DEF SameBuffers, DeviceSound
<1>9. CASE \E m \in LeaseId : ExtendCall(m)
  <2>1. call.phase \in Filling /\ KeepContent /\ SameBuffers /\ lastCkpt' = NextCkpt
    BY <1>9 DEF ExtendCall, In, Filling
  <2> QED
    BY <2>1, ReservedIs, DeviceSettles DEF SameBuffers
<1>10. CASE (\E gone \in Lost : ExtendCallRaises(gone)) \/ \E q \in orphans : CloseOrphan(q)
  <2>1. UNCHANGED deviceVars /\ tokensUsed' = tokensUsed /\ ckptsUsed' = ckptsUsed
    BY <1>10 DEF ExtendCallRaises, CloseOrphan, poolVars, vars
  <2> QED
    BY <2>1, DeviceStays
<1>11. CASE Close \/ Advance \/ (\E q \in DOMAIN cursors : CloseCursor(q))
             \/ \E q \in Cursor, l \in LeaseId, tokens \in resumable : OpenCursor(q, l, tokens)
  <2>1. UNCHANGED deviceVars /\ tokensUsed' = tokensUsed /\ ckptsUsed' = ckptsUsed
    BY <1>11 DEF Close, Advance, CloseCursor, OpenCursor, Match, ReleaseMatch, poolVars, vars
  <2> QED
    BY <2>1, DeviceStays
<1>12. CASE Reset
  <2>1. KeepContent /\ decodeBuf' = {} /\ planBuf' = planBuf /\ lastCkpt' = {}
    BY <1>12 DEF Reset
  <2> QED
    BY <2>1, DeviceSettles
<1>13. CASE \E q \in orphans : DecodeOrphan(q)
  <2>1. PICK data, planned : SameBuffers \/ Buffers(data, planned)
    BY <1>13 DEF DecodeOrphan
  <2>2. /\ slotData' = slotData /\ ckptData' = ckptData /\ lastCkpt' = lastCkpt
        /\ tokensUsed' = tokensUsed /\ ckptsUsed' = ckptsUsed
    BY <1>13 DEF DecodeOrphan, vars
  <2>3. Cardinality(decodeBuf') <= 1 /\ Cardinality(planBuf') <= 1
    BY <2>1, BuffersAre
  <2> QED
    BY <2>2, <2>3 DEF DeviceSound
<1>14. CASE UNCHANGED engineVars
  <2>1. UNCHANGED deviceVars /\ tokensUsed' = tokensUsed /\ ckptsUsed' = ckptsUsed
    BY <1>14 DEF engineVars, vars
  <2> QED
    BY <2>1, DeviceStays
<1> QED
  BY <1>1, <1>2, <1>3, <1>4, <1>5, <1>6, <1>7, <1>8, <1>9, <1>10, <1>11, <1>12, <1>13, <1>14
     DEF EngineNext, Running, Settling, Ending

\* And so it holds throughout.
LEMMA DeviceSoundHolds == EngineSpec => []DeviceSound
<1>1. EngineInit => DeviceSound
  <2>1. EngineInit => /\ decodeBuf = {} /\ planBuf = {} /\ DOMAIN slotData = {} /\ DOMAIN ckptData = {} /\ lastCkpt = {}
    BY DEF EngineInit
  <2>2. Cardinality({}) = 0
    BY FS_EmptySet
  <2> SUFFICES ASSUME EngineInit PROVE DeviceSound
    OBVIOUS
  <2>3. Cardinality(decodeBuf) = 0 /\ Cardinality(planBuf) = 0
    <3>1. decodeBuf = {} /\ planBuf = {}
      BY <2>1
    <3> QED
      BY <2>2, <3>1
  <2>4. /\ Cardinality(decodeBuf) <= 1 /\ Cardinality(planBuf) <= 1
    BY <2>3
  <2> QED
    BY <2>1, <2>4 DEF DeviceSound
<1>2. EngineInv /\ DeviceSound /\ [EngineNext]_engineVars => DeviceSound'
  BY DeviceGoesOn
<1> QED
  BY <1>1, <1>2, EngineInvHolds, PTL DEF EngineSpec
-----------------------------------------------------------------------------
(* What calls that ended in an exception left reserved, and the cursors that   *)
(* outlived a reset.                                                          *)

\* A decode reserves one slot and at most one checkpoint; an open cursor is anchored
\* or outlived a reset.
LostSound ==
  /\ \A gone \in DOMAIN held \ {Me} :
       /\ Len(held[gone].slots) = 1
       /\ Len(held[gone].ckpts) = IF Recurrent THEN 1 ELSE 0
  /\ orphans \subseteq Cursor /\ DOMAIN cursors \cap orphans = {}

\* A step that settles or reserves leaves what others hold alone.
LEMMA LostStays ==
  ASSUME LostSound, cursors' = cursors, orphans' = orphans,
         DOMAIN held' \ {Me} = DOMAIN held \ {Me}, \A c \in DOMAIN held \ {Me} : held'[c] = held[c]
  PROVE  LostSound'
BY DEF LostSound

\* What a step can do to the reservation of the call under way.
LEMMA OnlyMine ==
  ASSUME \/ held' = held \/ held' = Without(Me)
         \/ \E slots, ckpts : held' = Keep(Me, slots, ckpts) \/ held' = Put(held, Me, [slots |-> slots, ckpts |-> ckpts])
  PROVE  DOMAIN held' \ {Me} = DOMAIN held \ {Me} /\ \A c \in DOMAIN held \ {Me} : held'[c] = held[c]
BY DEF Without, Keep, Put

\* A decode that raises had reserved one slot, and a checkpoint for a recurrent model.
LEMMA RaiseLoses ==
  ASSUME EngineInv, LostSound, NEW gone \in Lost, ExtendCallRaises(gone)
  PROVE  LostSound'
<1>1. /\ call.phase = "insert" /\ call.op = "cursor" /\ cursors' = cursors /\ orphans' = orphans
      /\ held' = Put(Without(Me), gone, held[Me])
  BY DEF ExtendCallRaises, In
<1>2. call.phase \in Filling
  BY <1>1 DEF Filling
<1>3. /\ ~Replays /\ call.done = 0 /\ Suffix \in Nat /\ CkptsNeeded = IF Recurrent THEN 1 ELSE 0
  BY <1>1, <1>2, SettlingIs DEF Replays, CkptsNeeded
<1>4. Suffix = 1
  <2>1. PICK q \in DOMAIN cursors : call.lease = {cursors[q].lease} /\ \E t \in Token : call.tokens = Append(cursors[q].tokens, t)
    BY <1>1, Known DEF LeasesKnown
  <2>2. leases[cursors[q].lease].node = cursors[q].tokens
    BY Known DEF CursorsSound
  <2>3. Source.node = cursors[q].tokens
    BY <2>1, <2>2, Known, SourceIs
  <2>4. Source.node \in Strings
    BY <2>3, <1>2, SettlingIs DEF Paged
  <2>5. Len(call.tokens) = Len(Source.node) + 1
    BY <2>1, <2>3, <2>4 DEF Strings
  <2> QED
    BY <1>2, <2>5, SettlingIs DEF Cached
<1>5. Len(held[Me].slots) = 1 /\ Len(held[Me].ckpts) = IF Recurrent THEN 1 ELSE 0
  BY <1>2, <1>3, <1>4, SettlingIs, RecurrentAssumption DEF Reserved
<1>6. /\ DOMAIN held' = (DOMAIN held \ {Me}) \cup {gone} /\ held'[gone] = held[Me]
      /\ \A c \in DOMAIN held \ {Me} : c # gone => held'[c] = held[c]
  BY <1>1 DEF Put, Without, Lost
<1> QED
  BY <1>1, <1>5, <1>6 DEF LostSound

\* Every step keeps it.
LEMMA LostGoesOn ==
  ASSUME EngineInv, LostSound, [EngineNext]_engineVars
  PROVE  LostSound'
<1>1. CASE Starting \/ Running \/ UNCHANGED engineVars
  <2>1. cursors' = cursors /\ orphans' = orphans
    BY <1>1 DEF Starting, StartPrompt, StartDecode, StartLookup, StartCursor, Running, Miss, Suit, ReserveForCall,
                ReserveFails, RunSchedule, RunSteps, RunFails, engineVars
  <2>2. held' = held \/ \E slots, ckpts : held' = Put(held, Me, [slots |-> slots, ckpts |-> ckpts])
    BY <1>1 DEF Starting, StartPrompt, StartDecode, StartLookup, StartCursor, Running, Miss, Suit, ReserveForCall,
                ReserveFails, RunSchedule, RunSteps, RunFails, engineVars, Match, ReleaseMatch, Reserve, vars
  <2> QED
    BY <2>1, <2>2, OnlyMine, LostStays
<1>2. CASE InsertCall \/ InsertReplay \/ AbortCall \/ \E m \in LeaseId : ExtendCall(m)
  <2>1. cursors' = cursors /\ orphans' = orphans
    BY <1>2 DEF InsertCall, InsertReplay, AbortCall, ExtendCall
  <2>2. held' = held \/ held' = Without(Me) \/ \E slots, ckpts : held' = Keep(Me, slots, ckpts)
    BY <1>2 DEF InsertCall, InsertReplay, AbortCall, ExtendCall, ExtendMatch, Abort
  <2> QED
    BY <2>1, <2>2, OnlyMine, LostStays
<1>3. CASE \E accepted \in 0 .. MaxLength : AcceptDraft(accepted)
  <2>1. cursors' = cursors /\ orphans' = orphans /\ \E slots : held' = Keep(Me, slots, <<>>)
    BY <1>3 DEF AcceptDraft
  <2> QED
    BY <2>1, OnlyMine, LostStays
<1>4. CASE \E gone \in Lost : ExtendCallRaises(gone)
  BY <1>4, RaiseLoses
<1>5. CASE Ending
  <2>1. CASE Reset
    <3>1. DOMAIN held' = {} /\ DOMAIN cursors' = {} /\ orphans' = orphans \cup DOMAIN cursors
      BY <2>1 DEF Reset
    <3>2. DOMAIN cursors \subseteq Cursor
      BY Known DEF CursorsSound
    <3> QED
      BY <3>1, <3>2 DEF LostSound
  <2>2. ASSUME ~Reset
        PROVE  /\ held' = held /\ orphans' \subseteq orphans
               /\ DOMAIN cursors' \cap orphans = {}
    <3>1. held' = held
      BY <1>5, <2>2 DEF Ending, Close, Advance, OpenCursor, CloseCursor, DecodeOrphan, CloseOrphan, Match,
                        ReleaseMatch, vars
    <3>2. orphans' \subseteq orphans
      BY <1>5, <2>2 DEF Ending, Close, Advance, OpenCursor, CloseCursor, DecodeOrphan, CloseOrphan
    <3>3. DOMAIN cursors' \cap orphans = {}
      BY <1>5, <2>2 DEF Ending, Close, Advance, OpenCursor, CloseCursor, DecodeOrphan, CloseOrphan, Put, LostSound
    <3> QED
      BY <3>1, <3>2, <3>3
  <2> QED
    BY <2>1, <2>2 DEF LostSound
<1> QED
  BY <1>1, <1>2, <1>3, <1>4, <1>5 DEF EngineNext, Settling

\* And so it holds throughout.
LEMMA LostSoundHolds == EngineSpec => []LostSound
<1>1. EngineInit => LostSound
  <2> SUFFICES ASSUME EngineInit PROVE LostSound
    OBVIOUS
  <2>1. DOMAIN held = {} /\ orphans = {}
    BY DEF EngineInit, Init
  <2> QED
    BY <2>1 DEF LostSound
<1>2. EngineInv /\ LostSound /\ [EngineNext]_engineVars => LostSound'
  BY LostGoesOn
<1> QED
  BY <1>1, <1>2, EngineInvHolds, PTL DEF EngineSpec
-----------------------------------------------------------------------------
\* Whatever a call comes to, the engine's own state keeps its shape: the call's lease
\* is one the cache knows, its cursor is open, what has content is in use, and the
\* device keeps one set of buffers for its decodes and one for its plan.
THEOREM EngineTypesCorrect == EngineSpec => []EngineTypeOK
<1>1. EngineInv /\ DeviceSound /\ LostSound => EngineTypeOK
  <2> SUFFICES ASSUME EngineInv, DeviceSound, LostSound PROVE EngineTypeOK
    OBVIOUS
  <2>1. CallTypes /\ LeasesKnown /\ CursorsSound
    BY Known
  <2>2. call.cursor \subseteq DOMAIN cursors
    BY <2>1 DEF LeasesKnown
  <2>3. call.op \in Ops /\ call.phase \in Phases
    BY <2>1, CallIs
  <2> QED
    BY <2>1, <2>2, <2>3 DEF EngineTypeOK, LeasesKnown, CursorsSound, DeviceSound, LostSound, Ops, Phases
<1> QED
  BY <1>1, EngineInvHolds, DeviceSoundHolds, LostSoundHolds, PTL

\* Between calls the engine leases only what its open cursors do, and nothing is
\* reserved but the one slot, and for a recurrent model the one checkpoint, of each
\* decode that extend has ended with an exception.  An error of the device, a refused
\* release, a draft cut short forget nothing; the exception forgets that reservation,
\* and the cursor keeps its lease.
THEOREM NothingStaysBehind == EngineSpec => []NothingLeftBehind
<1>1. EngineInv /\ LostSound => NothingLeftBehind
  <2> SUFFICES ASSUME EngineInv, LostSound, call.phase = "idle"
               PROVE  NothingLeftBehind
    BY DEF NothingLeftBehind
  <2>1. PhaseSound /\ HeldSound /\ LeasesKnown /\ CursorsSound
    BY Known
  <2>2. Me \notin DOMAIN held /\ call.lease = {}
    BY <2>1 DEF HeldSound, Holding, PhaseSound, NoCall
  <2>3. \A l \in DOMAIN leases : \E q \in DOMAIN cursors : l = cursors[q].lease
    BY <2>1, <2>2 DEF LeasesKnown
  <2>4. \A q \in DOMAIN cursors : cursors[q].lease \in DOMAIN leases
    BY <2>1 DEF CursorsSound
  <2>5. DOMAIN leases = {cursors[q].lease : q \in DOMAIN cursors}
    BY <2>3, <2>4
  <2> QED
    BY <2>2, <2>5 DEF NothingLeftBehind, LostSound
<1> QED
  BY <1>1, EngineInvHolds, LostSoundHolds, PTL

\* An open cursor's lease is live, its own, and ends at the very tokens of its step,
\* through every decode, insertion and release of the other calls, until a reset
\* takes the cache from under it.
THEOREM CursorsStayAnchored == EngineSpec => []CursorsAnchored
<1>1. EngineInv /\ LostSound => CursorsAnchored
  BY DEF EngineInv, CursorsSound, LostSound, CursorsAnchored
<1> QED
  BY <1>1, EngineInvHolds, LostSoundHolds, PTL

\* As long as no pool refused a release, every slot and every checkpoint in use has
\* one owner: the tree, the call under way, or a call that ended in an exception.
THEOREM OwnedUntilRefusal == EngineSpec => []OwnershipUntilRefusal
<1>1. EngineInv => OwnershipUntilRefusal
  BY OwnersAre DEF EngineInv, CacheSound, OwnershipUntilRefusal
<1> QED
  BY <1>1, EngineInvHolds, PTL
-----------------------------------------------------------------------------
(* What the cache serves, for a model without recurrent state and pages of    *)
(* one token.                                                                 *)

\* The slot of every cached prefix has its content.
TokensTrue == \A p \in DOMAIN slotAt : slotAt[p] \in DOMAIN slotData /\ slotData[slotAt[p]] = {p[1]}

\* What is still to be inserted was computed for its place.
FilledRight ==
  call.phase \in {"accept", "insert"} =>
    \A i \in 1 .. Len(Reserved) :
      /\ Reserved[i] \in DOMAIN slotData
      /\ slotData[Reserved[i]] = {Upto(call.tokens, Cached + call.done + i)}

\* The strengthening: a call that runs has inserted nothing, and no node has a checkpoint.
TruthInv ==
  /\ ~refused => TokensTrue
  /\ FilledRight
  /\ call.phase = "run" => call.done = 0
  /\ DOMAIN ckptAt = {}

\* The models this holds of.
AttentionOnly == ~Recurrent /\ PageSize = 1

\* What the tree and the reservations refer to is in use.
SlotsInUse ==
  Range(slotAt) \subseteq tokensUsed /\ \A c \in DOMAIN held : Range(held[c].slots) \subseteq tokensUsed

\* It follows from ownership.
LEMMA InUse == CacheInv => SlotsInUse
<1> SUFFICES ASSUME CacheInv PROVE SlotsInUse
  OBVIOUS
<1>1. TokenOwnership
  BY OwnersAre
<1>2. \A c \in DOMAIN held : Range(held[c].slots) \subseteq HeldSlots
  BY DEF HeldSlots
<1> QED
  BY <1>1, <1>2 DEF TokenOwnership, SlotsInUse

\* A slot that is in use before and after a settling step keeps its content.
LEMMA ContentStays ==
  ASSUME KeepContent, NEW s \in DOMAIN slotData, s \in tokensUsed'
  PROVE  s \in DOMAIN slotData' /\ slotData'[s] = slotData[s]
BY DEF KeepContent

\* With pages of one token, a position is known by the prefix it ends.
LEMMA AtIs ==
  ASSUME PageSize = 1, NEW s \in Strings, NEW i \in 1 .. Len(s)
  PROVE  At(s, i)[1] = Upto(s, i) /\ At(s, i)[2] = i
<1>1. Len(s) \in Nat /\ i \in Nat
  BY UptoUpto
<1>2. i + PageSize - 1 = i
  BY <1>1
<1>3. Aligned(i) \in Nat /\ Aligned(i) <= i /\ i < Aligned(i) + 1
  BY <1>1, PagesAre
<1>4. Aligned(i) = i
  BY <1>1, <1>3
<1> QED
  BY <1>2, <1>4 DEF At

\* A settling step that leaves the tree's slots alone.
LEMMA TreeStaysTrue ==
  ASSUME TokensTrue, KeepContent, slotAt' = slotAt, SlotsInUse'
  PROVE  TokensTrue'
<1>1. ASSUME NEW p \in DOMAIN slotAt PROVE slotAt[p] \in DOMAIN slotData' /\ slotData'[slotAt[p]] = {p[1]}
  <2>1. slotAt[p] \in DOMAIN slotData /\ slotData[slotAt[p]] = {p[1]}
    BY DEF TokensTrue
  <2>2. slotAt[p] \in tokensUsed'
    BY DEF SlotsInUse, Range
  <2> QED
    BY <2>1, <2>2, ContentStays
<1> QED
  BY <1>1 DEF TokensTrue

\* An insertion of right slots behind a prefix the tree has.
InsertsTrue(key, q, slots, values) ==
  /\ key \in Paged /\ q \in nodes \cup {Root} /\ IsPrefix(q, key)
  /\ slots \in Seq(Slot) /\ values = PathValues(q) \o slots
  /\ \A i \in 1 .. Len(slots) : slots[i] \in DOMAIN slotData /\ slotData[slots[i]] = {Upto(key, Len(q) + i)}

\* It leaves the tree's content right.
LEMMA InsertStaysTrue ==
  ASSUME CacheInv, TokensTrue, KeepContent, SlotsInUse', PageSize = 1,
         NEW key, NEW q, NEW slots, NEW values, NEW ckpt, NEW L,
         InsertsTrue(key, q, slots, values), Insert(key, values, ckpt, L)
  PROVE  TokensTrue'
<1>1. /\ key \in Paged /\ q \in nodes \cup {Root} /\ IsPrefix(q, key)
      /\ slots \in Seq(Slot) /\ values = PathValues(q) \o slots
      /\ \A i \in 1 .. Len(slots) : slots[i] \in DOMAIN slotData /\ slotData[slots[i]] = {Upto(key, Len(q) + i)}
  BY DEF InsertsTrue
<1>2. TreeInv /\ Tree(nodes) /\ DOMAIN slotAt = CachedIn(nodes)
  BY DEF CacheInv, TreeInv, TreeTypes
<1>3. /\ q \in Paged /\ Len(q) \in Nat /\ PathValues(q) \in Seq(Slot) /\ Len(PathValues(q)) = Len(q)
  <2>1. q \in Paged /\ Len(q) \in Nat /\ PathValues(q) \in Seq(Slot)
    BY <1>1, PathsAre
  <2> QED
    BY <2>1 DEF PathValues
<1>4. /\ values \in Seq(Slot) /\ Len(values) = Len(q) + Len(slots)
      /\ \A i \in 1 .. Len(slots) : values[Len(q) + i] = slots[i]
  <2> DEFINE v == PathValues(q)
  <2>1. v \in Seq(Slot) /\ Len(v) = Len(q)
    BY <1>3
  <2> HIDE DEF v
  <2>2. /\ v \o slots \in Seq(Slot) /\ Len(v \o slots) = Len(v) + Len(slots)
        /\ \A i \in 1 .. Len(slots) : (v \o slots)[Len(v) + i] = slots[i]
    BY <1>1, <2>1, BehindIs
  <2>3. values = v \o slots
    BY <1>1 DEF v
  <2> QED
    BY <2>1, <2>2, <2>3
<1>5. /\ Len(values) = Len(key) /\ Len(key) \in Nat /\ CachedLength(key) \in 0 .. Len(key)
      /\ CachedIn(nodes') = CachedIn(nodes) \cup {At(key, i) : i \in CachedLength(key) + 1 .. Len(key)}
      /\ slotAt' \in [CachedIn(nodes') -> Slot]
      /\ \A p \in CachedIn(nodes) : slotAt'[p] = slotAt[p]
      /\ \A i \in CachedLength(key) + 1 .. Len(key) : slotAt'[At(key, i)] = values[i]
  BY <1>1, <1>2, <1>4, InsertValues
<1>6. Len(q) <= CachedLength(key)
  <2>1. Reached(key) \in Paged /\ CachedLength(key) = Len(Reached(key))
    BY <1>1, <1>2, ReachedIs
  <2>2. IsPrefix(q, Reached(key))
    <3>1. CASE q \in nodes
      BY <1>1, <1>2, <1>3, <3>1, PagedOrder, ReachedIs
    <3>2. CASE q = Root
      BY <2>1, <3>2, PagedOrder
    <3> QED
      BY <1>1, <3>1, <3>2
  <2> QED
    BY <1>3, <2>1, <2>2, PagedOrder
<1>7. ASSUME NEW p \in CachedIn(nodes)
      PROVE  slotAt'[p] \in DOMAIN slotData /\ slotData[slotAt'[p]] = {p[1]}
  BY <1>2, <1>5 DEF TokensTrue
<1>8. ASSUME NEW i \in CachedLength(key) + 1 .. Len(key)
      PROVE  /\ slotAt'[At(key, i)] \in DOMAIN slotData
             /\ slotData[slotAt'[At(key, i)]] = {At(key, i)[1]}
  <2>1. i - Len(q) \in 1 .. Len(slots) /\ Len(q) + (i - Len(q)) = i /\ i \in 1 .. Len(key)
    <3>1. Len(slots) \in Nat /\ Len(key) = Len(q) + Len(slots)
      BY <1>1, <1>4, <1>5
    <3> QED
      BY <1>3, <1>5, <1>6, <3>1
  <2>2. values[i] = slots[i - Len(q)]
    BY <1>4, <2>1
  <2>3. slots[i - Len(q)] \in DOMAIN slotData /\ slotData[slots[i - Len(q)]] = {Upto(key, i)}
    BY <1>1, <2>1
  <2>4. At(key, i)[1] = Upto(key, i)
    <3>1. key \in Strings
      BY <1>1 DEF Paged
    <3> QED
      BY <2>1, <3>1, AtIs
  <2> QED
    BY <1>5, <2>2, <2>3, <2>4
<1>9. DOMAIN slotAt' = CachedIn(nodes')
  BY <1>5
<1>10. ASSUME NEW p \in DOMAIN slotAt' PROVE slotAt'[p] \in DOMAIN slotData' /\ slotData'[slotAt'[p]] = {p[1]}
  <2>1. slotAt'[p] \in DOMAIN slotData /\ slotData[slotAt'[p]] = {p[1]}
    BY <1>5, <1>7, <1>8, <1>9
  <2>2. slotAt'[p] \in tokensUsed'
    BY DEF SlotsInUse, Range
  <2> QED
    BY <2>1, <2>2, ContentStays
<1> QED
  BY <1>10 DEF TokensTrue

\* The attention layers of a call find what they read.
LEMMA ReadsRight ==
  ASSUME EngineInv, TruthInv, AttentionOnly, call.phase = "run"
  PROVE  AttentionRight
<1>1. call.phase \in Filling
  BY DEF Filling
<1>2. /\ ~refused /\ CacheInv /\ Source.values = PathValues(Source.node) /\ Source.node \in nodes \cup {Root}
      /\ Source.node \in Paged
  BY <1>1, SettlingIs
<1>3. TokensTrue /\ PageSize = 1 /\ DOMAIN slotAt = CachedIn(nodes)
  BY <1>2 DEF TruthInv, AttentionOnly, CacheInv, TreeInv, TreeTypes
<1>4. ASSUME NEW i \in 1 .. Cached
      PROVE  ContentOf(slotData, Source.values[i]) = {Upto(Source.node, i)}
  <2>1. i \in 1 .. Len(Source.node)
    BY DEF Cached
  <2>2. Source.values[i] = slotAt[At(Source.node, i)] /\ At(Source.node, i) \in DOMAIN slotAt
    BY <1>2, <1>3, <2>1, PathsAre DEF PathValues
  <2>3. At(Source.node, i)[1] = Upto(Source.node, i)
    BY <1>2, <1>3, <2>1, AtIs DEF Paged
  <2> QED
    BY <1>3, <2>2, <2>3 DEF TokensTrue, ContentOf
<1> QED
  BY <1>4 DEF AttentionRight

\* And so the device leaves the right states in the reserved slots.
LEMMA FillsRight ==
  ASSUME EngineInv, TruthInv, AttentionOnly, call.phase = "run", Fill(TRUE), UNCHANGED vars,
         call'.tokens = call.tokens, call'.lease = call.lease, call'.done = call.done
  PROVE  (~refused' => TokensTrue') /\ FilledRight'
<1>1. call.phase \in Filling
  BY DEF Filling
<1>2. /\ ~refused /\ CacheInv /\ Me \in DOMAIN held /\ Reserved \in Seq(Slot) /\ IsInjective(Reserved)
  BY <1>1, SettlingIs
<1>3. TokensTrue /\ call.done = 0
  BY <1>2 DEF TruthInv
<1>4. Reserved = held[Me].slots /\ Me \in DOMAIN held /\ Range(slotAt) \cap Range(Reserved) = {}
  BY <1>2, ShareIs DEF Reserved
<1>5. /\ slotAt' = slotAt /\ Reserved' = Reserved /\ leases' = leases
  BY DEF vars, Reserved
<1>6. Cached' = Cached
  BY <1>5 DEF Cached, Source
<1> DEFINE index(s) == CHOOSE i \in 1 .. Len(Reserved) : Reserved[i] = s
           new == [s \in Range(Reserved) |-> {Upto(call.tokens, Cached + index(s))}]
<1>7. slotData' = Extended(new, slotData)
  BY DEF Fill
<1>8. \A s \in Range(Reserved) : s \in DOMAIN slotData' /\ slotData'[s] = {Upto(call.tokens, Cached + index(s))}
  BY <1>7 DEF Extended
<1>9. \A s \in DOMAIN slotData \ Range(Reserved) : s \in DOMAIN slotData' /\ slotData'[s] = slotData[s]
  BY <1>7 DEF Extended
<1>10. ASSUME NEW i \in 1 .. Len(Reserved) PROVE Reserved[i] \in Range(Reserved) /\ index(Reserved[i]) = i
  <2>1. DOMAIN Reserved = 1 .. Len(Reserved)
    BY <1>2
  <2>2. \A j \in 1 .. Len(Reserved) : Reserved[j] = Reserved[i] => j = i
    BY <1>2, <2>1 DEF IsInjective
  <2> QED
    BY <2>1, <2>2 DEF Range
<1> HIDE DEF index, new
<1>11. TokensTrue'
  <2>1. ASSUME NEW p \in DOMAIN slotAt PROVE slotAt[p] \in DOMAIN slotData' /\ slotData'[slotAt[p]] = {p[1]}
    <3>1. slotAt[p] \in DOMAIN slotData \ Range(Reserved) /\ slotData[slotAt[p]] = {p[1]}
      BY <1>3, <1>4 DEF TokensTrue, Range
    <3> QED
      BY <1>9, <3>1
  <2> QED
    BY <1>5, <2>1 DEF TokensTrue
<1>12. FilledRight'
  <2>1. ASSUME NEW i \in 1 .. Len(Reserved)
        PROVE  Reserved[i] \in DOMAIN slotData' /\ slotData'[Reserved[i]] = {Upto(call.tokens, Cached + call.done + i)}
    <3>1. Cached + call.done + i = Cached + i
      <4>1. Cached \in Nat
        BY <1>1, SettlingIs
      <4> QED
        BY <1>3, <4>1
    <3> QED
      BY <1>8, <1>10, <3>1
  <2> QED
    BY <1>5, <1>6, <2>1 DEF FilledRight
<1> QED
  BY <1>11, <1>12

\* What the tree and the call have is in use, unless a pool refused it.
LEMMA SoundInUse == EngineInv /\ ~refused => SlotsInUse
BY Known, InUse

\* The same of the state a step leads to.
LEMMA StaysInUse ==
  ASSUME EngineInv', ~refused'
  PROVE  SlotsInUse'
BY SoundInUse, PTL

\* Without recurrent state no call has a checkpoint to hand over.
LEMMA NoNextCkpt ==
  ASSUME EngineInv, AttentionOnly, call.phase \in Filling
  PROVE  NextCkpt = {}
<1>1. /\ held[Me].ckpts \in Seq(Ckpt)
      /\ Len(held[Me].ckpts) = IF CkptsNeeded = 0 THEN 0 ELSE CkptsNeeded - call.done
  BY SettlingIs
<1>2. CkptsNeeded = 0
  BY DEF AttentionOnly, CkptsNeeded
<1>3. held[Me].ckpts = <<>>
  BY <1>1, <1>2
<1> QED
  BY <1>3 DEF NextCkpt, First

\* A step to a phase that inserts nothing, and that leaves tree and device alone.
LEMMA TruthRests ==
  ASSUME TruthInv, slotAt' = slotAt, slotData' = slotData, ckptAt' = ckptAt, refused => refused',
         call'.phase \notin Filling
  PROVE  TruthInv'
<1>1. ~refused' => TokensTrue'
  BY DEF TruthInv, TokensTrue
<1>2. FilledRight'
  BY DEF FilledRight, Filling
<1>3. call'.phase # "run"
  BY DEF Filling
<1> QED
  BY <1>1, <1>2, <1>3 DEF TruthInv

\* The same, when the content of what the step frees is forgotten.
LEMMA TruthSettles ==
  ASSUME EngineInv', TruthInv, slotAt' = slotAt, KeepContent, ckptAt' = ckptAt, refused => refused',
         call'.phase \notin Filling
  PROVE  TruthInv'
<1>1. ASSUME ~refused' PROVE TokensTrue'
  BY <1>1, StaysInUse, TreeStaysTrue DEF TruthInv
<1>2. FilledRight'
  BY DEF FilledRight, Filling
<1>3. call'.phase # "run"
  BY DEF Filling
<1> QED
  BY <1>1, <1>2, <1>3 DEF TruthInv

\* The reservation is to be filled next.
LEMMA ReserveTrue ==
  ASSUME EngineInv, TruthInv, ReserveForCall
  PROVE  TruthInv'
<1>1. /\ call.phase = "reserve" /\ call' = [call EXCEPT !.phase = "run", !.slots = held'[Me].slots]
      /\ UNCHANGED deviceVars
  BY DEF ReserveForCall, In
<1>2. CallTypes /\ call.done = 0
  BY <1>1, Known DEF PhaseSound
<1>3. call'.phase = "run" /\ call'.done = 0
  BY <1>1, <1>2 DEF CallTypes
<1>4. slotAt' = slotAt /\ ckptAt' = ckptAt /\ refused' = refused /\ slotData' = slotData
  BY <1>1 DEF ReserveForCall, Reserve, radixVars, deviceVars
<1>5. ~refused' => TokensTrue'
  BY <1>4 DEF TruthInv, TokensTrue
<1>6. FilledRight'
  BY <1>3 DEF FilledRight
<1> QED
  BY <1>3, <1>4, <1>5, <1>6 DEF TruthInv

\* The device starts from the right states, and so leaves the right ones.
LEMMA RunTrue ==
  ASSUME EngineInv, TruthInv, AttentionOnly, RunSchedule \/ RunSteps
  PROVE  TruthInv'
<1>1. call.phase = "run" /\ UNCHANGED vars /\ \E p \in {"abort", "accept", "insert"} : Goto(p)
  BY DEF RunSchedule, RunSteps, In
<1>2. AttentionRight /\ ~Recurrent
  BY <1>1, ReadsRight DEF AttentionOnly
<1>3. Fill(TRUE)
  <2>1. CASE RunSchedule
    BY <1>2, <2>1 DEF RunSchedule, Fill
  <2>2. CASE RunSteps
    BY <1>2, <2>2 DEF RunSteps, Fill
  <2> QED
    BY <2>1, <2>2
<1>4. CallTypes
  BY Known
<1>5. PICK p \in {"abort", "accept", "insert"} : call' = [call EXCEPT !.phase = p]
  BY <1>1 DEF Goto
<1>6. call'.phase = p /\ call'.tokens = call.tokens /\ call'.lease = call.lease /\ call'.done = call.done
  BY <1>4, <1>5 DEF CallTypes
<1>7. (~refused' => TokensTrue') /\ FilledRight'
  BY <1>1, <1>3, <1>6, FillsRight
<1>8. ckptAt' = ckptAt
  BY <1>1 DEF vars
<1> QED
  BY <1>6, <1>7, <1>8 DEF TruthInv

\* A whole call is inserted where it was computed for.
LEMMA InsertCallTrue ==
  ASSUME EngineInv, EngineInv', TruthInv, AttentionOnly, InsertCall
  PROVE  TruthInv'
<1> DEFINE values == Source.values \o Reserved
<1>1. /\ call.phase = "insert" /\ ~Replays /\ KeepContent
      /\ Insert(call.tokens, values, NextCkpt, {}) /\ (refused => refused')
      /\ \E p \in {"close", "abort"} : Goto(p)
  BY DEF InsertCall, In, InsertAndSettle, Settle
<1>2. call.phase \in Filling
  BY <1>1 DEF Filling
<1>3. /\ ~refused /\ CacheInv /\ Reserved \in Seq(Slot) /\ call.done = 0 /\ Cached \in Nat
      /\ call.tokens \in Strings /\ IsPrefix(Source.node, call.tokens)
      /\ Source.values = PathValues(Source.node) /\ Source.node \in nodes \cup {Root}
  BY <1>1, <1>2, SettlingIs
<1>4. ASSUME ~refused' PROVE TokensTrue'
  <2>1. call.tokens \in Paged
    BY <1>1, <1>3 DEF Insert, Insertable, Paged, Whole
  <2>2. ASSUME NEW i \in 1 .. Len(Reserved)
        PROVE  Reserved[i] \in DOMAIN slotData /\ slotData[Reserved[i]] = {Upto(call.tokens, Len(Source.node) + i)}
    <3>1. Cached + call.done + i = Len(Source.node) + i
      BY <1>3 DEF Cached
    <3>2. FilledRight /\ call.phase \in {"accept", "insert"}
      BY <1>1 DEF TruthInv
    <3> QED
      BY <3>1, <3>2 DEF FilledRight
  <2>3. InsertsTrue(call.tokens, Source.node, Reserved, values)
    BY <1>3, <2>1, <2>2 DEF InsertsTrue
  <2>4. TokensTrue /\ PageSize = 1 /\ SlotsInUse'
    BY <1>3, <1>4, StaysInUse DEF TruthInv, AttentionOnly
  <2> HIDE DEF values
  <2> QED
    BY <1>1, <1>3, <2>3, <2>4, InsertStaysTrue
<1>5. ckptAt' = ckptAt
  BY <1>1, <1>2, NoNextCkpt DEF Insert
<1>6. call'.phase \notin Filling
  <2>1. CallTypes
    BY Known
  <2> QED
    BY <1>1, <2>1 DEF Goto, CallTypes, Filling
<1> QED
  BY <1>4, <1>5, <1>6 DEF TruthInv, FilledRight, Filling

\* A step of a replay is inserted where it was computed for; the rest keeps its content.
LEMMA InsertReplayTrue ==
  ASSUME EngineInv, EngineInv', TruthInv, AttentionOnly, InsertReplay
  PROVE  TruthInv'
<1>1. CallTypes /\ Replaying
  BY Known, ReplayingIs
<1>2. /\ call.phase = "insert" /\ KeepContent /\ Insert(ReplayKey, ReplayValues, NextCkpt, {})
      /\ Settle(ReplaySlots, ReplayCkpt)
  BY <1>1, ReplayStep DEF InsertReplay
<1>3. call.phase \in Filling /\ FilledRight
  BY <1>2 DEF Filling, TruthInv
<1>4. /\ ~refused /\ CacheInv /\ Reserved \in Seq(Slot) /\ Len(Reserved) > 0 /\ call.done \in Nat /\ Cached \in Nat
  BY <1>3, SettlingIs
<1>5. ckptAt' = ckptAt
  BY <1>2, <1>3, NoNextCkpt DEF Insert
<1>6. CASE ~Accepted(ReplaySlots, ReplayCkpt)
  <2>1. refused' = TRUE
    BY <1>2, <1>6 DEF Settle, Accepted
  <2>2. call'.phase = "abort"
    BY <1>1, <1>6, ReplayStep DEF CallTypes
  <2> QED
    BY <1>5, <2>1, <2>2 DEF TruthInv, FilledRight
<1>7. CASE Accepted(ReplaySlots, ReplayCkpt)
  <2>1. ReplayedOn /\ RestIs /\ ReplayValues = PathValues(ReplayBase) \o <<Reserved[1]>>
    BY <1>7, ReplayInserts, ReplayRest, ReplayFills
  <2>2. ~refused' /\ SlotsInUse'
    <3>1. ~refused'
      BY <2>1 DEF ReplayedOn, CacheInv, HeldTypes
    <3> QED
      BY <3>1, StaysInUse
  <2>3. PICK p \in {"close", "insert"} : call' = [call EXCEPT !.done = call.done + 1, !.phase = p]
    BY <1>1, <1>7, ReplayStep
  <2>4. /\ call'.phase = p /\ call'.tokens = call.tokens /\ call'.lease = call.lease /\ call'.done = call.done + 1
    BY <1>1, <2>3, ReplayedIs DEF Phases, ReplayedTo
  <2>5. TokensTrue'
    <3>1. ReplayKey \in Paged /\ ReplayBase \in nodes \cup {Root} /\ IsPrefix(ReplayBase, ReplayKey)
          /\ Len(ReplayBase) = Cached + call.done /\ ReplayKey = Upto(call.tokens, Cached + call.done + 1)
          /\ Len(ReplayKey) = Cached + call.done + 1
      BY <1>1 DEF Replaying, ReplayKey
    <3>2. /\ Reserved[1] \in DOMAIN slotData
          /\ slotData[Reserved[1]] = {Upto(call.tokens, Cached + call.done + 1)}
      <4>1. 1 \in 1 .. Len(Reserved) /\ call.phase \in {"accept", "insert"}
        BY <1>2, <1>4
      <4> QED
        BY <1>3, <4>1 DEF FilledRight
    <3> DEFINE new == <<Reserved[1]>>
    <3>3. Upto(ReplayKey, Len(ReplayBase) + 1) = ReplayKey
      <4>1. ReplayKey \in Strings
        BY <3>1 DEF Paged
      <4> QED
        BY <3>1, <4>1, UptoUpto
    <3>4. /\ new \in Seq(Slot) /\ ReplayValues = PathValues(ReplayBase) \o new
          /\ \A i \in 1 .. Len(new) : /\ new[i] \in DOMAIN slotData
                                      /\ slotData[new[i]] = {Upto(ReplayKey, Len(ReplayBase) + i)}
      <4>1. new \in Seq(Slot) /\ Len(new) = 1 /\ new[1] = Reserved[1]
        BY <1>4
      <4>2. \A i \in 1 .. Len(new) : i = 1
        BY <4>1
      <4>3. ReplayValues = PathValues(ReplayBase) \o new
        BY <2>1
      <4> HIDE DEF new
      <4> QED
        BY <3>1, <3>2, <3>3, <4>1, <4>2, <4>3
    <3> HIDE DEF new
    <3>5. InsertsTrue(ReplayKey, ReplayBase, new, ReplayValues)
      BY <3>1, <3>4 DEF InsertsTrue
    <3>6. TokensTrue /\ PageSize = 1
      BY <1>4 DEF TruthInv, AttentionOnly
    <3> QED
      BY <1>2, <1>4, <2>2, <3>5, <3>6, InsertStaysTrue
  <2>6. FilledRight'
    <3>1. CASE p = "close"
      BY <2>4, <3>1 DEF FilledRight
    <3>2. CASE p = "insert"
      <4> DEFINE rest == Tail(Reserved)
      <4>1. /\ rest \in Seq(Slot) /\ Len(rest) = Len(Reserved) - 1
            /\ \A i \in 1 .. Len(Reserved) - 1 : rest[i] = Reserved[i + 1]
        BY <1>4
      <4>2. Me \in DOMAIN held' /\ Reserved' = held'[Me].slots
        <5>1. HeldSound' /\ call'.phase \in Holding
          BY <2>4, <3>2, Known DEF EngineInv, Holding
        <5> QED
          BY <5>1 DEF HeldSound, Reserved
      <4>3. held' = Keep(Me, rest, RestCkpts) /\ Me \in DOMAIN held
        BY <2>1, <1>7, ReplayRest DEF ReplayedOn
      <4> HIDE DEF rest
      <4>4. Reserved' = rest
        BY <4>2, <4>3 DEF Keep, Without
      <4>5. Cached' = Cached
        <5>1. LeasesSame
          BY <2>1 DEF ReplayedOn
        <5>2. LeasesKnown
          BY Known
        <5>3. Source' = Source
          <6>1. CASE call.lease = {}
            BY <2>4, <6>1 DEF Source
          <6>2. CASE \E l \in LeaseId : call.lease = {l}
            BY <2>4, <5>1, <5>2, <6>2 DEF Source, LeasesKnown, LeasesSame
          <6> QED
            BY <5>2, <6>1, <6>2 DEF LeasesKnown
        <5> QED
          BY <5>3 DEF Cached
      <4>6. ASSUME NEW i \in 1 .. Len(rest)
            PROVE  rest[i] \in DOMAIN slotData' /\ slotData'[rest[i]] = {Upto(call.tokens, Cached + (call.done + 1) + i)}
        <5>1. i \in 1 .. Len(Reserved) - 1 /\ i + 1 \in 1 .. Len(Reserved)
              /\ Cached + call.done + (i + 1) = Cached + (call.done + 1) + i
          <6>1. Len(Reserved) \in Nat /\ i \in Nat /\ 1 <= i /\ i <= Len(Reserved) - 1
            BY <1>4, <4>1
          <6>2. i \in 1 .. Len(Reserved) - 1 /\ i + 1 \in 1 .. Len(Reserved)
            BY <6>1
          <6>3. Cached + call.done + (i + 1) = Cached + (call.done + 1) + i
            <7>1. Cached \in Nat /\ call.done \in Nat /\ i \in Nat
              BY <1>4, <6>1
            <7>2. \A x, y, z \in Nat : x + y + (z + 1) = x + (y + 1) + z
              OBVIOUS
            <7> QED
              BY <7>1, <7>2
          <6> QED
            BY <6>2, <6>3
        <5>2. rest[i] = Reserved[i + 1]
          BY <4>1, <5>1
        <5>3. /\ Reserved[i + 1] \in DOMAIN slotData
              /\ slotData[Reserved[i + 1]] = {Upto(call.tokens, Cached + call.done + (i + 1))}
          BY <1>2, <1>3, <5>1 DEF FilledRight
        <5>4. rest[i] \in tokensUsed'
          <6>1. Range(rest) \subseteq tokensUsed'
            BY <2>2, <4>2, <4>4 DEF SlotsInUse
          <6>2. DOMAIN rest = 1 .. Len(rest)
            BY <4>1
          <6> QED
            BY <6>1, <6>2 DEF Range
        <5> QED
          BY <1>2, <5>1, <5>2, <5>3, <5>4, ContentStays
      <4> QED
        BY <2>4, <4>4, <4>5, <4>6 DEF FilledRight
    <3> QED
      BY <3>1, <3>2
  <2>7. call'.phase # "run"
    BY <2>4
  <2> QED
    BY <1>5, <2>2, <2>5, <2>6, <2>7 DEF TruthInv
<1> QED
  BY <1>6, <1>7

\* What was accepted of a draft keeps its content and its place.
LEMMA AcceptDraftTrue ==
  ASSUME EngineInv, EngineInv', TruthInv, NEW accepted \in 0 .. MaxLength, AcceptDraft(accepted)
  PROVE  TruthInv'
<1> DEFINE committed == accepted + 1
           head == Upto(Reserved, committed)
<1>1. /\ call.phase = "accept" /\ committed <= Suffix /\ KeepContent
      /\ held' = Keep(Me, head, <<>>) /\ (refused => refused')
      /\ call' = [call EXCEPT !.phase = "insert", !.tokens = Upto(call.tokens, Cached + committed)]
      /\ slotAt' = slotAt /\ ckptAt' = ckptAt /\ leases' = leases
  BY DEF AcceptDraft, In, GiveBack, radixVars
<1>2. call.phase \in Filling /\ call.op = "lookup" /\ ~Replays /\ CallTypes
  BY <1>1, Known DEF Filling, PhaseSound, Replays
<1>3. /\ Me \in DOMAIN held /\ Cached \in Nat /\ Suffix \in Nat
      /\ Cached + Suffix = Len(call.tokens) /\ call.done = 0
      /\ Reserved \in Seq(Slot) /\ Len(Reserved) = Suffix /\ call.tokens \in Strings
  BY <1>2, SettlingIs
<1>4. committed \in Nat /\ committed > 0
  BY CacheAssumption
<1> HIDE DEF committed
<1>5. head \in Seq(Slot) /\ Len(head) = committed /\ \A i \in 1 .. committed : head[i] = Reserved[i]
  BY <1>1, <1>3, <1>4 DEF Upto
<1> HIDE DEF head
<1>6. Reserved' = head
  <2>1. head # <<>>
    BY <1>4, <1>5
  <2> QED
    BY <1>1, <1>3, <2>1 DEF Keep, Reserved
<1>7. /\ call'.phase = "insert" /\ call'.tokens = Upto(call.tokens, Cached + committed) /\ call'.done = 0
      /\ call'.lease = call.lease
  BY <1>1, <1>2, <1>3 DEF CallTypes
<1>8. Cached' = Cached
  BY <1>1, <1>7 DEF Cached, Source
<1>9. ~refused' /\ SlotsInUse' /\ Me \in DOMAIN held'
  <2>1. PhaseSound' /\ HeldSound'
    BY DEF EngineInv
  <2>2. ~refused' /\ Me \in DOMAIN held'
    BY <1>7, <2>1 DEF PhaseSound, HeldSound, Holding
  <2> QED
    BY <2>2, StaysInUse
<1>10. TokensTrue'
  BY <1>1, <1>9, TreeStaysTrue DEF TruthInv
<1>11. ASSUME NEW i \in 1 .. Len(head)
       PROVE  head[i] \in DOMAIN slotData' /\
              slotData'[head[i]] = {Upto(Upto(call.tokens, Cached + committed), Cached + 0 + i)}
  <2>1. i \in 1 .. committed /\ i \in 1 .. Len(Reserved)
    BY <1>1, <1>3, <1>4, <1>5
  <2>2. /\ Cached + committed \in 0 .. Len(call.tokens)
        /\ Cached + i \in 0 .. Cached + committed /\ Cached + 0 + i = Cached + i
    BY <1>1, <1>3, <1>4, <2>1
  <2>3. Upto(Upto(call.tokens, Cached + committed), Cached + i) = Upto(call.tokens, Cached + i)
    BY <1>3, <2>2, UptoUpto
  <2>4. head[i] \in DOMAIN slotData /\ slotData[head[i]] = {Upto(call.tokens, Cached + i)}
    <3>1. Reserved[i] \in DOMAIN slotData /\ slotData[Reserved[i]] = {Upto(call.tokens, Cached + call.done + i)}
      BY <1>1, <2>1 DEF TruthInv, FilledRight
    <3>2. head[i] = Reserved[i]
      BY <1>5, <2>1
    <3> QED
      BY <1>3, <2>2, <3>1, <3>2
  <2>5. head[i] \in tokensUsed'
    <3>1. Range(head) \subseteq tokensUsed'
      BY <1>6, <1>9 DEF SlotsInUse, Reserved
    <3>2. i \in DOMAIN head
      BY <1>5
    <3> QED
      BY <3>1, <3>2 DEF Range
  <2> QED
    BY <1>1, <2>2, <2>3, <2>4, <2>5, ContentStays
<1>12. FilledRight'
  BY <1>6, <1>7, <1>8, <1>11 DEF FilledRight
<1> QED
  BY <1>1, <1>7, <1>10, <1>12 DEF TruthInv

\* The token a cursor decoded is cached where it was computed for.
LEMMA ExtendCallTrue ==
  ASSUME EngineInv, EngineInv', TruthInv, AttentionOnly, NEW m \in LeaseId, ExtendCall(m)
  PROVE  TruthInv'
<1>1. PICK l \in call.lease : ExtendMatch(Me, l, m, Last(call.tokens))
  BY DEF ExtendCall
<1>2. /\ call.phase = "insert" /\ call.op = "cursor" /\ KeepContent
      /\ call' = [call EXCEPT !.phase = "advance", !.lease = {m}]
  BY DEF ExtendCall, In
<1>3. call.phase \in Filling /\ ~Replays /\ NextCkpt = {} /\ CallTypes /\ LeasesKnown
  BY <1>2, NoNextCkpt, Known DEF Filling, Replays
<1>4. /\ ~refused /\ Me \in DOMAIN held /\ Cached \in Nat /\ Cached + Suffix = Len(call.tokens) /\ call.done = 0
      /\ Len(Reserved) = Suffix - call.done /\ call.tokens \in Strings /\ Len(call.tokens) \in Nat
      /\ Suffix \in Nat /\ IsPrefix(Source.node, call.tokens) /\ Source.node \in Paged
  BY <1>3, SettlingIs
<1>5. call.lease = {l} /\ Source = leases[l]
  <2>1. call.lease = {l}
    BY <1>1, <1>3 DEF LeasesKnown
  <2>2. CacheSound
    BY Known
  <2> QED
    BY <1>3, <2>1, <2>2, SourceIs
<1>6. call'.phase = "advance"
  <2>1. CallTypes
    BY <1>3
  <2> QED
    BY <1>2, <2>1 DEF CallTypes
<1> DEFINE child == Append(leases[l].node, Last(call.tokens))
           last == At(child, Len(child))
<1>7. /\ Len(Reserved) = 1 /\ (refused => refused')
      /\ slotAt' = IF child \in nodes THEN slotAt ELSE Put(slotAt, last, Reserved[1])
      /\ ckptAt' = ckptAt
  <2>1. Len(held[Me].slots) = 1 /\ Extend(l, m, Last(call.tokens), held[Me].slots[1], First(held[Me].ckpts))
        /\ (refused => refused')
    BY <1>1 DEF ExtendMatch, GiveBack
  <2>2. Extend(l, m, Last(call.tokens), Reserved[1], {})
    BY <1>3, <2>1 DEF Reserved, NextCkpt
  <2> QED
    BY <2>1, <2>2 DEF Extend, Reserved
<1>8. child = call.tokens
  <2>1. \E q \in DOMAIN cursors : /\ call.lease = {cursors[q].lease}
                                  /\ \E t \in Token : call.tokens = Append(cursors[q].tokens, t)
    BY <1>2, <1>3 DEF LeasesKnown
  <2>2. PICK q \in DOMAIN cursors : /\ call.lease = {cursors[q].lease}
                                    /\ \E t \in Token : call.tokens = Append(cursors[q].tokens, t)
    BY <2>1
  <2>3. PICK t \in Token : call.tokens = Append(cursors[q].tokens, t)
    BY <2>2
  <2>4. leases[l].node = cursors[q].tokens
    BY <1>5, <2>2, Known DEF CursorsSound
  <2>5. leases[l].node \in Strings
    BY <1>4, <1>5 DEF Paged
  <2> QED
    BY <2>3, <2>4, <2>5, OneMore
<1>9. /\ last[1] = call.tokens
      /\ Reserved[1] \in DOMAIN slotData /\ slotData[Reserved[1]] = {call.tokens}
  <2>1. Len(call.tokens) = Cached + 1 /\
        Cached + call.done + 1 = Len(call.tokens) /\ Len(call.tokens) \in 1 .. Len(call.tokens)
        /\ 1 \in 1 .. Len(Reserved)
    <3>1. Suffix = 1
      <4>1. Suffix \in Nat /\ call.done = 0 /\ 1 = Suffix - call.done
        BY <1>4, <1>7
      <4> QED
        BY <4>1
    <3>2. Len(call.tokens) = Cached + 1
      BY <1>4, <3>1
    <3>3. Len(call.tokens) >= 1 /\ Cached + 0 + 1 = Cached + 1
      BY <1>4, <3>2
    <3> QED
      BY <1>4, <1>7, <3>2, <3>3
  <2>2. Upto(call.tokens, Len(call.tokens)) = call.tokens
    BY <1>4, UptoUpto
  <2>3. last[1] = Upto(call.tokens, Len(call.tokens))
    BY <1>4, <1>8, <2>1, AtIs DEF AttentionOnly
  <2>4. Reserved[1] \in DOMAIN slotData /\ slotData[Reserved[1]] = {Upto(call.tokens, Cached + call.done + 1)}
    BY <1>2, <2>1 DEF TruthInv, FilledRight
  <2> QED
    BY <2>1, <2>2, <2>3, <2>4
<1> HIDE DEF child, last
<1>10. ASSUME ~refused' PROVE TokensTrue'
  <2>1. SlotsInUse' /\ TokensTrue
    BY <1>4, <1>10, StaysInUse DEF TruthInv
  <2>2. ASSUME NEW p \in DOMAIN slotAt' PROVE slotAt'[p] \in DOMAIN slotData' /\ slotData'[slotAt'[p]] = {p[1]}
    <3>1. slotAt'[p] \in DOMAIN slotData /\ slotData[slotAt'[p]] = {p[1]}
      <4>1. CASE p \in DOMAIN slotAt /\ slotAt'[p] = slotAt[p]
        BY <2>1, <4>1 DEF TokensTrue
      <4>2. CASE p = last /\ slotAt'[p] = Reserved[1]
        BY <1>9, <4>2
      <4>3. \/ p \in DOMAIN slotAt /\ slotAt'[p] = slotAt[p]
            \/ p = last /\ slotAt'[p] = Reserved[1]
        BY <1>7, <2>2 DEF Put
      <4> QED
        BY <4>1, <4>2, <4>3
    <3>2. slotAt'[p] \in tokensUsed'
      BY <2>1 DEF SlotsInUse, Range
    <3> QED
      BY <1>2, <3>1, <3>2, ContentStays
  <2> QED
    BY <2>2 DEF TokensTrue
<1>11. FilledRight' /\ call'.phase # "run"
  BY <1>6 DEF FilledRight
<1> QED
  BY <1>7, <1>10, <1>11 DEF TruthInv

\* Every step of the engine keeps what the cache serves, and what is to be inserted, right.
LEMMA TruthGoesOn ==
  ASSUME EngineInv, EngineInv', TruthInv, AttentionOnly, [EngineNext]_engineVars
  PROVE  TruthInv'
<1>1. CASE Starting
  <2>1. /\ slotAt' = slotAt /\ slotData' = slotData /\ ckptAt' = ckptAt /\ refused' = refused
    <3>1. UNCHANGED deviceVars /\ (UNCHANGED vars \/ \E l, key, tail : Match(l, key, tail))
      BY <1>1 DEF Starting, StartPrompt, StartDecode, StartLookup, StartCursor
    <3>2. CASE UNCHANGED vars
      BY <3>1, <3>2 DEF deviceVars, vars
    <3>3. CASE \E l, key, tail : Match(l, key, tail)
      BY <3>1, <3>3 DEF Match, MatchPrefix, deviceVars, poolVars
    <3> QED
      BY <3>1, <3>2, <3>3
  <2>2. call'.phase = "matched"
    BY <1>1 DEF Starting, StartPrompt, StartDecode, StartLookup, StartCursor, Begin, NoCall
  <2>3. call'.phase \notin Filling
    BY <2>2 DEF Filling
  <2> QED
    BY <2>1, <2>3, TruthRests
<1>2. CASE Miss \/ Suit \/ ReserveFails \/ RunFails
  <2>1. /\ slotAt' = slotAt /\ slotData' = slotData /\ ckptAt' = ckptAt /\ refused' = refused
    BY <1>2 DEF Miss, Suit, ReserveFails, RunFails, ReleaseMatch, ReleaseLease, poolVars,
                deviceVars, vars
  <2>2. CallTypes
    BY Known
  <2>3. call'.phase \notin Filling
    BY <1>2, <2>2 DEF Miss, Suit, ReserveFails, RunFails, Goto, CallTypes, Filling
  <2> QED
    BY <2>1, <2>3, TruthRests
<1>3. CASE ReserveForCall
  BY <1>3, ReserveTrue
<1>4. CASE RunSchedule \/ RunSteps
  BY <1>4, RunTrue
<1>5. CASE InsertCall
  BY <1>5, InsertCallTrue
<1>6. CASE InsertReplay
  BY <1>6, InsertReplayTrue
<1>7. CASE \E accepted \in 0 .. MaxLength : AcceptDraft(accepted)
  BY <1>7, AcceptDraftTrue
<1>8. CASE \E m \in LeaseId : ExtendCall(m)
  BY <1>8, ExtendCallTrue
<1>9. CASE AbortCall
  <2>1. slotAt' = slotAt /\ ckptAt' = ckptAt /\ KeepContent /\ (refused => refused') /\ Goto("close")
    BY <1>9 DEF AbortCall, Abort, GiveBack, radixVars
  <2>2. call'.phase \notin Filling
    BY <2>1, Known DEF Goto, CallTypes, Filling
  <2> QED
    BY <2>1, <2>2, TruthSettles
<1>10. CASE Close \/ Advance \/ (\E q \in DOMAIN cursors : CloseCursor(q))
             \/ \E q \in Cursor, l \in LeaseId, tokens \in resumable : OpenCursor(q, l, tokens)
  <2>1. slotAt' = slotAt /\ slotData' = slotData /\ ckptAt' = ckptAt /\ refused' = refused
    <3>1. UNCHANGED deviceVars /\ (UNCHANGED vars \/ (\E l : ReleaseMatch(l)) \/ \E l, key : Match(l, key, 0))
      BY <1>10 DEF Close, Advance, CloseCursor, OpenCursor
    <3>2. CASE UNCHANGED vars
      BY <3>1, <3>2 DEF deviceVars, vars
    <3>3. CASE \E l : ReleaseMatch(l)
      BY <3>1, <3>3 DEF ReleaseMatch, ReleaseLease, deviceVars, poolVars
    <3>4. CASE \E l, key : Match(l, key, 0)
      BY <3>1, <3>4 DEF Match, MatchPrefix, deviceVars, poolVars
    <3> QED
      BY <3>1, <3>2, <3>3, <3>4
  <2>2. call' = NoCall \/ (call' = call /\ Idle)
    BY <1>10 DEF Close, Advance, CloseCursor, OpenCursor
  <2>3. call'.phase \notin Filling
    BY <2>2 DEF NoCall, Idle, Filling
  <2> QED
    BY <2>1, <2>3, TruthRests
<1>11. CASE Reset
  <2>1. slotAt' = <<>> /\ ckptAt' = <<>> /\ call' = call /\ call.phase = "idle"
    BY <1>11 DEF Reset, Idle
  <2>2. DOMAIN slotAt' = {} /\ DOMAIN ckptAt' = {}
    BY <2>1
  <2> QED
    BY <2>1, <2>2 DEF TruthInv, TokensTrue, FilledRight
<1>12. CASE \/ \E gone \in Lost : ExtendCallRaises(gone)
            \/ \E q \in orphans : DecodeOrphan(q) \/ CloseOrphan(q)
  <2>1. /\ slotAt' = slotAt /\ slotData' = slotData /\ ckptAt' = ckptAt /\ refused' = refused
    BY <1>12 DEF ExtendCallRaises, DecodeOrphan, CloseOrphan, radixVars, poolVars, deviceVars, vars
  <2>2. call' = NoCall \/ (call' = call /\ Idle)
    BY <1>12 DEF ExtendCallRaises, DecodeOrphan, CloseOrphan
  <2>3. call'.phase \notin Filling
    BY <2>2 DEF NoCall, Idle, Filling
  <2> QED
    BY <2>1, <2>3, TruthRests
<1>13. CASE UNCHANGED engineVars
  <2>1. /\ slotAt' = slotAt /\ slotData' = slotData /\ ckptAt' = ckptAt /\ refused' = refused /\ held' = held
        /\ leases' = leases /\ call' = call
    BY <1>13 DEF engineVars, deviceVars, vars
  <2>2. Cached' = Cached /\ Reserved' = Reserved
    BY <2>1 DEF Cached, Source, Reserved
  <2> QED
    BY <2>1, <2>2 DEF TruthInv, TokensTrue, FilledRight
<1> QED
  BY <1>1, <1>2, <1>3, <1>4, <1>5, <1>6, <1>7, <1>8, <1>9, <1>10, <1>11, <1>12, <1>13
     DEF EngineNext, Running, Settling, Ending

\* Before the first call the cache serves nothing.
LEMMA TruthStarts ==
  ASSUME EngineInit
  PROVE  TruthInv
<1>1. slotAt = <<>> /\ ckptAt = <<>> /\ call = NoCall
  BY DEF EngineInit, Init, RadixInit
<1>2. DOMAIN slotAt = {} /\ DOMAIN ckptAt = {} /\ call.phase = "idle"
  BY <1>1 DEF NoCall
<1> QED
  BY <1>2 DEF TruthInv, TokensTrue, FilledRight

\* For a model without recurrent state and pages of one token, the slot of every cached
\* prefix holds the state computed from exactly that prefix, whatever calls, failures,
\* replays, drafts and cursors came before: a call that matches it answers as if it had
\* computed everything itself.
THEOREM AttentionServedTruly == AttentionOnly => (EngineSpec => []CacheTruthful)
<1> SUFFICES ASSUME AttentionOnly PROVE EngineSpec => []CacheTruthful
  OBVIOUS
<1>1. EngineInit => TruthInv
  BY TruthStarts
<1>2. EngineInv /\ EngineInv' /\ TruthInv /\ [EngineNext]_engineVars => TruthInv'
  BY TruthGoesOn
<1>3. TruthInv => CacheTruthful
  BY DEF TruthInv, TokensTrue, CacheTruthful, ContentOf
<1> QED
  BY <1>1, <1>2, <1>3, EngineInvHolds, PTL DEF EngineSpec
=============================================================================
