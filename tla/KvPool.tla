------------------------------- MODULE KvPool -------------------------------
(***************************************************************************)
(* The slot allocator of src/lib/kv_cache.ml: a LIFO free list, an in-use  *)
(* bitmap and a counter, kept in step by hand.  The serving cache owns two *)
(* of them, one for token slots and one for recurrent checkpoints.         *)
(*                                                                         *)
(* Callers may ask for anything: more slots than there are, a negative     *)
(* number, or the release of slots that are duplicated, out of range or    *)
(* not reserved.  The pool answers such calls with an error and must not   *)
(* have moved by then.                                                     *)
(***************************************************************************)
EXTENDS Integers, FiniteSets, SequencesExt

CONSTANTS
  KvCapacity,    \* how many slots the pool was created with
  Counts,        \* the numbers of slots callers ask for
  ReleaseArgs    \* the arrays of slot numbers callers hand back

ASSUME KvCapacityAssumption == KvCapacity \in Nat \ {0}
ASSUME CountsAssumption == Counts \subseteq Int
ASSUME ReleaseArgsAssumption == ReleaseArgs \subseteq Seq(Int)

VARIABLES
  free,    \* pool.free, the next slot to hand out first
  inUse,   \* the slots whose pool.in_use bit is set
  used,    \* pool.used
  reply    \* the answer to the last call

kvVars == <<free, inUse, used, reply>>

Slot == 0 .. KvCapacity - 1

Granted(slots) == [op |-> "reserve", ok |-> TRUE, slots |-> slots, count |-> Len(slots)]
Refused(count) == [op |-> "reserve", ok |-> FALSE, slots |-> <<>>, count |-> count]
Released(slots) == [op |-> "release", ok |-> TRUE, slots |-> slots, count |-> Len(slots)]
Rejected(slots) == [op |-> "release", ok |-> FALSE, slots |-> slots, count |-> Len(slots)]

KvInit ==
  /\ free = [i \in 1 .. KvCapacity |-> KvCapacity - i]
  /\ inUse = {}
  /\ used = 0
  /\ reply = Released(<<>>)

\* The slots a reservation of count slots takes: the head of the free list.
Taken(count) == SubSeq(free, 1, count)

Reserve(count) ==
  /\ count \in 0 .. Len(free)
  /\ free' = SubSeq(free, count + 1, Len(free))
  /\ inUse' = inUse \cup Range(Taken(count))
  /\ used' = used + count
  /\ reply' = Granted(Taken(count))

\* A negative count and a count the free list cannot satisfy are both errors.
Refuse(count) ==
  /\ count \notin 0 .. Len(free)
  /\ reply' = Refused(count)
  /\ UNCHANGED <<free, inUse, used>>

\* Mutants of Releasable: one of its two checks forgotten.
ReleasableDistinct(slots) == IsInjective(slots)
ReleasableInUse(slots) == Range(slots) \subseteq inUse

\* Every slot handed back is reserved, and none is handed back twice.
Releasable(slots) ==
  /\ IsInjective(slots)
  /\ Range(slots) \subseteq inUse

\* Mutant of Release: the slots do not come back to the free list.
ReleaseLeaks(slots) ==
  /\ Releasable(slots)
  /\ inUse' = inUse \ Range(slots)
  /\ used' = used - Len(slots)
  /\ reply' = Released(slots)
  /\ UNCHANGED free

\* Slots are pushed on the free list one by one, so the last is on top.
Release(slots) ==
  /\ Releasable(slots)
  /\ free' = Reverse(slots) \o free
  /\ inUse' = inUse \ Range(slots)
  /\ used' = used - Len(slots)
  /\ reply' = Released(slots)

\* Mutant of Reject: the check of a slot and its return share one loop, so the
\* good slots of a bad array are freed before the error is seen.
RejectHalfway(slots) ==
  /\ ~Releasable(slots)
  /\ free' = SetToSeq(Range(slots) \cap inUse) \o free
  /\ inUse' = inUse \ Range(slots)
  /\ used' = used - Cardinality(Range(slots) \cap inUse)
  /\ reply' = Rejected(slots)

\* One bad slot rejects the whole array before anything is freed.
Reject(slots) ==
  /\ ~Releasable(slots)
  /\ reply' = Rejected(slots)
  /\ UNCHANGED <<free, inUse, used>>

KvNext ==
  \/ \E count \in Counts : Reserve(count) \/ Refuse(count)
  \/ \E slots \in ReleaseArgs : Release(slots) \/ Reject(slots)

KvSpec == KvInit /\ [][KvNext]_kvVars
-----------------------------------------------------------------------------
\* The shape of the pool's state.
KvTypeOK ==
  /\ free \in Seq(Slot)
  /\ inUse \subseteq Slot
  /\ used \in 0 .. KvCapacity
  /\ reply.op \in {"reserve", "release"} /\ reply.ok \in BOOLEAN
  /\ reply.slots \in Seq(Int) /\ reply.count \in Int

\* The three records of the pool (free list, bitmap, counter) agree: the free
\* list holds every slot that is not in use, each of them once, and the counter
\* is the number of slots in use.  A slot lost here is lost until restart, one
\* listed twice is handed to two sequences.
FreeListExact ==
  /\ IsInjective(free)
  /\ Range(free) = Slot \ inUse
  /\ used = Cardinality(inUse)

\* reserve_tokens refuses a request only when there really are too few slots
\* left (or the request is negative): the "available" it reports in
\* Token_capacity_exhausted is below the request.
RefusalHonest ==
  reply.op = "reserve" /\ ~reply.ok =>
    reply.count < 0 \/ reply.count > KvCapacity - used

\* No two reservations ever share a slot: what a call of reserve hands out was
\* free before the call, is named once, and is in use after it.
GrantsFresh ==
  [][ reply'.op = "reserve" /\ reply'.ok =>
        /\ IsInjective(reply'.slots)
        /\ Range(reply'.slots) \subseteq Slot \ inUse
        /\ Range(reply'.slots) \subseteq inUse' ]_kvVars

\* Every answer of kv_cache.ml is the one right answer of a plain set of slots:
\* reserve succeeds exactly when the slots are there, release exactly when its
\* whole array is good, and an error answer has moved no slot at all (the pool
\* walks the array before it frees the first of its slots).
Service == INSTANCE SlotService WITH Slot <- Slot, inUse <- inUse, reply <- reply
ImplementsSlotService == Service!ServiceSpec
=============================================================================
