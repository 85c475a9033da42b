---------------------------- MODULE ServingQueue ----------------------------
(***************************************************************************)
(* src/lib/serving_queue.ml: the requests waiting for the engine thread,   *)
(* and the token budget that admits prompts, with a high and a low         *)
(* watermark between which admission stays closed once it has closed.      *)
(*                                                                         *)
(* A request is prefilled once and then decodes one token at a time.  The  *)
(* scores that order the queue depend on the clock; the order is left open *)
(* here, so what holds does so for every order, shortest-first included.   *)
(***************************************************************************)
EXTENDS Integers, FiniteSets, SequencesExt, Tables

CONSTANTS
  Request,
  TokenCapacity,   \* token_capacity
  MaxBatch,        \* max_batch_size
  ChunkBudget      \* prefill_chunk_budget

ASSUME QueueAssumption ==
  TokenCapacity \in Nat \ {0} /\ MaxBatch \in Nat \ {0} /\ ChunkBudget \in Nat \ {0}

VARIABLES
  queue,       \* by_id and queue, kept equal: the state of the waiting requests
  allocated,   \* allocated_tokens
  congested    \* is_congested

queueVars == <<queue, allocated, congested>>

HighWatermark == (TokenCapacity * 90) \div 100
LowWatermark == (TokenCapacity * 75) \div 100

PendingPrefill(remaining) == [phase |-> "prefill", remaining |-> remaining]
ActiveDecode == [phase |-> "decode", remaining |-> 0]

QueueInit == queue = <<>> /\ allocated = 0 /\ congested = FALSE

Smaller(m, n) == IF m < n THEN m ELSE n
Larger(m, n) == IF m < n THEN n ELSE m

CanAdmitPrefill(tokens) ==
  /\ congested => allocated <= LowWatermark
  /\ allocated + tokens <= HighWatermark

\* A reservation beyond the capacity is an error that changes nothing.
ReserveTokens(count) ==
  LET granted == count > 0 /\ allocated + count <= TokenCapacity IN
  /\ allocated' = IF granted THEN allocated + count ELSE allocated
  /\ congested' = (congested \/ (granted /\ allocated' >= HighWatermark))

\* Mutant of ReleaseTokens: the account may go below zero.
ReleaseTokensUnclamped(count) ==
  /\ allocated' = allocated - Larger(0, count)
  /\ congested' = (congested /\ ~(count > 0 /\ allocated' <= LowWatermark))

ReleaseTokens(count) ==
  /\ allocated' = Larger(0, allocated - Larger(0, count))
  /\ congested' = (congested /\ ~(count > 0 /\ allocated' <= LowWatermark))

Enqueue(r, state) == queue' = Put(queue, r, state)

Waiting(phase) == {r \in DOMAIN queue : queue[r].phase = phase}

\* The prompts that may start: their first slice has room.
Admissible ==
  {r \in Waiting("prefill") :
     ~congested /\ CanAdmitPrefill(Smaller(queue[r].remaining, ChunkBudget))}

\* pop_next_batch: up to MaxBatch decodes, in the queue's order, and one prompt
\* that may start, if there is one.
PopNextBatch(decodes, candidate) ==
  /\ \E S \in kSubset(Smaller(MaxBatch, Cardinality(Waiting("decode"))), Waiting("decode")) :
       decodes \in SetToSeqs(S)
  /\ candidate \subseteq Admissible
  /\ Cardinality(candidate) = Smaller(1, Cardinality(Admissible))
  /\ queue' = Restrict(queue, DOMAIN queue \ (Range(decodes) \cup candidate))
  /\ UNCHANGED <<allocated, congested>>
=============================================================================
