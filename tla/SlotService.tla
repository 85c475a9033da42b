----------------------------- MODULE SlotService -----------------------------
(***************************************************************************)
(* What the allocator of src/lib/kv_cache.ml promises its callers, told    *)
(* with a plain set of slots in use and the answer to the last call.  Each *)
(* call has one right answer: a reservation is granted exactly if that     *)
(* many slots are free, and then with that many different free ones; a     *)
(* release is accepted exactly if it names slots in use, each of them      *)
(* once; and a call that is refused has moved nothing.  Only the choice of *)
(* the slots to grant is left open.                                        *)
(***************************************************************************)
EXTENDS SlotPool, Integers, FiniteSets, SequencesExt

VARIABLE reply

ServiceInit ==
  /\ PoolInit
  /\ reply = [op |-> "release", ok |-> TRUE, slots |-> <<>>, count |-> 0]

\* The answer to a request for reply'.count slots.
AnswerReserve ==
  /\ reply'.op = "reserve"
  /\ reply'.ok <=> reply'.count \in 0 .. Cardinality(Slot \ inUse)
  /\ \/ /\ reply'.ok
        /\ Len(reply'.slots) = reply'.count /\ IsInjective(reply'.slots)
        /\ Grant(Range(reply'.slots))
     \/ ~reply'.ok /\ reply'.slots = <<>> /\ UNCHANGED inUse

\* The answer to a caller who hands back the slots reply'.slots.
AnswerRelease ==
  /\ reply'.op = "release"
  /\ reply'.count = Len(reply'.slots)
  /\ reply'.ok <=> IsInjective(reply'.slots) /\ Range(reply'.slots) \subseteq inUse
  /\ \/ reply'.ok /\ TakeBack(Range(reply'.slots))
     \/ ~reply'.ok /\ UNCHANGED inUse

ServiceNext == AnswerReserve \/ AnswerRelease

ServiceSpec == ServiceInit /\ [][ServiceNext]_<<inUse, reply>>
=============================================================================
