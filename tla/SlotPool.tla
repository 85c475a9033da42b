------------------------------ MODULE SlotPool ------------------------------
(***************************************************************************)
(* An allocator of physical KV slots (or of recurrent checkpoints) without *)
(* its free list: the set of slots in use, what a grant adds to it and     *)
(* what a return takes from it.  SlotService adds the answers to calls;    *)
(* ServingCache and ServingEngine use this module for their two pools.     *)
(***************************************************************************)
CONSTANT Slot

VARIABLE inUse

PoolInit == inUse = {}

\* The pool hands out the slots of S.
Grant(S) == S \subseteq Slot \ inUse /\ inUse' = inUse \cup S

\* The pool takes the slots of S back.
TakeBack(S) == S \subseteq inUse /\ inUse' = inUse \ S
=============================================================================
