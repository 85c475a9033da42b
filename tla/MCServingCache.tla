--------------------------- MODULE MCServingCache ---------------------------
(***************************************************************************)
(* The cache on a few tokens and slots: once with pages of one token and   *)
(* recurrent checkpoints, once with pages of two tokens, where edges may   *)
(* only be cut between pages and a draft may end inside one.               *)
(***************************************************************************)
EXTENDS ServingCache

Symmetric ==
  Permutations(Token) \cup Permutations(Slot) \cup Permutations(Ckpt)
    \cup Permutations(LeaseId) \cup Permutations(Caller)
=============================================================================
