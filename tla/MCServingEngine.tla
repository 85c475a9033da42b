-------------------------- MODULE MCServingEngine --------------------------
(***************************************************************************)
(* The engine on a few tokens, slots and checkpoints.  A fourth token is   *)
(* needed: only a suffix of three tokens is prefilled as one edge, and it  *)
(* needs a cached prefix before it.                                        *)
(***************************************************************************)
EXTENDS ServingEngine

CONSTANTS a, b

MCTokens == {a, b}
MCPrompts == {<<a>>, <<a, a, b>>, <<a, a, a, a>>, <<a, a, a, b>>}
MCShortPrompts == {<<a>>, <<a, a>>, <<a, a, b>>, <<a, a, a>>}

Symmetric ==
  Permutations(Slot) \cup Permutations(Ckpt)
    \cup Permutations(LeaseId) \cup Permutations(Cursor)
=============================================================================
