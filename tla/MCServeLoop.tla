---------------------------- MODULE MCServeLoop ----------------------------
(***************************************************************************)
(* The server alone, with two requests that fit its capacity together: one *)
(* may be prefilled while the other decodes.                               *)
(***************************************************************************)
EXTENDS ServeLoop

CONSTANTS r1, r2

MCRequest == {r1, r2}
MCLengths == [r \in MCRequest |-> 2]
=============================================================================
