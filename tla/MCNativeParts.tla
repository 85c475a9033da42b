--------------------------- MODULE MCNativeParts ----------------------------
(***************************************************************************)
(* A pool of four slots; callers ask for -1 to 5 slots and hand back up to *)
(* two slot numbers from -1 to 4, so duplicated, foreign and unreserved    *)
(* slots are among them.                                                   *)
(*                                                                         *)
(* Rings of two entries and counters that wrap after four; at most two     *)
(* requests are uncollected, so no two share a name.  Depths 2 and 3 are   *)
(* the same to the worker; with depth 2 the client submits one request at  *)
(* a time, with 1 and 3 it fills the ring.                                 *)
(***************************************************************************)
EXTENDS NativeParts

MCCounts == -1 .. KvCapacity + 1
MCReleaseArgs == UNION {[1 .. n -> -1 .. KvCapacity] : n \in 0 .. 2}

MCWindow == [d \in Depths |-> IF d = 2 THEN 1 ELSE Capacity]
=============================================================================
