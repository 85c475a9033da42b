---------------------------- MODULE MCRingQueue ----------------------------
(***************************************************************************)
(* The rings alone, of two entries and with counters that wrap after       *)
(* eight, at depth 2 with a client that fills the ring: the commands       *)
(* overlap on the device.                                                  *)
(***************************************************************************)
EXTENDS RingQueue

MCPipelined == [d \in Depths |-> Capacity]
=============================================================================
