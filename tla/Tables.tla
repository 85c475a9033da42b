------------------------------- MODULE Tables -------------------------------
(***************************************************************************)
(* The finite tables of the programs (OCaml's Hashtbl, Python's dict) as   *)
(* functions: what is stored under each key.                               *)
(***************************************************************************)

\* Hashtbl.replace: one entry is added, or takes the place of the one there was.
Put(table, key, value) ==
  [k \in DOMAIN table \cup {key} |-> IF k = key THEN value ELSE table[k]]

\* The table, and the entries of more under the keys it does not have.
Extended(table, more) ==
  [k \in DOMAIN table \cup DOMAIN more |-> IF k \in DOMAIN table THEN table[k] ELSE more[k]]
=============================================================================
