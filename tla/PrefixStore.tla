---------------------------- MODULE PrefixStore ----------------------------
(***************************************************************************)
(* What a prefix cache promises those who lease from it, without a tree:   *)
(* cached positions have a location each; a location never changes while   *)
(* its position stays cached and is shared with no other; and what a       *)
(* reader was promised when it started stays cached until it has finished. *)
(* ServingCache implements this specification.                             *)
(***************************************************************************)
EXTENDS Functions

VARIABLES
  store,     \* the location of every cached position
  readers    \* the cached positions each active reader relies on

StoreInit == store = <<>> /\ readers = <<>>

Promised == UNION Range(readers)

\* g agrees with f and may have more.
Continues(f, g) == DOMAIN f \subseteq DOMAIN g /\ f = Restrict(g, DOMAIN f)

\* Positions are added at locations nobody uses; a reader may start on the result.
Learn ==
  /\ Continues(store, store')
  /\ IsInjective(store')
  /\ Continues(readers, readers')
  /\ \A r, s \in DOMAIN readers' \ DOMAIN readers :
       r = s /\ readers'[r] \subseteq DOMAIN store'

\* Positions no reader relies on are dropped.
Forget ==
  /\ Continues(store', store)
  /\ Promised \subseteq DOMAIN store'
  /\ readers' = readers

Finish ==
  /\ Continues(readers', readers)
  /\ \E r \in DOMAIN readers : DOMAIN readers' = DOMAIN readers \ {r}
  /\ store' = store

StoreNext == Learn \/ Forget \/ Finish

StoreSpec == StoreInit /\ [][StoreNext]_<<store, readers>>
=============================================================================
