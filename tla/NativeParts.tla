---------------------------- MODULE NativeParts -----------------------------
(***************************************************************************)
(* The two parts of the native runtime under the engine that only the      *)
(* engine brings together: the slot pools of its cache and the queue of    *)
(* commands to the device.  They share no state, so a behaviour is of one  *)
(* of them: part says whose, and the other stays at one initial state.     *)
(***************************************************************************)
EXTENDS KvPool, RingQueue

VARIABLE part  \* "pool" or "ring"

partsVars == <<part, kvVars, vars>>

PartsInit ==
  /\ part \in {"pool", "ring"}
  /\ KvInit /\ Init
  /\ part # "ring" => depth = CHOOSE d \in Depths : TRUE

PoolStep(A) == part = "pool" /\ A /\ UNCHANGED <<part, vars>>
RingStep(A) == part = "ring" /\ A /\ UNCHANGED <<part, kvVars>>

PartsNext == PoolStep(KvNext) \/ RingStep(Next)

\* The threads and the device of the queue keep running, as in RingQueue!FairSpec.
FairPartsSpec ==
  /\ PartsInit /\ [][PartsNext]_partsVars
  /\ WF_partsVars(RingStep(Work)) /\ WF_partsVars(RingStep(Execute))
  /\ WF_partsVars(RingStep(Proceed))
=============================================================================
