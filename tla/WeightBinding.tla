---------------------------- MODULE WeightBinding ----------------------------
(***************************************************************************)
(* The weight archive that is made from a GGUF file and the constants of   *)
(* the model (build_gemma4_engine.py).                                     *)
(***************************************************************************)
EXTENDS Codecs, TensorBinding

CONSTANT ReadSize  \* bytes of a GGUF payload that are read at once (8 MiB)
ASSUME ReadAssumption == ReadSize \in Nat \ {0}

\* chunks: a payload is read in pieces, and one that the file ends within is an error.
Chunks(tensor, size) ==
  LET there == IF size >= tensor.offset + tensor.bytes THEN tensor.bytes
               ELSE IF size <= tensor.offset THEN 0 ELSE size - tensor.offset
      pieces == (there + ReadSize - 1) \div ReadSize
  IN
  IF there < tensor.bytes THEN Refused
  ELSE Accepted([i \in 1 .. pieces |->
         IF i < pieces THEN ReadSize ELSE there - (pieces - 1) * ReadSize], 1)

\* write_augmented_archive: the tensors of the GGUF file and then the constants,
\* which come in one piece.  Here names are numbers, as in Codecs.
AugmentedArchive(gguf, constants) ==
  LET chunks == [i \in DOMAIN gguf.tensors |-> Chunks(gguf.tensors[i], gguf.size)] IN
  IF \E i \in DOMAIN chunks : chunks[i].refused THEN Refused
  ELSE WriteArchive([i \in DOMAIN chunks |-> [gguf.tensors[i] EXCEPT !.chunks = chunks[i].value]]
                      \o [i \in DOMAIN constants |-> [constants[i] EXCEPT !.chunks = <<constants[i].bytes>>]])
-----------------------------------------------------------------------------
\* The archive holds every payload of a file that is whole, and no archive is left
\* behind for one that is not; the runtime takes it.
AugmentedRight(gguf, constants) ==
  LET archive == AugmentedArchive(gguf, constants)
      whole == \A t \in ToSet(gguf.tensors) : t.offset + t.bytes <= gguf.size
      all == gguf.tensors \o constants
      distinct == IsInjective([i \in DOMAIN all |-> all[i].name])
  IN
  /\ archive.refused <=> ~whole \/ ~distinct \/ all = <<>>
  /\ ~archive.refused =>
       /\ ~OpenArchive(archive.value).refused
       /\ DOMAIN ReadInventory(archive.value).value = {all[i].name : i \in DOMAIN all}
=============================================================================
