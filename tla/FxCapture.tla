------------------------------ MODULE FxCapture ------------------------------
(***************************************************************************)
(* How a node of an FX graph is captured (python/llmopt_backend/           *)
(* __init__.py) and what the compiler asks of it (lib/fx.ml).  A Python    *)
(* value has a type, and items when it contains others; the keys of a      *)
(* dict are numbers, 0 standing for one that is no string.  Strings,       *)
(* floats and ellipses are constants like an int and are left out.         *)
(***************************************************************************)
EXTENDS Codecs

\* _argument: the tagged form of a value.  A value of a type of torch that is none
\* of the others, a dtype, a device or a tensor, is a symbol, as a member of an enum
\* is; what is not listed is a TypeError, and so is a key that is no string.
RECURSIVE Argument(_)
Argument(v) ==
  LET inner == [i \in DOMAIN ItemsOf(v) |-> Argument(v.items[i])]
      items == [i \in DOMAIN inner |-> inner[i].value]
  IN
  IF \/ v.type \notin {"Node", "NoneType", "bool", "int", "tuple", "list", "slice", "dict", "torch"}
     \/ v.type = "dict" /\ 0 \in ToSet(v.names)
     \/ \E i \in DOMAIN inner : inner[i].refused
  THEN Refused
  ELSE Accepted(
    CASE v.type = "Node" -> [kind |-> "node", value |-> v.value]
      [] v.type = "NoneType" -> [kind |-> "null"]
      [] v.type \in {"bool", "int"} -> [kind |-> v.type, value |-> v.value]
      [] v.type = "torch" -> [kind |-> "symbol", value |-> v.value]
      [] v.type = "dict" -> [kind |-> "mapping", names |-> v.names, items |-> items]
      [] OTHER -> [kind |-> v.type, items |-> items], 1)

\* _node_refs: slices are not entered.
RECURSIVE NodeRefs(_)
NodeRefs(v) ==
  CASE v.type = "Node" -> <<v.value>>
    [] v.type \in {"tuple", "list", "dict"} ->
         FlattenSeq([i \in DOMAIN v.items |-> NodeRefs(v.items[i])])
    [] OTHER -> <<>>

Unique(names) ==
  FoldLeft(LAMBDA kept, n : IF n \in ToSet(kept) THEN kept ELSE Append(kept, n), <<>>, names)

\* capture_from_fx: what is kept of a node with these arguments.
CaptureNode(values) ==
  LET args == [i \in DOMAIN values |-> Argument(values[i])] IN
  IF \E i \in DOMAIN args : args[i].refused THEN Refused
  ELSE Accepted([args |-> [i \in DOMAIN args |-> args[i].value],
                 inputs |-> Unique(FlattenSeq([i \in DOMAIN values |-> NodeRefs(values[i])]))], 1)

\* node_references of the compiler, as a set: slices are entered.
RECURSIVE NodeReferences(_)
NodeReferences(a) ==
  IF a.kind = "node" THEN {a.value} ELSE UNION {NodeReferences(item) : item \in ToSet(ItemsOf(a))}

\* make_node: the nodes that the arguments name are the inputs, when there are any.
MakeNode(n) ==
  LET named == UNION {NodeReferences(a) : a \in ToSet(n.args)} IN
  IF named # {} /\ named # ToSet(n.inputs) THEN Refused ELSE Accepted(n, 1)
-----------------------------------------------------------------------------
\* of_binary: a graph file as decode_manifest reads it, in integers of one bit less;
\* the key of a binding may not be blank, as that of a buffer named by spaces is: 0.
Blank == 0
Host == Signed(WordBits - 1)
OfBinary(words) ==
  Then(DecodeManifest(words), LAMBDA graph, at :
    IF \E n \in ToSet(graph.nodes) :
         \/ n.binding = <<2, Blank>>
         \/ n.shape # <<>> /\ ~(ToSet(n.shape[1]) \subseteq Host)
         \/ \E a \in ToSet(n.args) : ~(Ints(a) \subseteq Host)
         \/ MakeNode(n).refused
    THEN Refused ELSE Accepted(graph, at))
-----------------------------------------------------------------------------
RECURSIVE SliceNodes(_)
SliceNodes(a) ==
  IF a.kind = "slice" THEN NodeReferences(a)
  ELSE UNION {SliceNodes(item) : item \in ToSet(ItemsOf(a))}

\* The compiler takes every node that was captured and written as it was, but for
\* one with a bound of a slice that the arguments name nowhere else, which the capture
\* forgets among the inputs, one with an integer that fits in a word and not in the
\* compiler's integers, and one with a blank key.
CaptureTaken(values, binding, shape) ==
  LET captured == CaptureNode(values)
      node == [name |-> 9, binding |-> binding, shape |-> shape] @@ captured.value
      graph == [nodes |-> <<node>>, outputs |-> <<9>>]
      words == EncodeManifest(graph)
      bounds == UNION {SliceNodes(a) : a \in ToSet(node.args)}
      integers == UNION {Ints(a) : a \in ToSet(node.args)} \cup (IF shape = <<>> THEN {} ELSE ToSet(shape[1]))
  IN
  ~captured.refused /\ words # <<>> =>
    /\ IsInjective(node.inputs)
    /\ IF bounds \subseteq ToSet(node.inputs) /\ integers \subseteq Host /\ binding # <<2, Blank>>
       THEN OfBinary(words) = Accepted(graph, Len(words) + 1)
       ELSE OfBinary(words).refused
=============================================================================
