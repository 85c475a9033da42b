---------------------------- MODULE EngineGraph ----------------------------
(***************************************************************************)
(* How a captured graph becomes an entry of an engine (build_gemma4_       *)
(* engine.py, build_mellum21_engine.py, gemma4_mtp_capture.py): the model  *)
(* is traced through a functional cache, and the names the tracer gave are *)
(* replaced by the ones the compiler wires cache states by.                *)
(*                                                                         *)
(* An entry e is [family, entry, layers, period, hidden]: every period-th  *)
(* layer attends fully, the others in a sliding window; hidden asks for    *)
(* the final hidden state as a diagnostic output.  The attention of a      *)
(* layer, the embedding and the head are external (transformers), one node *)
(* each.  lib/fx_plan.ml takes the nodes in order, and a name means the    *)
(* last node before that has it.                                           *)
(***************************************************************************)
EXTENDS FxCapture, TLC

Unbuilt == [built |-> FALSE]
Items == <<"key", "value">>

Inputs == << <<"input_ids">>, <<"position_ids">>, <<"full_attention_mask">>,
             <<"sliding_attention_mask">> >>
CacheInput(i) == <<"l_cache_states_", i>>
CacheName(layer, item) == <<"cache.layer", layer, item>>
NewState(layer, item) == <<"new", layer, item>>
Joined(layer, item) == <<"cat", layer, item>>
Hidden(layer) == <<"hidden", layer>>

Node(name, inputs) == [name |-> name, inputs |-> inputs, runtime |-> FALSE]
Placeholder(name) == [name |-> name, inputs |-> <<>>, runtime |-> TRUE]

Full(e, layer) == (layer + 1) % e.period = 0

\* The caches: prefill keeps the states of a layer as they come, decode appends
\* them to what it was given at places 2 * layer and 2 * layer + 1.
Update(e, layer, item) ==
  LET at == 2 * layer + (IF item = "key" THEN 0 ELSE 1) IN
  <<Node(NewState(layer, item), <<Hidden(layer)>>)>>
    \o IF e.entry = "prefill" THEN <<>>
       ELSE <<Node(Joined(layer, item), <<CacheInput(at), NewState(layer, item)>>)>>

State(e, layer, item) ==
  IF e.entry = "prefill" THEN NewState(layer, item) ELSE Joined(layer, item)

Layer(e, layer) ==
  Update(e, layer, "key") \o Update(e, layer, "value")
    \o <<Node(Hidden(layer + 1), <<Hidden(layer), State(e, layer, "key"),
                                   State(e, layer, "value"), Inputs[IF Full(e, layer) THEN 3 ELSE 4]>>)>>

\* The keys and values that layers of a kind share: those of the last of them.
Shared(e, full) ==
  LET last == CHOOSE layer \in 0 .. e.layers - 1 :
        /\ Full(e, layer) = full
        /\ \A later \in layer + 1 .. e.layers - 1 : Full(e, later) # full
  IN  [i \in 1 .. 2 |-> State(e, last, Items[i])]

CacheStates(e, Of(_, _)) ==
  [i \in 1 .. 2 * e.layers |-> Of((i - 1) \div 2, Items[((i - 1) % 2) + 1])]

\* What the tracer captures of the wrapper: an output that is returned twice is in
\* the list of outputs once.
Captured(e) ==
  [nodes |->
     [i \in DOMAIN Inputs |-> Placeholder(Inputs[i])]
       \o (IF e.entry = "prefill" THEN <<>>
           ELSE [i \in 1 .. 2 * e.layers |-> Placeholder(CacheInput(i - 1))])
       \o <<Node(Hidden(0), <<Inputs[1]>>)>>
       \o FlattenSeq([i \in 1 .. e.layers |-> Layer(e, i - 1)])
       \o <<Node(<<"linear">>, <<Hidden(e.layers)>>)>>,
   outputs |->
     LET states == CacheStates(e, LAMBDA layer, item : State(e, layer, item)) IN
     Unique(<< <<"linear">> >>
       \o (IF e.family = "mellum" THEN states
           ELSE <<Hidden(e.layers)>> \o Shared(e, TRUE) \o Shared(e, FALSE) \o states))]

\* A cache input by its place.
SemanticRuntimeName(name) ==
  IF name[1] = "l_cache_states_"
  THEN CacheName(name[2] \div 2, Items[(name[2] % 2) + 1]) ELSE name

ReplaceNames(graph, names) ==
  LET New(name) == IF name \in DOMAIN names THEN names[name] ELSE name IN
  [nodes |-> [i \in DOMAIN graph.nodes |->
     [graph.nodes[i] EXCEPT !.name = New(@), !.inputs = [k \in DOMAIN @ |-> New(@[k])]]],
   outputs |-> [i \in DOMAIN graph.outputs |-> New(graph.outputs[i])]]

\* Mutant of OrderedCacheOutputs: the outputs of a Gemma are in layer order.
OrderedCacheOutputsPlain(e) == CacheStates(e, CacheName)

\* The last layer attends fully and the one before it does not, so what they share
\* comes first and not again.
OrderedCacheOutputs(e) ==
  LET all == CacheStates(e, CacheName) IN
  IF e.family = "mellum" THEN all
  ELSE <<CacheName(e.layers - 1, "key"), CacheName(e.layers - 1, "value"),
         CacheName(e.layers - 2, "key"), CacheName(e.layers - 2, "value")>>
         \o SubSeq(all, 1, 2 * (e.layers - 2))

Diagnose(e, graph, hidden) ==
  IF ~e.hidden THEN graph
  ELSE LET renamed == ReplaceNames(graph, hidden :> <<"diagnostic.hidden">>)
       IN  [renamed EXCEPT !.outputs = Append(@, <<"diagnostic.hidden">>)]

\* The Gemma builder refuses a geometry other than the one it was written for.
ExpectedGeometry(e) == e.family = "mellum" \/ (e.period >= 2 /\ e.layers % e.period = 0)

RenamedGraph(e, captured) ==
  LET raw == captured.outputs
      before == IF e.family = "mellum" THEN 1 ELSE 2
      caches == OrderedCacheOutputs(e)
      outputs == << <<"logits">> >> \o CacheStates(e, CacheName)
      runtime == [name \in {n.name : n \in {m \in ToSet(captured.nodes) : m.runtime}} |->
                   SemanticRuntimeName(name)]
      renamed == [name \in {raw[1]} \cup {raw[i] : i \in before + 1 .. Len(raw)} |->
                   IF name = raw[1] THEN <<"logits">>
                   ELSE caches[(CHOOSE i \in DOMAIN raw : raw[i] = name) - before]]
  IN
  IF \/ ~ExpectedGeometry(e)
     \/ Len(raw) # before + 2 * e.layers
     \/ ToSet(caches) # ToSet(Tail(outputs))
  THEN Unbuilt
  ELSE [built |-> TRUE,
        graph |-> Diagnose(e, [ReplaceNames(captured, renamed @@ runtime) EXCEPT !.outputs = outputs],
                           Hidden(e.layers))]

TargetGraph(e) == RenamedGraph(e, Captured(e))
-----------------------------------------------------------------------------
\* What the compiler takes a name for: the last node before place i that has it.
Producer(nodes, i, name) ==
  CHOOSE j \in 1 .. i - 1 :
    /\ nodes[j].name = name
    /\ \A k \in j + 1 .. i - 1 : nodes[k].name # name

Producers(nodes) ==
  [i \in DOMAIN nodes |-> [k \in DOMAIN nodes[i].inputs |->
    Producer(nodes, i, nodes[i].inputs[k])]]

\* The cache states of a layer go in and come out under that layer's name.
StateKept(e, captured, graph, layer, item) ==
  LET nodes == graph.nodes
      name == CacheName(layer, item)
      out == Producer(nodes, Len(nodes) + 1, name)
      in == {i \in DOMAIN nodes : nodes[i].runtime /\ nodes[i].name = name}
  IN
  /\ captured.nodes[out].name = State(e, layer, item)
  /\ name \in ToSet(graph.outputs)
  /\ e.entry = "decode" => \E i \in in : in = {i} /\ Producers(nodes)[out][1] = i

Kept(e, captured, graph) ==
  LET Named(name) == captured.nodes[Producer(graph.nodes, Len(graph.nodes) + 1, name)].name IN
  /\ Producers(graph.nodes) = Producers(captured.nodes)
  /\ \A layer \in 0 .. e.layers - 1, item \in ToSet(Items) :
       StateKept(e, captured, graph, layer, item)
  /\ Named(<<"logits">>) = <<"linear">>
  /\ e.hidden => Named(<<"diagnostic.hidden">>) = Hidden(e.layers)
  /\ IsInjective(graph.outputs)

\* An entry that was built computes what the captured graph did, though an input and
\* an output of its cache have the same name.
EntryRight(e) ==
  LET built == TargetGraph(e) IN built.built => Kept(e, Captured(e), built.graph)
=============================================================================
