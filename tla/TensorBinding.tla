---------------------------- MODULE TensorBinding ----------------------------
(***************************************************************************)
(* How the static tensors of a captured graph become tensors of a GGUF     *)
(* file (build_gemma4_engine.py, build_mellum21_engine.py, gemma4_mtp_     *)
(* capture.py, bind_external_tensors of python/llmopt_backend/__init__.py) *)
(*                                                                         *)
(* A captured key is [models, layer, part]: "model." models times, then a  *)
(* layer (Root: none) and a part; a GGUF name is [layer, part].  The       *)
(* suffix .weight, and self_attn. and mlp. before a part, are left out     *)
(* where nothing depends on them, and so are dtypes.                       *)
(***************************************************************************)
EXTENDS InputFiles, Tables

Root == -1
Name(layer, part) == [layer |-> layer, part |-> part]

\* The GGUF part of a captured part.
GemmaSuffixes ==
  {<<"layer_scalar", "layer_output_scale">>, <<"q_proj", "attn_q">>, <<"q_norm", "attn_q_norm">>,
   <<"k_proj", "attn_k">>, <<"k_norm", "attn_k_norm">>, <<"v_proj", "attn_v">>,
   <<"o_proj", "attn_output">>, <<"gate_proj", "ffn_gate">>, <<"up_proj", "ffn_up">>,
   <<"down_proj", "ffn_down">>, <<"input_layernorm", "attn_norm">>,
   <<"post_attention_layernorm", "post_attention_norm">>,
   <<"pre_feedforward_layernorm", "ffn_norm">>, <<"post_feedforward_layernorm", "post_ffw_norm">>}
MellumSuffixes ==
  {<<"input_layernorm", "attn_norm">>, <<"q_proj", "attn_q">>, <<"k_proj", "attn_k">>,
   <<"v_proj", "attn_v">>, <<"q_norm", "attn_q_norm">>, <<"k_norm", "attn_k_norm">>,
   <<"o_proj", "attn_output">>, <<"post_attention_layernorm", "ffn_norm">>,
   <<"gate_inp", "ffn_gate_inp">>, <<"gate_inp.weight", "ffn_gate_inp">>,
   <<"gate_exps", "ffn_gate_exps">>, <<"gate_exps.weight", "ffn_gate_exps">>,
   <<"up_exps", "ffn_up_exps">>, <<"up_exps.weight", "ffn_up_exps">>,
   <<"down_exps", "ffn_down_exps">>, <<"down_exps.weight", "ffn_down_exps">>}
RootNames == {<<"embed_tokens", "token_embd">>, <<"norm", "output_norm">>}
AssistantNames ==
  {<<"pre_projection", "nextn.pre_projection">>, <<"post_projection", "nextn.post_projection">>}
HeadNames == {<<"lm_head", "output">>, <<"output", "output">>}

In(layer, part, pairs) == {Name(layer, pair[2]) : pair \in {q \in pairs : q[1] = part}}

\* captured_to_gguf, as the set of the one name, or the empty set for a KeyError.
\* A Gemma's names are spelled as they are; of a Mellum's every "model." is dropped.
GemmaToGguf(key, assistant) ==
  CASE key.layer # Root /\ key.models = 1 -> In(key.layer, key.part, GemmaSuffixes)
    [] key.layer = Root /\ key.models = 1 -> In(Root, key.part, RootNames)
    [] key.layer = Root /\ key.models = 0 /\ assistant -> In(Root, key.part, AssistantNames)
    [] OTHER -> {}
MellumToGguf(key) ==
  IF key.layer # Root THEN In(key.layer, key.part, MellumSuffixes)
  ELSE In(Root, key.part, RootNames \cup HeadNames)

\* The constants that are no tensors of the GGUF file; a dimension is as many values
\* as the model has.
Constants(family) ==
  [part \in {"full_inv_freq", "sliding_inv_freq"} \cup (IF family = "gemma4" THEN {"embed_scale"} ELSE {}) |->
     CASE part = "full_inv_freq" -> <<2>>
       [] part = "sliding_inv_freq" -> <<1>>
       [] part = "embed_scale" -> <<>>]

\* external_binding: the target and its shape.  A Gemma's constants are known, a
\* Mellum's are looked up like every tensor, whatever stands before their name.
GemmaBinding(key, inventory) ==
  LET normal == IF key.models >= 2 THEN [key EXCEPT !.models = @ - 1] ELSE key
      constants == Constants("gemma4")
      found == GemmaToGguf(normal, FALSE) \cap DOMAIN inventory
  IN
  IF normal.layer = Root /\ normal.models = 1 /\ normal.part \in DOMAIN constants
  THEN Taken([name |-> Name(Root, normal.part), shape |-> constants[normal.part]])
  ELSE IF found = {} THEN Rejected
       ELSE LET name == CHOOSE n \in found : TRUE
            IN  Taken([name |-> name, shape |-> inventory[name]])

MellumBinding(key, inventory) ==
  LET names == IF key.part \in DOMAIN Constants("mellum") THEN {Name(Root, key.part)} ELSE MellumToGguf(key)
      found == names \cap DOMAIN inventory
  IN  IF found = {} THEN Rejected
      ELSE LET name == CHOOSE n \in found : TRUE
           IN  Taken([name |-> name, shape |-> inventory[name]])

\* bind_external_tensors: exactly the captured tensors are bound, each to a target
\* of its own, and each of their nodes has the shape of its target.  nodes are the
\* static ones, [key, shape]; tensors is the set of captured keys.
BindExternalTensors(nodes, tensors, bindings) ==
  IF \/ tensors # DOMAIN bindings
     \/ \E k, l \in tensors : k # l /\ bindings[k].name = bindings[l].name
     \/ \E n \in ToSet(nodes) : n.key \notin tensors \/ n.shape # bindings[n.key].shape
     \/ tensors # {n.key : n \in ToSet(nodes)}
  THEN Rejected
  ELSE Taken([i \in DOMAIN nodes |-> bindings[nodes[i].key].name])

\* target_graph up to the names: every captured tensor is bound.
BindTarget(family, nodes, inventory) ==
  LET tensors == {n.key : n \in ToSet(nodes)}
      binding == [key \in tensors |->
        IF family = "gemma4" THEN GemmaBinding(key, inventory) ELSE MellumBinding(key, inventory)]
  IN
  IF \E key \in tensors : binding[key].rejected THEN Rejected
  ELSE BindExternalTensors(nodes, tensors, [key \in tensors |-> binding[key].value])

\* validate_gguf_bindings of a whole model, parameters [key, shape].
ValidateBindings(parameters, inventory, assistant) ==
  LET of(p) == GemmaToGguf(p.key, assistant) \cap DOMAIN inventory IN
  /\ \A p \in parameters : \E name \in of(p) : inventory[name] = p.shape
  /\ UNION {of(p) : p \in parameters} = DOMAIN inventory \ {Name(Root, "rope_freqs")}
-----------------------------------------------------------------------------
\* What a key stands for, whatever it is called in a family.
Meaning(family, key) ==
  IF key.layer = Root /\ key.part \in DOMAIN Constants(family) THEN {Name(Root, key.part)}
  ELSE IF family = "gemma4" THEN GemmaToGguf([key EXCEPT !.models = 1], FALSE) ELSE MellumToGguf(key)

\* A graph is bound only to tensors of its own shapes and layers, two nodes to one
\* tensor exactly if they were captured as one, and it is bound whenever its tensors
\* are in the file with their shapes, except that two spellings of one tensor are
\* refused.
BindingRight(family, nodes, inventory) ==
  LET bound == BindTarget(family, nodes, inventory)
      constants == Constants(family)
      shapes == IF family = "gemma4"
                THEN Extended([n \in {Name(Root, part) : part \in DOMAIN constants} |-> constants[n.part]],
                              inventory)
                ELSE inventory
  IN
  IF bound.rejected
  THEN \E n \in ToSet(nodes) :
         \/ ~\E name \in Meaning(family, n.key) : name \in DOMAIN shapes /\ shapes[name] = n.shape
         \/ \E o \in ToSet(nodes) : o.key # n.key /\ Meaning(family, o.key) = Meaning(family, n.key)
         \/ family = "gemma4" /\ n.key.models \notin 1 .. 2
  ELSE \A i, j \in DOMAIN nodes :
         /\ shapes[bound.value[i]] = nodes[i].shape
         /\ bound.value[i].layer = nodes[i].key.layer
         /\ bound.value[i] = bound.value[j] <=> nodes[i].key = nodes[j].key

\* A model that was checked against its file uses every tensor of it, rope_freqs
\* apart, exactly once.
CoverageRight(parameters, inventory) ==
  \A assistant \in BOOLEAN :
    ValidateBindings(parameters, inventory, assistant) =>
      \A name \in DOMAIN inventory \ {Name(Root, "rope_freqs")} :
        \E p \in parameters :
          /\ inventory[name] = p.shape
          /\ {o \in parameters : name \in GemmaToGguf(o.key, assistant)} = {p}
==============================================================================
