---------------------------- MODULE MCToolchain ----------------------------
(***************************************************************************)
(* The server with two requests against a token capacity of eight (its     *)
(* watermarks are seven and six): a short one, and one that closes         *)
(* admission when it is prefilled and is then charged with more than the   *)
(* capacity.  A stream holds two chunks, so a slow client's fills up.      *)
(*                                                                         *)
(* Five calls of compile_fx in two processes, with tensors that are shared *)
(* and keys that are not; two conversations of two turns on one thread or  *)
(* as coroutines; three benchmarks of llama-cli, one without handlers; two *)
(* server benches; two runs of the benchmark suite; two jobs; and the      *)
(* cases.  The calls of CaptureSession are c1, c2, c5 of process p1 and    *)
(* c3, c4 of p2.                                                           *)
(***************************************************************************)
EXTENDS Toolchain

CONSTANTS c1, c2, c3, c4, c5, p1, p2, t1, t2, t3, k1, k2, k3, b1, b2, b3, r1, r2

MCRequest == {r1, r2}
MCPromptLength == (r1 :> 1) @@ (r2 :> 7)
MCMaxNewTokens == (r1 :> 2) @@ (r2 :> 2)

Static(key, tensor) == [key |-> key, tensor |-> tensor]

MCCall == {c1, c2, c3, c4, c5}
MCProcessOf == [c \in MCCall |-> IF c \in {c3, c4} THEN p2 ELSE p1]
MCStatics ==
  (c1 :> <<Static(k1, t1), Static(k2, t2), Static(k3, t1)>>) @@ (c2 :> <<Static(k3, t1)>>)
    @@ (c3 :> <<Static(k1, t3)>>) @@ (c4 :> <<>>) @@ (c5 :> <<Static(k1, t1), Static(k1, t2)>>)
MCTogether == {{c1, c2, c3}, {c2, c4, c5}}

MCModes ==
  {[client |-> "http", reuse |-> TRUE, chunked |-> TRUE],
   [client |-> "http", reuse |-> FALSE, chunked |-> TRUE],
   [client |-> "http", reuse |-> TRUE, chunked |-> FALSE],
   [client |-> "poisson", reuse |-> FALSE, chunked |-> TRUE],
   [client |-> "local", reuse |-> FALSE, chunked |-> FALSE]}

MCBenchmark == {b1, b2, b3}
MCHandling == {b1, b2}
MCBench == {"b1", "b2"}
MCJob == {"j1", "j2"}

\* Arguments nested three deep, one deeper than Deepest; integers of words of four
\* bits, and one that is none.
Null == [kind |-> "null"]
Leaves == {[kind |-> "int", value |-> -8], [kind |-> "node", value |-> 2],
           [kind |-> "symbol", value |-> 2], [kind |-> "bool", value |-> 1], Null}
Around(args) ==
  {[kind |-> kind, items |-> <<arg>>] : kind \in {"list", "tuple"}, arg \in args}
    \cup {[kind |-> "mapping", names |-> <<7>>, items |-> <<arg>>] : arg \in args}
    \cup {[kind |-> "slice", items |-> <<arg, Null, arg>>] : arg \in args}
    \cup {[kind |-> "list", items |-> <<>>]}
Once == Leaves \cup Around(Leaves)
Arguments ==
  Once \cup Around(Once) \cup {[kind |-> "list", items |-> <<arg>>] : arg \in Around(Once)}
    \cup Around({[kind |-> "int", value |-> 8]})

GraphNode(binding, shape, args) ==
  [name |-> 1, binding |-> binding, shape |-> shape, inputs |-> <<1, 2>>, args |-> args]
MCGraphFiles ==
  {[nodes |-> <<GraphNode(binding, <<<<2, 3>>>>, <<arg>>), GraphNode(<<0>>, shape, <<Null, arg>>)>>,
    outputs |-> <<1>>] :
      binding \in {<<1>>, <<2, 5>>}, shape \in {<<>>, <<<<>>>>}, arg \in Arguments}

\* One to three tensors in any order, empty ones and short payloads among them.
TensorOf(name, dims, chunks) ==
  [name |-> name, chars |-> 3, dims |-> dims, width |-> 2, bytes |-> 2 * Product(dims),
   chunks |-> chunks]
OneTensor ==
  {TensorOf(name, dims, chunks) : name \in 1 .. 3, dims \in {<<>>, <<3>>, <<2, 5>>},
     chunks \in {<<2>>, <<4, 2>>, <<20>>}}
    \cup {TensorOf(name, <<0>>, <<>>) : name \in 1 .. 2}
Whole == {t \in OneTensor : t.bytes > 0 /\ Total(t.chunks) = t.bytes}
MCWeightFiles ==
  {<<>>} \cup {<<t>> : t \in OneTensor} \cup {<<t, u>> : t \in OneTensor, u \in Whole}
    \cup {<<t, u, v>> : t \in Whole, u \in Whole, v \in Whole}

\* Rows of up to two groups; four of their units are the least FP16 number, and scales
\* of more than 28 of those are infinite.
MCWeightRows ==
  {<<>>, <<3>>, <<3, 14, 15>>}
    \cup [1 .. 2 -> {-850, -300, -15, -14, -3, 0, 3, 60, 220, 300, 790}]
    \cup [1 .. 4 -> {-15, 3, 300}]

\* Spellings A, B and AB.
A == <<1>>
B == <<2>>
AB == <<1, 2>>
Adds(text, id, special) == [text |-> text, id |-> id, special |-> special]
MCTokenizers ==
  [vocab : UNION {[S -> 0 .. 2] : S \in SUBSET {A, B, AB}},
   added : {<<>>} \cup {<<Adds(text, id, TRUE)>> : text \in {A, AB}, id \in {0, 3}}
             \cup {<<Adds(A, 0, FALSE), Adds(text, id, TRUE)>> : text \in {A, B}, id \in {0, 3}},
   merges : {<<>>, <<<<A, B>>>>, <<<<A, B>>, <<B, A>>>>, <<<<A, B>>, <<A, B>>>>}]

MCRawTraces ==
  [turns : {<<>>, <<0>>, <<1>>, <<2>>, <<1, 2>>, <<2, 2>>},
   prefixes : 1 .. 2, offsets : 0 .. 2,
   declaredConversations : {<<>>, <<1>>, <<2>>}, declaredTurns : {<<>>, <<1>>},
   declaredTotal : {<<>>, <<4>>},
   tokens : [form : {"one"}, count : 0 .. 1]
              \cup [form : {"row"}, counts : {<<>>, <<1>>, <<1, 2>>}]
              \cup [form : {"rows"}, rows : {<<<<1>>>>, <<<<1>>, <<2>>>>, <<<<1, 1>>, <<2, 0>>>>}]]

MCEntries ==
  [family : {"gemma4", "mellum"}, entry : {"prefill", "decode"}, layers : 1 .. 6,
   period : 1 .. 3, hidden : BOOLEAN]

\* Values nested two deep, nodes in slices and dicts with a key that is no string.
Value(type, v) == [type |-> type, value |-> v]
Plain == {Value("Node", 1), Value("Node", 2), Value("int", 5), Value("int", 9), Value("torch", 1),
          [type |-> "NoneType"], [type |-> "object"]}
Few == {Value("Node", 2), Value("int", 1)}
Inside(values) ==
  {[type |-> type, items |-> <<v, w>>] : type \in {"tuple", "list"}, v \in values, w \in Few}
    \cup {[type |-> "slice", items |-> <<v, w, [type |-> "NoneType"]>>] : v \in values, w \in Few}
    \cup {[type |-> "dict", names |-> <<name>>, items |-> <<v>>] : name \in 0 .. 1, v \in values}
MCNodes ==
  [values : {<<v, w>> : v \in Few, w \in Inside(Inside(Plain))}, binding : {<<0>>}, shape : {<<>>}]
    \cup [values : {<<v, w>> : v \in Plain, w \in Plain} \cup {<<>>},
          binding : {<<1>>, <<2, 0>>, <<2, 5>>}, shape : {<<>>, <<<<2, 3>>>>, <<<<5>>>>}]

\* Two static nodes of a graph, and files that lack what they need or have it.
Key(models, layer, part) == [models |-> models, layer |-> layer, part |-> part]
Bound2(keys, family, inventories) ==
  {[family |-> family, nodes |-> <<[key |-> k, shape |-> <<2>>], [key |-> l, shape |-> s]>>, inventory |-> i] :
     k \in keys, l \in keys, s \in {<<2>>, <<>>}, i \in inventories}
Inventories(names) == UNION {[S -> {<<2>>, <<3>>}] : S \in SUBSET names}
MCBindings ==
  Bound2({Key(n, 0, "q_proj") : n \in 0 .. 3} \cup {Key(1, 1, "q_proj")}
           \cup {Key(n, Root, "embed_scale") : n \in 1 .. 2}
           \cup {Key(1, Root, part) : part \in {"full_inv_freq", "norm", "lm_head"}},
         "gemma4", Inventories({Name(0, "attn_q"), Name(1, "attn_q"), Name(Root, "output_norm")}))
  \cup
  Bound2({Key(n, 0, "gate_inp") : n \in 1 .. 2} \cup {Key(1, 0, "gate_inp.weight"), Key(1, 1, "gate_inp")}
           \cup {Key(1, Root, part) : part \in {"full_inv_freq", "lm_head", "output"}},
         "mellum", Inventories({Name(0, "ffn_gate_inp"), Name(Root, "output"), Name(Root, "full_inv_freq")}))

MCModels ==
  [parameters : SUBSET {[key |-> Key(1, layer, part), shape |-> <<2>>] :
                  layer \in 0 .. 1, part \in {"input_layernorm", "pre_feedforward_layernorm"}},
   inventory : {[name \in {Name(layer, part) : layer \in layers, part \in parts} \cup others |-> <<2>>] :
                  layers \in SUBSET {0, 1}, parts \in SUBSET {"attn_norm", "ffn_norm"},
                  others \in {{}, {Name(Root, "rope_freqs")}, {Name(Root, "output_norm")}}}]

\* Files of two payloads in pieces of three bytes, whole or cut short.
Payload(name, dims, offset) ==
  [name |-> name, chars |-> 3, dims |-> dims, width |-> 2, bytes |-> 2 * Product(dims), chunks |-> <<>>,
   offset |-> offset]
MCAugmented ==
  [gguf : [tensors : {<<>>} \cup {<<Payload(name, dims, 40)>> : name \in 1 .. 2, dims \in {<<2>>, <<3>>}}
                       \cup {<<Payload(2, dims, 40), Payload(name, <<2>>, 60)>> :
                               name \in 1 .. 3, dims \in {<<2>>, <<5>>}},
           size : 39 .. 66],
   constants : {<<>>, <<Payload(2, <<>>, 0)>>, <<Payload(7, <<>>, 0), Payload(8, <<3>>, 0)>>}]

MCNeedles ==
  [target : {8, 12, 30}, percent : {10, 50, 90}, fixed : {5, 10}, every : 1 .. 3, at : 0 .. 1, extra : -4 .. 4]

Result(turn, ttft, tpot, tokens, succeeded) ==
  [turn |-> turn, ttft |-> ttft, tpot |-> tpot, tokens |-> tokens, expected |-> 3, succeeded |-> succeeded]
SomeResults ==
  {Result(turn, ttft, tpot, 3, TRUE) : turn \in 1 .. 2, ttft \in {5, 205, 900}, tpot \in {1, 4, NoLatency}}
    \cup {Result(turn, 205, 4, tokens, FALSE) : turn \in 1 .. 2, tokens \in {0, 2}}
MCResults ==
  {<<r>> : r \in SomeResults} \cup {<<r, s>> : r \in SomeResults, s \in SomeResults}
    \cup {<<r, s, r, Result(1, 12, 2, 2, TRUE)>> : r \in SomeResults, s \in SomeResults}

\* Answers of up to four pieces.
MCAnswers == UNION {[1 .. n -> {"code", "letter", "digit", "tick", "space", "other"}] : n \in 0 .. 4}

\* Needles of two lengths at two positions.
Row(succeeded, text, ids) == [succeeded |-> succeeded, text |-> text, ids |-> ids]
Rows == {Row(TRUE, <<"code">>, <<1, 2>>), Row(TRUE, <<"other">>, <<>>), Row(FALSE, <<"code">>, <<1>>)}
Asked == {<<l, p>> : l \in 1 .. 2, p \in {10, 90}}
MCNeedleRuns ==
  [args : [lengths : {<<1, 2>>, <<2>>}, positions : {<<10, 90>>, <<10>>}, tokens : {3},
           expected : {<<>>, <<<<1, 2>>>>}],
   prompts : [1 .. 2 -> BOOLEAN], answers : [Asked -> Rows]]
  \cup
  [args : [lengths : {<<>>, <<0>>, <<1>>}, positions : {<<>>, <<100>>, <<10>>}, tokens : 0 .. 1,
           expected : {<<>>, <<<<>>>>, <<<<-1>>>>, <<<<1, 2>>>>}],
   prompts : {<<TRUE, TRUE>>}, answers : {[asked \in Asked |-> Row(TRUE, <<"code">>, <<1, 2>>)]}]

\* Two candidates, of one request with needles or of two without.
Answers(n, outputs) ==
  {[i \in 1 .. n |-> [id |-> i, turn |-> 1, ttft |-> 5, tpot |-> 1, ids |-> ids[i], tokens |-> Len(ids[i]),
                      expected |-> 1, succeeded |-> ids[i] # <<>>]] :
     ids \in [1 .. n -> outputs]}
Outputs == {<<1>>, <<2>>, <<1, 2>>, <<>>}
One == Answers(1, Outputs)
Right == Answers(1, {<<1>>})
Two == Answers(2, Outputs \ {<<1, 2>>})
WarmOne == Answers(1, {<<1>>, <<1, 2>>})
WarmTwo == Answers(2, {<<1>>, <<>>})
Measured(warmup, scored, needles, logits) ==
  [warmup : warmup, scored : scored, needles : needles, logits : logits]
Found == {<<<<"code">>, <<"other", "code">>>>}
Missed == {<<<<"code">>, <<"code", "digit">>>>}
Options == [skip : BOOLEAN, require : BOOLEAN]
MCVerdicts ==
  [eager : Measured(WarmOne, One, {<<f>> : f \in Found}, {"x"}),
   llmopt : Measured(WarmOne, One, {<<f>> : f \in Found \cup Missed}, {"x", "y"}),
   requests : 1 .. 2, options : Options]
  \cup
  [eager : Measured(WarmTwo, Two, {<<>>}, {"x"}),
   llmopt : Measured(WarmTwo, Two, {<<>>}, {"x"}), requests : {2},
   options : {[skip |-> TRUE, require |-> FALSE]}]
  \cup
  [eager : Measured(Right, Right, {<<>>} \cup {<<f>> : f \in Found}, {"x"}),
   llmopt : Measured(Right, One, {<<>>} \cup {<<f>> : f \in Found \cup Missed}, {"x"}),
   requests : {1}, options : Options]

MCRankings == UNION {[1 .. n -> {0, 3, 7}] : n \in 1 .. 4}

MCCases ==
  [of : {"graph"}, is : MCGraphFiles] \cup [of : {"weights"}, is : MCWeightFiles]
    \cup [of : {"row"}, is : MCWeightRows] \cup [of : {"tokenizer"}, is : MCTokenizers]
    \cup [of : {"trace"}, is : MCRawTraces] \cup [of : {"node"}, is : MCNodes]
    \cup [of : {"entry"}, is : MCEntries] \cup [of : {"binding"}, is : MCBindings]
    \cup [of : {"model"}, is : MCModels] \cup [of : {"augmented"}, is : MCAugmented]
    \cup [of : {"profile"}, is : {"semantic-5x3", "official-shape-70x6"}]
    \cup [of : {"needle"}, is : MCNeedles] \cup [of : {"results"}, is : MCResults]
    \cup [of : {"answer"}, is : MCAnswers] \cup [of : {"needles"}, is : MCNeedleRuns]
    \cup [of : {"verdict"}, is : MCVerdicts] \cup [of : {"ranking"}, is : MCRankings]
=============================================================================
