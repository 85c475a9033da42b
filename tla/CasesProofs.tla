----------------------------- MODULE CasesProofs -----------------------------
(***************************************************************************)
(* What holds of the conversions of Toolchain for every input: how weights *)
(* are bound, which traces can be played, and how workers are judged.      *)
(***************************************************************************)
EXTENDS TensorBinding, Verdicts, SequenceTheorems, TLAPS

(* Weights. *)

\* The tables of names, as what a part is called in the GGUF file.
Functional(pairs) == \A q, r \in pairs : q[1] = r[1] => q[2] = r[2]
Injective(pairs) == \A q, r \in pairs : q[2] = r[2] => q[1] = r[1]

\* No part has two names, and in a Gemma no two parts have one.
LEMMA GemmaTable == Functional(GemmaSuffixes) /\ Injective(GemmaSuffixes)
  BY DEF Functional, Injective, GemmaSuffixes

LEMMA MellumTable == Functional(MellumSuffixes)
  BY DEF Functional, MellumSuffixes

LEMMA RootTables ==
  /\ Functional(RootNames) /\ Functional(RootNames \cup HeadNames) /\ Functional(AssistantNames)
  /\ Injective(RootNames) /\ Injective(AssistantNames)
  /\ \A q \in RootNames, r \in AssistantNames : q[2] # r[2]
  BY DEF Functional, Injective, RootNames, HeadNames, AssistantNames

LEMMA InIs ==
  ASSUME NEW layer, NEW part, NEW pairs, Functional(pairs)
  PROVE  /\ \A n \in In(layer, part, pairs) : \E q \in pairs : q[1] = part /\ n = Name(layer, q[2])
         /\ \A n, m \in In(layer, part, pairs) : n = m
  BY DEF In, Functional

\* A captured key, and a key a table can be asked for: only "model." is before a
\* constant.
Layers == Nat \cup {Root}
Keys == [models : Nat, layer : Layers, part : STRING]
WellNamed(family, key) == key.part \in DOMAIN Constants(family) => key.layer = Root

LEMMA ConstantsAre ==
  /\ DOMAIN Constants("gemma4") = {"full_inv_freq", "sliding_inv_freq", "embed_scale"}
  /\ DOMAIN Constants("mellum") = {"full_inv_freq", "sliding_inv_freq"}
  BY DEF Constants

\* A key is looked up as one name of its own layer at most, in a Mellum too.
LEMMA GemmaNames ==
  ASSUME NEW key, NEW assistant, NEW n \in GemmaToGguf(key, assistant)
  PROVE  /\ n.layer = key.layer
         /\ GemmaToGguf(key, assistant) = {n}
         /\ key.models \in 0 .. 1
         /\ key.models = 0 => assistant
<1>1. \A layer, part : \A m \in In(layer, part, GemmaSuffixes) :
         m.layer = layer /\ In(layer, part, GemmaSuffixes) = {m}
  BY InIs, GemmaTable DEF Name
<1>2. \A layer, part : \A m \in In(layer, part, RootNames) :
         m.layer = layer /\ In(layer, part, RootNames) = {m}
  BY InIs, RootTables DEF Name
<1>3. \A layer, part : \A m \in In(layer, part, AssistantNames) :
         m.layer = layer /\ In(layer, part, AssistantNames) = {m}
  BY InIs, RootTables DEF Name
<1>4. CASE key.layer # Root
  <2>1. key.models = 1 /\ n \in In(key.layer, key.part, GemmaSuffixes)
    BY <1>4 DEF GemmaToGguf
  <2> QED BY <1>1, <1>4, <2>1 DEF GemmaToGguf
<1>5. CASE key.layer = Root /\ key.models = 1
  BY <1>2, <1>5 DEF GemmaToGguf
<1>6. CASE key.layer = Root /\ key.models # 1
  <2>1. key.models = 0 /\ assistant /\ n \in In(Root, key.part, AssistantNames)
    BY <1>6 DEF GemmaToGguf
  <2> QED BY <1>3, <1>6, <2>1 DEF GemmaToGguf
<1> QED BY <1>4, <1>5, <1>6

LEMMA MellumNames ==
  ASSUME NEW key, NEW n \in MellumToGguf(key)
  PROVE  n.layer = key.layer /\ MellumToGguf(key) = {n}
<1>1. \A layer, part : \A m \in In(layer, part, MellumSuffixes) :
         m.layer = layer /\ In(layer, part, MellumSuffixes) = {m}
  BY InIs, MellumTable DEF Name
<1>2. \A layer, part : \A m \in In(layer, part, RootNames \cup HeadNames) :
         m.layer = layer /\ In(layer, part, RootNames \cup HeadNames) = {m}
  BY InIs, RootTables DEF Name
<1> QED BY <1>1, <1>2 DEF MellumToGguf

\* No tensor of the file is called as a constant of a Gemma is.
LEMMA ConstantsApart ==
  ASSUME NEW key, NEW n \in GemmaToGguf(key, FALSE), NEW part \in DOMAIN Constants("gemma4")
  PROVE  n # Name(Root, part)
<1>1. \A q \in GemmaSuffixes \cup RootNames : q[2] # part
  BY ConstantsAre DEF GemmaSuffixes, RootNames
<1>2. PICK pairs \in {GemmaSuffixes, RootNames} : \E layer, called : n \in In(layer, called, pairs)
  BY DEF GemmaToGguf
<1>3. Functional(pairs)
  BY GemmaTable, RootTables
<1>4. \E layer : \E q \in pairs : n = Name(layer, q[2])
  BY <1>2, <1>3, InIs
<1> QED BY <1>1, <1>2, <1>4 DEF Name
-----------------------------------------------------------------------------
(* Bindings. *)

\* The shapes a name can have, the constants of a Gemma among them.
ShapesOf(family, inventory) ==
  IF family = "gemma4"
  THEN Extended([n \in {Name(Root, part) : part \in DOMAIN Constants("gemma4")} |-> Constants("gemma4")[n.part]],
                inventory)
  ELSE inventory

\* What a key means is one name at most, of its layer.
LEMMA MeaningIs ==
  ASSUME NEW family \in {"gemma4", "mellum"}, NEW key \in Keys, NEW n \in Meaning(family, key)
  PROVE  Meaning(family, key) = {n} /\ n.layer = key.layer
<1>1. CASE key.layer = Root /\ key.part \in DOMAIN Constants(family)
  BY <1>1 DEF Meaning, Name
<1>2. CASE ~(key.layer = Root /\ key.part \in DOMAIN Constants(family)) /\ family = "gemma4"
  <2> DEFINE plain == [key EXCEPT !.models = 1]
  <2>1. Meaning(family, key) = GemmaToGguf(plain, FALSE)
    BY <1>2 DEF Meaning
  <2>2. plain.layer = key.layer
    BY DEF Keys
  <2> HIDE DEF plain
  <2>3. n.layer = plain.layer /\ GemmaToGguf(plain, FALSE) = {n}
    <3>1. n \in GemmaToGguf(plain, FALSE)
      BY <2>1
    <3> QED BY <3>1, GemmaNames, Zenon
  <2> QED BY <2>1, <2>2, <2>3
<1>3. CASE ~(key.layer = Root /\ key.part \in DOMAIN Constants(family)) /\ family # "gemma4"
  BY <1>3, MellumNames DEF Meaning
<1> QED BY <1>1, <1>2, <1>3

BindingOf(family, key, inventory) ==
  IF family = "gemma4" THEN GemmaBinding(key, inventory) ELSE MellumBinding(key, inventory)

\* A tensor is bound to what its key means, with the shape that has, and it is not
\* bound only if the file has no such tensor, or its key starts with three models.
LEMMA BindingIs ==
  ASSUME NEW family \in {"gemma4", "mellum"}, NEW key \in Keys, NEW inventory, WellNamed(family, key)
  PROVE  LET binding == BindingOf(family, key, inventory)
             shapes == ShapesOf(family, inventory)
         IN
         /\ binding.rejected \in BOOLEAN
         /\ ~binding.rejected =>
              /\ binding.value.name \in Meaning(family, key) \cap DOMAIN shapes
              /\ binding.value.shape = shapes[binding.value.name]
         /\ binding.rejected =>
              \/ Meaning(family, key) \cap DOMAIN shapes = {}
              \/ family = "gemma4" /\ key.models \notin 1 .. 2
<1> DEFINE binding == BindingOf(family, key, inventory)
           shapes == ShapesOf(family, inventory)
<1>1. CASE family = "mellum"
  <2> DEFINE names == IF key.part \in DOMAIN Constants("mellum") THEN {Name(Root, key.part)}
                      ELSE MellumToGguf(key)
             found == names \cap DOMAIN inventory
  <2>1. shapes = inventory
    BY <1>1 DEF ShapesOf
  <2>2. names = Meaning(family, key)
    BY <1>1 DEF Meaning, WellNamed
  <2>3. binding = IF found = {} THEN Rejected
                  ELSE Taken([name |-> CHOOSE n \in found : TRUE, shape |-> inventory[CHOOSE n \in found : TRUE]])
    BY <1>1 DEF BindingOf, MellumBinding
  <2>4. CASE found = {}
    BY <2>1, <2>2, <2>3, <2>4 DEF Rejected
  <2>5. CASE found # {}
    <3>1. (CHOOSE n \in found : TRUE) \in found
      BY <2>5
    <3> HIDE DEF found
    <3>2. /\ binding.rejected = FALSE
          /\ binding.value.name = (CHOOSE n \in found : TRUE)
          /\ binding.value.shape = inventory[CHOOSE n \in found : TRUE]
      BY <2>3, <2>5 DEF Taken
    <3>3. binding.value.name \in names \cap DOMAIN inventory
      BY <3>1, <3>2 DEF found
    <3> QED BY <2>1, <2>2, <3>2, <3>3
  <2> QED BY <2>4, <2>5
<1>2. CASE family = "gemma4"
  <2> DEFINE normal == IF key.models >= 2 THEN [key EXCEPT !.models = @ - 1] ELSE key
             constants == Constants("gemma4")
             own == {Name(Root, part) : part \in DOMAIN constants}
             found == GemmaToGguf(normal, FALSE) \cap DOMAIN inventory
             constant == normal.layer = Root /\ normal.models = 1 /\ normal.part \in DOMAIN constants
  <2>1. shapes = Extended([n \in own |-> constants[n.part]], inventory)
    BY <1>2 DEF ShapesOf
  <2>2. /\ DOMAIN shapes = own \cup DOMAIN inventory
        /\ \A n \in own : shapes[n] = constants[n.part]
        /\ \A n \in DOMAIN inventory \ own : shapes[n] = inventory[n]
    BY <2>1 DEF Extended
  <2>3. /\ normal.layer = key.layer /\ normal.part = key.part
        /\ normal.models = 1 <=> key.models \in 1 .. 2
        /\ normal.models = 1 => normal = [key EXCEPT !.models = 1]
    BY DEF Keys
  <2>4. binding = IF constant THEN Taken([name |-> Name(Root, normal.part), shape |-> constants[normal.part]])
                  ELSE IF found = {} THEN Rejected
                  ELSE Taken([name |-> CHOOSE n \in found : TRUE, shape |-> inventory[CHOOSE n \in found : TRUE]])
    BY <1>2 DEF BindingOf, GemmaBinding
  <2> HIDE DEF constant, found
  <2>5. CASE constant
    <3>1. Meaning(family, key) = {Name(Root, key.part)}
      BY <1>2, <2>3, <2>5 DEF Meaning, constant
    <3>2. /\ binding.rejected = FALSE /\ binding.value.name = Name(Root, key.part)
          /\ binding.value.shape = constants[key.part]
      BY <2>3, <2>4, <2>5 DEF Taken
    <3>3. Name(Root, key.part) \in own /\ Name(Root, key.part).part = key.part
      BY <2>3, <2>5 DEF Name, constant
    <3> HIDE DEF own, constants, normal
    <3> QED BY <2>2, <3>1, <3>2, <3>3
  <2>6. CASE ~constant /\ found = {}
    <3>1. binding.rejected = TRUE
      BY <2>4, <2>6 DEF Rejected
    <3>2. ASSUME key.models \in 1 .. 2, NEW n \in Meaning(family, key), n \in DOMAIN shapes
          PROVE  FALSE
      <4>1. Meaning(family, key) = GemmaToGguf(normal, FALSE)
        BY <1>2, <2>3, <2>6, <3>2 DEF Meaning, constant
      <4>2. n \notin own
        BY <3>2, <4>1, ConstantsApart
      <4> HIDE DEF own, normal
      <4> QED BY <2>2, <2>6, <3>2, <4>1, <4>2 DEF found
    <3> QED BY <1>2, <3>1, <3>2
  <2>7. CASE ~constant /\ found # {}
    <3> DEFINE name == CHOOSE n \in found : TRUE
    <3>1. name \in found
      BY <2>7
    <3>2. binding.rejected = FALSE /\ binding.value.name = name /\ binding.value.shape = inventory[name]
      BY <2>4, <2>7 DEF Taken
    <3> HIDE DEF name
    <3>3. normal.models = 1
      <4> HIDE DEF normal
      <4>1. name \in GemmaToGguf(normal, FALSE)
        BY <3>1 DEF found
      <4>2. normal.models \in 0 .. 1 /\ (normal.models = 0 => FALSE)
        BY <4>1, GemmaNames, Zenon
      <4> QED BY <4>2
    <3>4. Meaning(family, key) = GemmaToGguf(normal, FALSE)
      BY <1>2, <2>3, <2>7, <3>3 DEF Meaning, constant
    <3>5. name \notin own
      BY <3>1, ConstantsApart DEF found
    <3> HIDE DEF own, normal
    <3> QED BY <2>2, <3>1, <3>2, <3>4, <3>5 DEF found
  <2> QED BY <2>5, <2>6, <2>7
<1> QED BY <1>1, <1>2

\* Two static nodes to one tensor, exactly if they were captured as one, of its layer
\* and shape; and what can be bound is.
THEOREM BindingsRight ==
  ASSUME NEW family \in {"gemma4", "mellum"}, NEW inventory, NEW Shapes,
         NEW nodes \in Seq([key : Keys, shape : Shapes]),
         \A n \in ToSet(nodes) : WellNamed(family, n.key)
  PROVE  BindingRight(family, nodes, inventory)
<1> DEFINE tensors == {n.key : n \in ToSet(nodes)}
           bound == BindTarget(family, nodes, inventory)
           shapes == ShapesOf(family, inventory)
           Of(key) == BindingOf(family, key, inventory)
           bindings == [key \in tensors |-> Of(key).value]
<1>1. /\ \A i \in DOMAIN nodes : nodes[i] \in ToSet(nodes) /\ nodes[i].key \in Keys
      /\ \A n \in ToSet(nodes) : n.key \in Keys /\ WellNamed(family, n.key)
  <2>1. \A i \in DOMAIN nodes : nodes[i] \in [key : Keys, shape : Shapes]
    BY ElementOfSeq, LenProperties
  <2>2. \A n \in [key : Keys, shape : Shapes] : n.key \in Keys
    OBVIOUS
  <2> QED BY <2>1, <2>2 DEF ToSet
<1>2. \A key \in tensors :
        /\ key \in Keys
        /\ Of(key).rejected \in BOOLEAN
        /\ ~Of(key).rejected =>
             /\ Of(key).value.name \in Meaning(family, key) \cap DOMAIN shapes
             /\ Of(key).value.shape = shapes[Of(key).value.name]
        /\ Of(key).rejected =>
             \/ Meaning(family, key) \cap DOMAIN shapes = {}
             \/ family = "gemma4" /\ key.models \notin 1 .. 2
  BY <1>1, BindingIs
<1>3. bound = IF \E key \in tensors : Of(key).rejected THEN Rejected
              ELSE BindExternalTensors(nodes, tensors, bindings)
  BY DEF BindTarget, BindingOf
<1>4. CASE \E key \in tensors : Of(key).rejected
  <2>1. bound.rejected = TRUE
    BY <1>3, <1>4 DEF Rejected
  <2>2. PICK n \in ToSet(nodes) : Of(n.key).rejected
    BY <1>4
  <2>3. \/ ~\E name \in Meaning(family, n.key) : name \in DOMAIN shapes /\ shapes[name] = n.shape
        \/ family = "gemma4" /\ n.key.models \notin 1 .. 2
    BY <1>2, <2>2
  <2> QED BY <2>1, <2>3 DEF BindingRight, ShapesOf
<1>5. CASE ~\E key \in tensors : Of(key).rejected
  <2> DEFINE refused == \/ \E k, l \in tensors : k # l /\ bindings[k].name = bindings[l].name
                        \/ \E n \in ToSet(nodes) : n.shape # bindings[n.key].shape
  <2>1. bound = IF refused THEN Rejected ELSE Taken([i \in DOMAIN nodes |-> bindings[nodes[i].key].name])
    BY <1>3, <1>5 DEF BindExternalTensors
  <2>2. \A key \in tensors :
          /\ bindings[key].name \in DOMAIN shapes
          /\ Meaning(family, key) = {bindings[key].name}
          /\ bindings[key].name.layer = key.layer
          /\ bindings[key].shape = shapes[bindings[key].name]
    BY <1>2, <1>5, MeaningIs
  <2> HIDE DEF bindings
  <2>3. CASE refused
    <3>1. bound.rejected = TRUE
      BY <2>1, <2>3 DEF Rejected
    <3>2. CASE \E n \in ToSet(nodes) : n.shape # bindings[n.key].shape
      <4>1. \E n \in ToSet(nodes) :
              ~\E name \in Meaning(family, n.key) : name \in DOMAIN shapes /\ shapes[name] = n.shape
        BY <2>2, <3>2
      <4> QED BY <3>1, <4>1 DEF BindingRight, ShapesOf
    <3>3. CASE \E k, l \in tensors : k # l /\ bindings[k].name = bindings[l].name
      <4>1. \E n, o \in ToSet(nodes) : o.key # n.key /\ Meaning(family, o.key) = Meaning(family, n.key)
        <5>1. PICK k \in tensors, l \in tensors : k # l /\ bindings[k].name = bindings[l].name
          BY <3>3
        <5>2. PICK n \in ToSet(nodes), o \in ToSet(nodes) : n.key = k /\ o.key = l
          OBVIOUS
        <5> QED BY <2>2, <5>1, <5>2
      <4> QED BY <3>1, <4>1 DEF BindingRight, ShapesOf
    <3> QED BY <2>3, <3>2, <3>3
  <2>4. CASE ~refused
    <3>1. bound.rejected = FALSE /\ bound.value = [i \in DOMAIN nodes |-> bindings[nodes[i].key].name]
      BY <2>1, <2>4 DEF Taken
    <3>2. \A i \in DOMAIN nodes :
            /\ bound.value[i] = bindings[nodes[i].key].name
            /\ nodes[i].key \in tensors
            /\ nodes[i].shape = bindings[nodes[i].key].shape
      BY <1>1, <2>4, <3>1
    <3>3. \A i, j \in DOMAIN nodes :
            /\ shapes[bound.value[i]] = nodes[i].shape
            /\ bound.value[i].layer = nodes[i].key.layer
            /\ bound.value[i] = bound.value[j] <=> nodes[i].key = nodes[j].key
      BY <2>2, <2>4, <3>2
    <3> QED BY <3>1, <3>3 DEF BindingRight, ShapesOf
  <2> QED BY <2>3, <2>4
<1> QED BY <1>4, <1>5

\* A Gemma's names tell its keys apart.
LEMMA GemmaKeys ==
  ASSUME NEW assistant \in BOOLEAN, NEW k \in Keys, NEW l \in Keys,
         NEW n \in GemmaToGguf(k, assistant), n \in GemmaToGguf(l, assistant)
  PROVE  k = l
<1>1. /\ n.layer = k.layer /\ n.layer = l.layer
      /\ k.models \in 0 .. 1 /\ l.models \in 0 .. 1
  BY GemmaNames
<1>2. SUFFICES k.models = l.models /\ k.part = l.part
  <2>1. \A key \in Keys : key = [models |-> key.models, layer |-> key.layer, part |-> key.part]
    BY DEF Keys
  <2> QED BY <1>1, <2>1
<1>3. CASE k.layer # Root
  <2>1. /\ k.models = 1 /\ n \in In(k.layer, k.part, GemmaSuffixes)
        /\ l.models = 1 /\ n \in In(l.layer, l.part, GemmaSuffixes)
    BY <1>1, <1>3 DEF GemmaToGguf
  <2>2. PICK q \in GemmaSuffixes, r \in GemmaSuffixes :
          q[1] = k.part /\ n = Name(k.layer, q[2]) /\ r[1] = l.part /\ n = Name(l.layer, r[2])
    BY <2>1, InIs, GemmaTable
  <2>3. q[2] = r[2]
    BY <2>2 DEF Name
  <2> QED BY <2>1, <2>2, <2>3, GemmaTable DEF Injective
<1>4. CASE k.layer = Root
  <2> DEFINE Table(key) == IF key.models = 1 THEN RootNames ELSE AssistantNames
  <2>1. n \in In(Root, k.part, Table(k)) /\ n \in In(Root, l.part, Table(l))
    <3>1. \A key \in {k, l} : key.layer = Root /\ n \in GemmaToGguf(key, assistant)
      BY <1>1, <1>4
    <3> SUFFICES ASSUME NEW key \in {k, l} PROVE n \in In(Root, key.part, Table(key))
      OBVIOUS
    <3>2. CASE key.models = 1
      BY <3>1, <3>2 DEF GemmaToGguf
    <3>3. CASE key.models # 1
      BY <3>1, <3>3 DEF GemmaToGguf
    <3> QED BY <3>2, <3>3
  <2>2. \A key : Functional(Table(key))
    BY RootTables
  <2>3. PICK q \in Table(k), r \in Table(l) :
          q[1] = k.part /\ n = Name(Root, q[2]) /\ r[1] = l.part /\ n = Name(Root, r[2])
    <3> HIDE DEF Table
    <3> QED BY <2>1, <2>2, InIs
  <2>4. q[2] = r[2]
    BY <2>3 DEF Name
  <2>5. k.models = l.models
    BY <1>1, <2>3, <2>4, RootTables
  <2> QED BY <2>3, <2>4, <2>5, RootTables DEF Injective
<1> QED BY <1>3, <1>4

\* A model that was checked against its file takes each of its tensors once.
THEOREM CoverageAlwaysRight ==
  ASSUME NEW Shapes, NEW parameters \in SUBSET [key : Keys, shape : Shapes], NEW inventory
  PROVE  CoverageRight(parameters, inventory)
<1> SUFFICES ASSUME NEW assistant \in BOOLEAN, ValidateBindings(parameters, inventory, assistant),
                    NEW name \in DOMAIN inventory \ {Name(Root, "rope_freqs")}
             PROVE  \E p \in parameters :
                      /\ inventory[name] = p.shape
                      /\ {o \in parameters : name \in GemmaToGguf(o.key, assistant)} = {p}
  BY DEF CoverageRight
<1>1. \A p \in parameters : \E n \in GemmaToGguf(p.key, assistant) \cap DOMAIN inventory :
        inventory[n] = p.shape
  BY DEF ValidateBindings
<1>2. PICK p \in parameters : name \in GemmaToGguf(p.key, assistant)
  BY DEF ValidateBindings
<1>3. \A o \in parameters : name \in GemmaToGguf(o.key, assistant) => inventory[name] = o.shape
  BY <1>1, GemmaNames
<1>4. \A o \in parameters : name \in GemmaToGguf(o.key, assistant) => o = p
  <2> SUFFICES ASSUME NEW o \in parameters, name \in GemmaToGguf(o.key, assistant)
               PROVE  o = p
    OBVIOUS
  <2>1. o.key \in Keys /\ p.key \in Keys
    OBVIOUS
  <2>2. o.key = p.key
    BY <1>2, <2>1, GemmaKeys
  <2> QED BY <1>2, <1>3, <2>2
<1> QED BY <1>2, <1>3, <1>4
-----------------------------------------------------------------------------
(* Traces. *)

\* What a trace file can say: one number of tokens, a row of them, or rows.
RawTraces ==
  [turns : Seq(Nat), prefixes : Nat, offsets : Nat, declaredConversations : Seq(Int),
   declaredTurns : Seq(Int), declaredTotal : Seq(Int),
   tokens : [form : {"one"}, count : Int] \cup [form : {"row"}, counts : Seq(Int)]
              \cup [form : {"rows"}, rows : Seq(Seq(Int))]]

\* Output tokens that are taken are a row of positive numbers for each conversation.
LEMMA TokensExpanded ==
  ASSUME NEW conversations \in Nat, NEW turns \in Nat,
         NEW raw \in [form : {"one"}, count : Int] \cup [form : {"row"}, counts : Seq(Int)]
                        \cup [form : {"rows"}, rows : Seq(Seq(Int))],
         ~ExpandOutputTokens(raw, conversations, turns).rejected
  PROVE  LET matrix == ExpandOutputTokens(raw, conversations, turns).value IN
         /\ DOMAIN matrix = 1 .. conversations
         /\ \A c \in 1 .. conversations :
              DOMAIN matrix[c] = 1 .. turns /\ \A t \in 1 .. turns : matrix[c][t] > 0
<1> DEFINE matrix ==
             CASE raw.form = "one" -> [c \in 1 .. conversations |-> [t \in 1 .. turns |-> raw.count]]
               [] raw.form = "row" ->
                    IF raw.counts = <<>> THEN <<>> ELSE [c \in 1 .. conversations |-> raw.counts]
               [] raw.form = "rows" -> raw.rows
<1>1. matrix \in Seq(Seq(Int))
  <2>1. CASE raw.form = "one"
    <3>1. raw.count \in Int
      BY <2>1
    <3>2. [t \in 1 .. turns |-> raw.count] \in Seq(Int)
      BY <3>1
    <3> DEFINE row == [t \in 1 .. turns |-> raw.count]
    <3> HIDE DEF row
    <3>3. [c \in 1 .. conversations |-> row] \in Seq(Seq(Int))
      BY <3>2 DEF row
    <3>4. matrix = [c \in 1 .. conversations |-> row]
      BY <2>1 DEF row
    <3> QED BY <3>3, <3>4
  <2>2. CASE raw.form = "row"
    <3>1. raw.counts \in Seq(Int)
      BY <2>2
    <3>2. matrix = IF raw.counts = <<>> THEN <<>> ELSE [c \in 1 .. conversations |-> raw.counts]
      BY <2>2
    <3> HIDE DEF matrix
    <3> QED BY <3>1, <3>2
  <2>3. CASE raw.form = "rows"
    BY <2>3
  <2> QED BY <2>1, <2>2, <2>3
<1>2. ExpandOutputTokens(raw, conversations, turns) =
        IF \/ Len(matrix) # conversations
           \/ \E row \in ToSet(matrix) : Len(row) # turns \/ \E n \in ToSet(row) : n <= 0
        THEN Rejected ELSE Taken(matrix)
  BY DEF ExpandOutputTokens
<1> HIDE DEF matrix
<1>3. /\ Len(matrix) = conversations
      /\ \A row \in ToSet(matrix) : Len(row) = turns /\ \A n \in ToSet(row) : ~(n <= 0)
      /\ ExpandOutputTokens(raw, conversations, turns).value = matrix
  BY <1>2 DEF Rejected, Taken
<1>4. DOMAIN matrix = 1 .. conversations
  BY <1>1, <1>3, LenProperties
<1>5. ASSUME NEW c \in 1 .. conversations
      PROVE  DOMAIN matrix[c] = 1 .. turns /\ \A t \in 1 .. turns : matrix[c][t] > 0
  <2>1. matrix[c] \in Seq(Int) /\ matrix[c] \in ToSet(matrix)
    BY <1>1, <1>4, ElementOfSeq, LenProperties DEF ToSet
  <2>2. DOMAIN matrix[c] = 1 .. turns
    BY <1>3, <2>1, LenProperties
  <2>3. \A t \in 1 .. turns : matrix[c][t] \in Int /\ matrix[c][t] \in ToSet(matrix[c])
    BY <2>1, <2>2, ElementOfSeq, LenProperties DEF ToSet
  <2>4. \A t \in 1 .. turns : ~(matrix[c][t] <= 0)
    BY <1>3, <2>1, <2>3
  <2> QED BY <2>2, <2>3, <2>4
<1> QED BY <1>3, <1>4, <1>5

\* A client that plays a trace it took never asks for what the trace does not have.
THEOREM TracesPlayable ==
  ASSUME NEW raw \in RawTraces
  PROVE  TracePlayable(raw)
<1> DEFINE conversations == Len(raw.turns)
           turns == raw.turns[1]
<1> SUFFICES ASSUME ~FromDict(raw).rejected
             PROVE  /\ raw.prefixes = conversations /\ raw.offsets \in {0, conversations}
                    /\ DOMAIN FromDict(raw).value = DOMAIN raw.turns
                    /\ \A c \in DOMAIN raw.turns :
                         /\ DOMAIN FromDict(raw).value[c] = 1 .. raw.turns[c]
                         /\ \A t \in 1 .. raw.turns[c] : FromDict(raw).value[c][t] > 0
  BY DEF TracePlayable
<1>1. /\ raw.turns \in Seq(Nat)
      /\ raw.tokens \in [form : {"one"}, count : Int] \cup [form : {"row"}, counts : Seq(Int)]
                           \cup [form : {"rows"}, rows : Seq(Seq(Int))]
  BY DEF RawTraces
<1>2. /\ conversations # 0 /\ ToSet(raw.turns) = {turns}
      /\ raw.prefixes = conversations /\ raw.offsets \in {0, conversations}
      /\ FromDict(raw) = ExpandOutputTokens(raw.tokens, conversations, turns)
  BY DEF FromDict, Rejected
<1>3. conversations \in Nat /\ DOMAIN raw.turns = 1 .. conversations /\ turns \in Nat
  BY <1>1, <1>2, ElementOfSeq, LenProperties
<1>4. \A c \in DOMAIN raw.turns : raw.turns[c] = turns
  BY <1>2 DEF ToSet
<1> DEFINE tokens == raw.tokens
<1> HIDE DEF conversations, turns, tokens
<1>5. /\ DOMAIN FromDict(raw).value = 1 .. conversations
      /\ \A c \in 1 .. conversations :
           /\ DOMAIN FromDict(raw).value[c] = 1 .. turns
           /\ \A t \in 1 .. turns : FromDict(raw).value[c][t] > 0
  BY <1>1, <1>2, <1>3, TokensExpanded
<1> QED BY <1>2, <1>3, <1>4, <1>5
-----------------------------------------------------------------------------
(* Verdicts. *)

\* What engine_pass asks of one candidate.
Passes(c, expected) ==
  \A phase \in Phase :
    LET summary == SummaryCore(c[phase]) IN
    /\ summary.successful = summary.requests /\ summary.mismatches = 0
    /\ summary.requests = expected

\* Two workers, judged alone and then together, end as one process with both would,
\* and so do their files when they are combined later.
THEOREM SuitesAgree ==
  ASSUME NEW eager, NEW llmopt, NEW requests, NEW options
  PROVE  LET together == ProcessVerdict({eager, llmopt}, requests, options) IN
         /\ IsolatedVerdict(eager, llmopt, requests, options) = together
         /\ Len(eager.scored) = requests => CombinedVerdict(eager, llmopt, options) = together
<1> DEFINE Needles(candidates) == options.require => ~options.skip /\ NeedlesFound(candidates)
           both == {eager, llmopt}
           same == eager.logits = llmopt.logits
           read == Len(eager.scored)
           Good(n) == same /\ (\A c \in both : Passes(c, n)) /\ Needles(both)
<1>1. ProcessVerdict(both, requests, options) = IF Good(requests) THEN 0 ELSE 1
  <2>1. (\A c, d \in both : c.logits = d.logits) <=> same
    OBVIOUS
  <2>2. EnginePassed(both, \A c, d \in both : c.logits = d.logits, requests)
          <=> same /\ \A c \in both : Passes(c, requests)
    BY <2>1 DEF EnginePassed, Passes
  <2> QED BY <2>2 DEF ProcessVerdict, ExitCode
<1>2. \A c \in both : ProcessVerdict({c}, requests, [skip |-> options.skip, require |-> FALSE])
                     = IF Passes(c, requests) THEN 0 ELSE 1
  <2> SUFFICES ASSUME NEW c \in both
               PROVE  ProcessVerdict({c}, requests, [skip |-> options.skip, require |-> FALSE])
                        = IF Passes(c, requests) THEN 0 ELSE 1
    OBVIOUS
  <2>1. EnginePassed({c}, \A e, d \in {c} : e.logits = d.logits, requests) <=> Passes(c, requests)
    BY DEF EnginePassed, Passes
  <2> QED BY <2>1 DEF ProcessVerdict, ExitCode
<1>3. CombinedVerdict(eager, llmopt, options) = IF Good(read) THEN 0 ELSE 1
  <2>1. EnginePassed(both, same, read) <=> same /\ \A c \in both : Passes(c, read)
    BY DEF EnginePassed, Passes
  <2> QED BY <2>1 DEF CombinedVerdict, ExitCode
<1>4. \A n : Passes(eager, n) => n = read
  BY DEF Passes, Phase, SummaryCore
<1> HIDE DEF Needles, same, read
<1>5. IsolatedVerdict(eager, llmopt, requests, options) = IF Good(requests) THEN 0 ELSE 1
  BY <1>2, <1>3, <1>4 DEF IsolatedVerdict
<1> QED BY <1>1, <1>3, <1>5 DEF read

\* A greater loss of accuracy never raises a final score.
THEOREM ScoreFalls ==
  ASSUME NEW ers \in Nat, NEW delta \in Int, NEW more \in Nat
  PROVE  FinalScore(ers, delta + more) \in 0 .. FinalScore(ers, delta)
<1>1. \A d \in Int : AccuracyFactor(d) \in 0 .. 60
  BY DEF AccuracyFactor
<1>2. AccuracyFactor(delta + more) <= AccuracyFactor(delta)
  BY DEF AccuracyFactor
<1>3. \A a, b \in Nat : a <= b => ers * a \in Nat /\ ers * b \in Nat /\ ers * a <= ers * b
  OBVIOUS
<1> QED BY <1>1, <1>2, <1>3 DEF FinalScore
====
