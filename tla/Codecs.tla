------------------------------- MODULE Codecs -------------------------------
(***************************************************************************)
(* The formats in which the Python side hands a model to the compiler and  *)
(* the runtime: the binary FX graph (fx_graph.py), the weight archive      *)
(* (tensor_archive.py, read again by lib/weight_archive.ml) and W4 weights *)
(* (quantization.py).                                                      *)
(*                                                                         *)
(* A graph file is a sequence of fields, each one word here: a reader      *)
(* knows what a field is by its place alone.  Names are numbers; the op,   *)
(* target and dtype of a node are words like its name and are left out,    *)
(* and so are keyword arguments, written as positional ones after a name.  *)
(* The compiler's reader is OfBinary of the module FxCapture.              *)
(***************************************************************************)
EXTENDS Integers, Sequences, SequencesExt, FiniteSets, FiniteSetsExt

CONSTANTS
  Deepest,    \* arguments nest this deep (64)
  WordBits,   \* of an integer in a graph file (64)
  Alignment,  \* of a payload in a weight archive (256)
  GroupSize,  \* values of a weight that share a scale (64)
  Significant,\* bits of an FP16 number (11)
  Exponents,  \* its greatest exponent, over that of the least number (29)
  Finest      \* the least FP16 number, in the units weights are counted in

ASSUME CodecAssumption ==
  /\ {Deepest, WordBits, Alignment, GroupSize, Significant, Finest} \subseteq Nat \ {0}
  /\ Exponents \in Nat
  /\ GroupSize % 2 = 0

Refused == [refused |-> TRUE]
Accepted(value, at) == [refused |-> FALSE, value |-> value, at |-> at]
Then(read, Next(_, _)) == IF read.refused THEN Refused ELSE Next(read.value, read.at)
-----------------------------------------------------------------------------
(* The FX graph: an argument is written as its tag and what it is made of.   *)

ItemsOf(a) == IF "items" \in DOMAIN a THEN a.items ELSE <<>>

RECURSIVE WriteArgument(_)
WriteArgument(a) ==
  LET Items(n) == <<n>> \o FlattenSeq([i \in 1 .. n |-> WriteArgument(a.items[i])]) IN
  CASE a.kind = "node" -> <<0, a.value>>
    [] a.kind = "null" -> <<1>>
    [] a.kind = "bool" -> <<3, a.value>>
    [] a.kind = "int" -> <<4, a.value>>
    [] a.kind = "symbol" -> <<7, a.value>>
    [] a.kind = "list" -> <<8>> \o Items(Len(a.items))
    [] a.kind = "tuple" -> <<9>> \o Items(Len(a.items))
    [] a.kind = "mapping" ->
         <<10, Len(a.items)>> \o FlattenSeq([i \in DOMAIN a.items |->
           <<a.names[i]>> \o WriteArgument(a.items[i])])
    [] a.kind = "slice" -> <<11>> \o Tail(Items(3))

\* How deep arguments nest in an argument: the writer's depth is that of the
\* deepest one, and it refuses more than Deepest.
RECURSIVE Nesting(_)
Nesting(a) ==
  IF ItemsOf(a) = <<>> THEN 0
  ELSE 1 + FoldLeft(LAMBDA deepest, item :
         IF Nesting(item) > deepest THEN Nesting(item) ELSE deepest, 0, a.items)

\* The integers among an argument, and those that bits hold with a sign.
RECURSIVE Ints(_)
Ints(a) == IF a.kind = "int" THEN {a.value} ELSE UNION {Ints(item) : item \in ToSet(ItemsOf(a))}
Signed(bits) == -(2 ^ (bits - 1)) .. 2 ^ (bits - 1) - 1

Word(words, at) == IF at > Len(words) THEN Refused ELSE Accepted(words[at], at + 1)

\* n things in a row, each read where the one before it ended.
Many(n, ReadOne(_), at) ==
  FoldLeft(LAMBDA read, i :
      Then(read, LAMBDA items, p :
        Then(ReadOne(p), LAMBDA item, q : Accepted(Append(items, item), q))),
    Accepted(<<>>, at), [i \in 1 .. n |-> i])

\* A count, and then that many.
Counted(words, ReadOne(_), at) == Then(Word(words, at), LAMBDA n, p : Many(n, ReadOne, p))

RECURSIVE ReadArgument(_, _, _)
ReadArgument(words, at, depth) ==
  LET Inner(p) == ReadArgument(words, p, depth + 1)
      Named(p) ==
        Then(Word(words, p), LAMBDA name, q :
          Then(Inner(q), LAMBDA item, r : Accepted(<<name, item>>, r)))
      Leaf(kind, p) ==
        Then(Word(words, p), LAMBDA v, q : Accepted([kind |-> kind, value |-> v], q))
      Items(kind, read) ==
        Then(read, LAMBDA items, q : Accepted([kind |-> kind, items |-> items], q))
      Mapping(read) ==
        Then(read, LAMBDA fields, q : Accepted(
          [kind |-> "mapping", names |-> [i \in DOMAIN fields |-> fields[i][1]],
           items |-> [i \in DOMAIN fields |-> fields[i][2]]], q))
      Tagged(tag, p) ==
        CASE tag = 0 -> Leaf("node", p)
          [] tag = 1 -> Accepted([kind |-> "null"], p)
          [] tag = 3 -> IF p <= Len(words) /\ words[p] \in {0, 1} THEN Leaf("bool", p) ELSE Refused
          [] tag = 4 -> Leaf("int", p)
          [] tag = 7 -> Leaf("symbol", p)
          [] tag = 8 -> Items("list", Counted(words, Inner, p))
          [] tag = 9 -> Items("tuple", Counted(words, Inner, p))
          [] tag = 10 -> Mapping(Counted(words, Named, p))
          [] tag = 11 -> Items("slice", Many(3, Inner, p))
          [] OTHER -> Refused
  IN
  IF depth > Deepest THEN Refused ELSE Then(Word(words, at), Tagged)

\* binding: <<0>> computed, <<1>> an input of the run, <<2, key>> in the tensor
\* store.  shape: <<>> unknown.
WriteNode(n) ==
  <<n.name>> \o n.binding
    \o (IF n.shape = <<>> THEN <<0>> ELSE <<1, Len(n.shape[1])>> \o n.shape[1])
    \o <<Len(n.inputs)>> \o n.inputs
    \o <<Len(n.args)>> \o FlattenSeq([i \in DOMAIN n.args |-> WriteArgument(n.args[i])])

\* The parts of a node in the order they were written.
ReadNode(words, at) ==
  LET Plain(p) == Word(words, p)
      Argument(p) == ReadArgument(words, p, 0)
      Binding(tag, p) ==
        CASE tag \in {0, 1} -> Accepted(<<tag>>, p)
          [] tag = 2 -> Then(Plain(p), LAMBDA key, q : Accepted(<<2, key>>, q))
          [] OTHER -> Refused
      Shape(tag, p) ==
        IF tag = 1 THEN Then(Counted(words, Plain, p), LAMBDA dims, q : Accepted(<<dims>>, q))
        ELSE IF tag = 0 THEN Accepted(<<>>, p) ELSE Refused
  IN
  Then(Plain(at), LAMBDA name, p1 :
  Then(Then(Plain(p1), Binding), LAMBDA binding, p2 :
  Then(Then(Plain(p2), Shape), LAMBDA shape, p3 :
  Then(Counted(words, Plain, p3), LAMBDA inputs, p4 :
  Then(Counted(words, Argument, p4), LAMBDA args, p5 :
    Accepted([name |-> name, binding |-> binding, shape |-> shape,
              inputs |-> inputs, args |-> args], p5))))))

\* Nothing is written of a graph with arguments nested too deep, or an integer or a
\* dimension that is no word.
EncodeManifest(g) ==
  IF \E n \in ToSet(g.nodes) :
       \/ \E a \in ToSet(n.args) : Nesting(a) > Deepest \/ ~(Ints(a) \subseteq Signed(WordBits))
       \/ n.shape # <<>> /\ \E d \in ToSet(n.shape[1]) : d >= 2 ^ WordBits
  THEN <<>>
  ELSE <<Len(g.nodes), Len(g.outputs)>>
         \o FlattenSeq([i \in DOMAIN g.nodes |-> WriteNode(g.nodes[i])]) \o g.outputs

\* Every byte has to be read: finish refuses trailing ones.
DecodeManifest(words) ==
  LET Node(p) == ReadNode(words, p)
      Output(p) == Word(words, p)
      read ==
        Then(Word(words, 1), LAMBDA nodeCount, p1 :
        Then(Word(words, p1), LAMBDA outputCount, p2 :
        Then(Many(nodeCount, Node, p2), LAMBDA nodes, p3 :
        Then(Many(outputCount, Output, p3), LAMBDA outputs, p4 :
          Accepted([nodes |-> nodes, outputs |-> outputs], p4)))))
  IN  IF ~read.refused /\ read.at = Len(words) + 1 THEN read ELSE Refused
-----------------------------------------------------------------------------
(* The weight archive.  A tensor has a name (names are ordered), the bytes   *)
(* its name takes, its dimensions, the bytes of an element, the bytes it     *)
(* says it has, and the bytes its payload comes in, chunk by chunk.          *)

Total(numbers) == FoldLeft(LAMBDA total, n : total + n, 0, numbers)
Product(numbers) == FoldLeft(LAMBDA product, n : product * n, 1, numbers)
AlignUp(at) == ((at + Alignment - 1) \div Alignment) * Alignment

IndexBytes(tensors) ==
  24 + Total([i \in DOMAIN tensors |-> 24 + tensors[i].chars + 8 * Len(tensors[i].dims)])

\* Where each tensor starts: each is put after the one before it, aligned.
Layout(tensors) ==
  LET sorted == SortSeq(tensors, LAMBDA a, b : a.name < b.name)
      start == AlignUp(IndexBytes(sorted))
      offset[i \in DOMAIN sorted] ==
        IF i = 1 THEN start ELSE AlignUp(offset[i - 1] + sorted[i - 1].bytes)
  IN
  IF \/ tensors = <<>>
     \/ \E t \in ToSet(tensors) : t.bytes <= 0
     \/ \E i, j \in DOMAIN tensors : i # j /\ tensors[i].name = tensors[j].name
  THEN Refused
  ELSE Accepted([start |-> start,
                 entries |-> [i \in DOMAIN sorted |->
                   [tensor |-> sorted[i], offset |-> offset[i]]]], 1)

\* The file: its index, and the payload written at each place.  A payload that
\* ends before or after the end its entry gives is refused, and the temporary
\* file goes.
WriteArchive(tensors) ==
  Then(Layout(tensors), LAMBDA l, at :
    IF \/ IndexBytes(tensors) > l.start
       \/ \E e \in ToSet(l.entries) : Total(e.tensor.chunks) # e.tensor.bytes
    THEN Refused
    ELSE Accepted(l @@
      [index |-> IndexBytes(tensors),
       size |-> Last(l.entries).offset + Last(l.entries).tensor.bytes], at))

\* read_inventory in Python: the index alone.
ReadInventory(file) ==
  IF \/ \E e \in ToSet(file.entries) :
          e.tensor.bytes <= 0 \/ e.offset < file.start \/ e.offset % Alignment # 0
     \/ file.index > file.start
  THEN Refused
  ELSE Accepted([name \in {e.tensor.name : e \in ToSet(file.entries)} |->
         (CHOOSE e \in ToSet(file.entries) : e.tensor.name = name).tensor.dims], 1)

\* of_file in OCaml: sorted names, sizes as dtypes and shapes say, and every
\* byte of the file accounted for.
OpenArchive(file) ==
  LET Entry(i) == file.entries[i]
      Ends(i) == IF i = 0 THEN file.start ELSE Entry(i).offset + Entry(i).tensor.bytes
      last == Len(file.entries)
  IN
  IF \/ file.start % Alignment # 0 \/ file.start > file.size \/ file.index > file.start
     \/ \E i \in 2 .. last : Entry(i - 1).tensor.name >= Entry(i).tensor.name
     \/ \E i \in 1 .. last :
          \/ Entry(i).tensor.bytes # Product(Entry(i).tensor.dims) * Entry(i).tensor.width
          \/ Entry(i).offset # AlignUp(Ends(i - 1))
     \/ Ends(last) # file.size
  THEN Refused ELSE Accepted(file.entries, 1)
-----------------------------------------------------------------------------
(* W4 weights: GroupSize values of a row share the scale amax / 7, kept as an  *)
(* FP16 number; a byte holds the two's complement of an even value in its low *)
(* half and of the next in its high half.  FP32 arithmetic is taken as exact. *)

Magnitude(v) == IF v < 0 THEN -v ELSE v
Greatest(values) == Max({Magnitude(v) : v \in ToSet(values)})

\* num / den to the nearest integer, a half to the even one.
Rounded(num, den) ==
  LET up == (2 * num + den) \div (2 * den) IN
  IF (2 * num + den) % (2 * den) = 0 /\ up % 2 = 1 THEN up - 1 ELSE up

\* num / den as FP16, all of them in the least FP16 number: equal steps up to
\* 2 ^ Significant, then steps that double with the number, then infinity.
Infinite == -1
Half(num, den) ==
  LET above == {e \in 0 .. Exponents : num < den * 2 ^ (Significant + e)}
      step == 2 ^ (IF above = {} THEN Exponents ELSE Min(above))
      half == Rounded(num, den * step) * step
  IN  IF half > (2 ^ Significant - 1) * 2 ^ Exponents THEN Infinite ELSE half

\* amax of a group, at least the epsilon of FP32, twice the least FP16 number.
Amax(values) == Max({Greatest(values), 2 * Finest})

GroupOf(row, g) == SubSeq(row, (g - 1) * GroupSize + 1, g * GroupSize)

\* The values are divided by the scale before it is rounded, so that the clamp to
\* -8 .. 7 changes none of them.
Pack(row) ==
  LET amax == [g \in 1 .. Len(row) \div GroupSize |-> Amax(GroupOf(row, g))]
      Nibble(k) == Rounded(7 * row[k], amax[(k - 1) \div GroupSize + 1]) % 16
  IN
  IF row = <<>> \/ Len(row) % GroupSize # 0 THEN Refused
  ELSE Accepted([bytes |-> [i \in 1 .. Len(row) \div 2 |->
                   Nibble(2 * i - 1) + 16 * Nibble(2 * i)],
                 scale |-> [g \in DOMAIN amax |-> Half(amax[g], 7 * Finest)]], 1)

\* Mutant of Unpack: nibbles have no sign.
UnpackUnsigned(packed) ==
  [k \in 1 .. 2 * Len(packed.bytes) |->
    LET byte == packed.bytes[(k + 1) \div 2] IN
    IF k % 2 = 1 THEN byte % 16 ELSE byte \div 16]

\* The quantized values, in the order of the row.
Unpack(packed) ==
  [k \in 1 .. 2 * Len(packed.bytes) |->
    LET byte == packed.bytes[(k + 1) \div 2]
        nibble == IF k % 2 = 1 THEN byte % 16 ELSE byte \div 16
    IN  IF nibble < 8 THEN nibble ELSE nibble - 16]
-----------------------------------------------------------------------------
(* What a file of each kind owes its reader.                                 *)

\* A graph is read back as it was written, and neither a file cut short nor one
\* with something after its end is taken for a graph.
GraphReadsBack(g) ==
  LET words == EncodeManifest(g) IN
  words # <<>> =>
    /\ DecodeManifest(words) = Accepted(g, Len(words) + 1)
    /\ \A cut \in 0 .. Len(words) - 1 : DecodeManifest(SubSeq(words, 1, cut)).refused
    /\ DecodeManifest(Append(words, 0)).refused

\* An archive the writer finished is one both readers take, when the sizes it was
\* given are those of the shapes; it has every tensor, and no payload lies over
\* another or over the index.
ArchiveOpens(tensors) ==
  LET written == WriteArchive(tensors)
      file == written.value
      given == ToSet(tensors)
  IN
  ~written.refused =>
    /\ ReadInventory(file) = Accepted([name \in {t.name : t \in given} |->
         (CHOOSE t \in given : t.name = name).dims], 1)
    /\ (\A t \in given : t.bytes = Product(t.dims) * t.width) => ~OpenArchive(file).refused
    /\ \A e, f \in ToSet(file.entries) :
         /\ e.offset >= file.index
         /\ e # f => e.offset + e.tensor.bytes <= f.offset \/ f.offset + f.tensor.bytes <= e.offset

\* No tensors are refused that the readers would take.
ArchiveComplete(tensors) ==
  /\ tensors # <<>>
  /\ \A i, j \in DOMAIN tensors : i # j => tensors[i].name # tensors[j].name
  /\ \A t \in ToSet(tensors) : t.bytes > 0 /\ Total(t.chunks) = t.bytes
  => ~WriteArchive(tensors).refused

\* Each weight comes back in its place, at most half a step of its group away and
\* seven times what the scale lost as FP16, unless the scale is infinite; a group of
\* no more than three and a half of the least FP16 number comes back as zeros.
WeightsClose(row) ==
  LET packed == Pack(row) IN
  ~packed.refused =>
    LET values == Unpack(packed.value) IN
    /\ Len(values) = Len(row)
    /\ \A k \in DOMAIN row :
         LET group == (k - 1) \div GroupSize + 1
             amax == Amax(GroupOf(row, group))
             scale == packed.value.scale[group]
             lost == Max({14 * amax, 49 * Finest * 2 ^ Significant})
         IN
         /\ values[k] \in -7 .. 7
         /\ scale = 0 <=> 2 * amax <= 7 * Finest
         /\ scale # Infinite =>
              14 * 2 ^ Significant * Magnitude(values[k] * scale * Finest - row[k])
                <= 2 ^ Significant * amax + lost
=============================================================================
