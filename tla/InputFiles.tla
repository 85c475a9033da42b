---------------------------- MODULE InputFiles ----------------------------
(***************************************************************************)
(* Files that are checked on the way in: the tokenizer archive, written by *)
(* tokenizer_archive.py and read by lib/tokenizer.ml, and the workload     *)
(* traces the benchmark clients read (racebench/trace.py).                 *)
(*                                                                         *)
(* A tokenizer is [vocab, added, merges]: vocab maps spellings to ids,     *)
(* added is a sequence of [text, id, special], merges one of <<left,       *)
(* right>>.  A spelling is a sequence of letters.                          *)
(***************************************************************************)
EXTENDS Integers, Sequences, SequencesExt, FiniteSets, FiniteSetsExt

Rejected == [rejected |-> TRUE]
Taken(value) == [rejected |-> FALSE, value |-> value]
-----------------------------------------------------------------------------
(* encode_archive and of_bytes. *)

\* Tokens by id; an id has one spelling, in the vocabulary and among the added
\* tokens; the last added token of an id says what it is.
EncodeTokenizer(t) ==
  LET spelled == {<<t.vocab[text], text>> : text \in DOMAIN t.vocab}
                   \cup {<<a.id, a.text>> : a \in ToSet(t.added)}
      ids == {s[1] : s \in spelled}
      Token(id) ==
        LET added == SelectSeq(t.added, LAMBDA a : a.id = id) IN
        [id |-> id, text |-> (CHOOSE s \in spelled : s[1] = id)[2],
         added |-> added # <<>>, special |-> added # <<>> /\ Last(added).special]
      sorted == SetToSortSeq(ids, <)
  IN
  IF \/ ids = {}
     \/ Cardinality(ids) # Cardinality(spelled)
     \/ ~IsInjective(t.merges)
  THEN Rejected
  ELSE Taken([tokens |-> [i \in DOMAIN sorted |-> Token(sorted[i])], merges |-> t.merges])

\* The runtime's tables, built token by token.
LoadTokenizer(archive) ==
  LET texts == [i \in DOMAIN archive.tokens |-> archive.tokens[i].text]
      ids == [i \in DOMAIN archive.tokens |-> archive.tokens[i].id]
  IN
  IF \/ archive.tokens = <<>> \/ <<>> \in ToSet(texts)
     \/ ~IsInjective(texts) \/ ~IsInjective(ids) \/ ~IsInjective(archive.merges)
     \/ \E m \in ToSet(archive.merges) :
          m[1] = <<>> \/ m[2] = <<>> \/ m[1] \o m[2] \notin ToSet(texts)
  THEN Rejected
  ELSE Taken([byText |-> [x \in ToSet(texts) |-> ids[CHOOSE i \in DOMAIN texts : texts[i] = x]],
              byId |-> [id \in ToSet(ids) |->
                archive.tokens[CHOOSE i \in DOMAIN ids : ids[i] = id]],
              rank |-> [m \in ToSet(archive.merges) |->
                CHOOSE i \in DOMAIN archive.merges : archive.merges[i] = m]])

\* A tokenizer the runtime takes gives every spelling of the source its id there,
\* knows the added tokens as such and ranks the merges in their order.  What the
\* exporter writes and the runtime then refuses is a spelling with two ids, an
\* empty one, or a merge into a spelling there is not.
TokenizerSurvives(t) ==
  LET written == EncodeTokenizer(t)
      texts == DOMAIN t.vocab \cup {a.text : a \in ToSet(t.added)}
      twoIds == \E a \in ToSet(t.added) :
        \/ a.text \in DOMAIN t.vocab /\ t.vocab[a.text] # a.id
        \/ \E b \in ToSet(t.added) : a.text = b.text /\ a.id # b.id
      dangling == \E m \in ToSet(t.merges) : <<>> \in {m[1], m[2]} \/ m[1] \o m[2] \notin texts
  IN
  ~written.rejected =>
    LET loaded == LoadTokenizer(written.value) IN
    IF loaded.rejected THEN twoIds \/ dangling \/ <<>> \in texts
    ELSE /\ \A text \in DOMAIN t.vocab : loaded.value.byText[text] = t.vocab[text]
         /\ \A a \in ToSet(t.added) :
              loaded.value.byText[a.text] = a.id /\ loaded.value.byId[a.id].added
         /\ \A i \in DOMAIN t.merges : loaded.value.rank[t.merges[i]] = i
-----------------------------------------------------------------------------
(* WorkloadTrace.from_dict.  A raw trace has the number of turns of each     *)
(* conversation, a number of prefixes, of arrival offsets, the declared      *)
(* counts (<<>> or <<n>>), and output token counts: one for all, a row for   *)
(* every conversation, or one row each.                                      *)

ExpandOutputTokens(raw, conversations, turns) ==
  LET matrix ==
        CASE raw.form = "one" -> [c \in 1 .. conversations |-> [t \in 1 .. turns |-> raw.count]]
          [] raw.form = "row" ->
               IF raw.counts = <<>> THEN <<>> ELSE [c \in 1 .. conversations |-> raw.counts]
          [] raw.form = "rows" -> raw.rows
  IN
  IF \/ Len(matrix) # conversations
     \/ \E row \in ToSet(matrix) : Len(row) # turns \/ \E n \in ToSet(row) : n <= 0
  THEN Rejected ELSE Taken(matrix)

FromDict(raw) ==
  LET conversations == Len(raw.turns)
      turns == raw.turns[1]
      Declared(count, n) == count \in {<<>>, <<n>>}
  IN
  IF \/ conversations = 0 \/ turns = 0 \/ ToSet(raw.turns) # {turns}
     \/ raw.prefixes # conversations
     \/ raw.offsets \notin {0, conversations}
     \/ ~Declared(raw.declaredConversations, conversations)
     \/ ~Declared(raw.declaredTurns, turns)
     \/ ~Declared(raw.declaredTotal, conversations * turns)
  THEN Rejected
  ELSE ExpandOutputTokens(raw.tokens, conversations, turns)

\* A client that plays a trace asks for nothing the trace does not have: every turn
\* of every conversation has a message and a positive number of tokens, and every
\* conversation has its prefix and, if any has one, its arrival.
TracePlayable(raw) ==
  LET trace == FromDict(raw) IN
  ~trace.rejected =>
    /\ raw.prefixes = Len(raw.turns) /\ raw.offsets \in {0, Len(raw.turns)}
    /\ DOMAIN trace.value = DOMAIN raw.turns
    /\ \A c \in DOMAIN raw.turns :
         /\ DOMAIN trace.value[c] = 1 .. raw.turns[c]
         /\ \A t \in 1 .. raw.turns[c] : trace.value[c][t] > 0
=============================================================================
