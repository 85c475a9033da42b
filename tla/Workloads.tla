------------------------------ MODULE Workloads ------------------------------
(***************************************************************************)
(* What the benchmarks ask and how they rate the answers: the built-in     *)
(* workload profiles (racebench/profiles.py) with the check of a warmup    *)
(* against what it warms up for (racebench/trace.py), the prompts of the   *)
(* needle test (racebench/needle.py), and the scores and summaries         *)
(* (racebench/score.py, racebench/benchmark.py).                           *)
(*                                                                         *)
(* A text is what it is made from, a time offset its place in the list of  *)
(* offsets; latencies are whole milliseconds and NoLatency stands for      *)
(* None.                                                                   *)
(***************************************************************************)
EXTENDS InputFiles

CONSTANT Rounds  \* tries to fit a needle prompt (64)
ASSUME RoundsAssumption == Rounds \in Nat \ {0}
-----------------------------------------------------------------------------
(* Profiles. *)

Records(of, topic, count) == [of |-> of, topic |-> topic, entries |-> count]
TurnQuestion(topic, turn, variant) ==
  [marker |-> variant, round |-> turn + 1, asks |-> turn % 3, topic |-> topic]

\* The number of the topic, and of the case that is made of it.
OfficialTopic(index) == <<index % 5, index + 1>>

\* One conversation for each topic, three turns.
Semantic(variant) ==
  LET topic(c) == <<c - 1>> IN
  [model |-> "lfm2.5", request |-> "greedy",
   shared |-> Records(<<"SHARED", variant>>, <<>>, 22),
   prefixes |-> [c \in 1 .. 5 |-> Records(<<"CASE", variant, c>>, topic(c), 20)],
   messages |-> [c \in 1 .. 5 |-> [t \in 1 .. 3 |-> TurnQuestion(topic(c), t - 1, variant)]],
   tokens |-> [c \in 1 .. 5 |-> <<300, 300, 300>>],
   offsets |-> [c \in 1 .. 5 |-> c - 1]]

\* Topics come back, every time as another case; questions too, in another round.
Official(variant) ==
  LET topic(c) == OfficialTopic(c - 1) IN
  [model |-> "lfm2.5", request |-> "greedy",
   shared |-> Records(<<"OFFICIAL-SHARED", variant>>, <<>>, 22),
   prefixes |-> [c \in 1 .. 70 |-> Records(<<"OFFICIAL", variant, c>>, topic(c), 20)],
   messages |-> [c \in 1 .. 70 |-> [t \in 1 .. 6 |-> TurnQuestion(topic(c), t - 1, variant)]],
   tokens |-> [c \in 1 .. 70 |-> [t \in 1 .. 6 |-> 300]],
   offsets |-> [c \in 1 .. 70 |-> c - 1]]

Profile(name, variant) ==
  CASE name = "semantic-5x3" -> Semantic(variant)
    [] name = "official-shape-70x6" -> Official(variant)

\* The length of a conversation is that of the first one.
Shape(trace) ==
  <<trace.model, Len(trace.messages), Len(trace.messages[1]), trace.tokens, trace.offsets, trace.request>>

\* validate_warmup_traces, and before it the comparison of two trace files.
WarmupMatches(scored, warmup, matched) == matched => Shape(warmup) = Shape(scored)
WarmupAllowed(scored, warmup, matched) ==
  scored # warmup /\ WarmupMatches(scored, warmup, matched)
-----------------------------------------------------------------------------
(* Needle prompts.  The corpus is long enough; count[n] is how many tokens   *)
(* the tokenizer renders the prompt with n tokens of corpus after the needle *)
(* to, which need not be their sum.                                          *)

\* delta is the correction of the tokens after the needle.  Accepted is the tokens
\* before and after it.
ExactNaturalMessages(target, percent, fixed, count) ==
  LET wanted == target - fixed
      before == (wanted * percent) \div 100
      after(delta) == Max({0, wanted - before + delta})
      distance(delta) == IF count[after(delta)] > target THEN count[after(delta)] - target
                         ELSE target - count[after(delta)]
      next(delta) == delta + target - count[after(delta)]
      \* the deltas tried so far; a delta that was tried before ends the search
      tried[n \in 1 .. Rounds] ==
        IF n = 1 THEN <<0>>
        ELSE LET deltas == tried[n - 1]  last == Last(deltas) IN
             IF Len(deltas) < n - 1 \/ distance(last) = 0 \/ next(last) \in ToSet(Front(deltas))
             THEN deltas ELSE Append(deltas, next(last))
      all == tried[Rounds]
      best == CHOOSE i \in DOMAIN all :
                /\ \A j \in DOMAIN all : distance(all[i]) <= distance(all[j])
                /\ \A j \in 1 .. i - 1 : distance(all[j]) > distance(all[i])
  IN
  IF wanted <= 0 \/ distance(all[best]) > 2 THEN Rejected
  ELSE Taken([before |-> before, after |-> after(all[best]), tried |-> {after(d) : d \in ToSet(all)}])
-----------------------------------------------------------------------------
(* Scores are counted in units of 1 / FullScore. *)

NoLatency == -1
TtftSpan == 400 - 10
TpotSpan == 10 - 1
FullScore == 2 * TtftSpan * TtftSpan * TpotSpan * TpotSpan

Clamp(value, high) == IF value < 0 THEN 0 ELSE IF value > high THEN high ELSE value
LatencyComponent(observed, ceiling, span) == Clamp(ceiling - observed, span) ^ 2

RequestScore(r) ==
  IF ~r.succeeded \/ r.tokens <= 0 \/ NoLatency \in {r.ttft, r.tpot} THEN 0
  ELSE TpotSpan * TpotSpan * LatencyComponent(r.ttft, 400, TtftSpan)
         + TtftSpan * TtftSpan * LatencyComponent(r.tpot, 10, TpotSpan)

\* part-th parts of whole of the way through the sorted values, times whole.
Percentile(values, part, whole) ==
  LET ordered == SortSeq(values, <)
      position == (Len(values) - 1) * part
      low == ordered[(position \div whole) + 1]
      over == position % whole
  IN  IF over = 0 THEN low * whole
      ELSE low * (whole - over) + ordered[(position \div whole) + 2] * over

\* _summary_core: every request counts for the score, only those that succeeded
\* for the latencies and the mismatches.
SummaryCore(results) ==
  LET successful == SelectSeq(results, LAMBDA r : r.succeeded) IN
  [requests |-> Len(results), successful |-> Len(successful),
   mismatches |-> Len(SelectSeq(successful, LAMBDA r : r.tokens # r.expected)),
   score |-> FoldLeft(LAMBDA sum, r : sum + RequestScore(r), 0, results),
   ttfts |-> SelectSeq([i \in DOMAIN successful |-> successful[i].ttft],
                       LAMBDA ttft : ttft # NoLatency)]

ByTurn(results) ==
  [turn \in {r.turn : r \in ToSet(results)} |->
    SummaryCore(SelectSeq(results, LAMBDA r : r.turn = turn))]
-----------------------------------------------------------------------------
RawOf(trace) ==
  [turns |-> [c \in DOMAIN trace.messages |-> Len(trace.messages[c])],
   prefixes |-> Len(trace.prefixes), offsets |-> Len(trace.offsets),
   declaredConversations |-> <<>>, declaredTurns |-> <<>>, declaredTotal |-> <<>>,
   tokens |-> [form |-> "rows", rows |-> trace.tokens]]

PartsOf(trace) ==
  {trace.shared} \cup ToSet(trace.prefixes) \cup UNION {ToSet(m) : m \in ToSet(trace.messages)}

\* A profile and its warmup are traces a client takes, of the same shape, and have no
\* text in common, so a warm prefix cache knows nothing of what is scored; nor do two
\* conversations of one trace beyond the shared prefix.
ProfileRight(name) ==
  LET scored == Profile(name, "scored")  warmup == Profile(name, "warmup") IN
  /\ WarmupAllowed(scored, warmup, TRUE)
  /\ PartsOf(scored) \cap PartsOf(warmup) = {}
  /\ \A trace \in {scored, warmup} :
       /\ FromDict(RawOf(trace)) = Taken(trace.tokens)
       /\ IsInjective(trace.prefixes)
       /\ \A c, d \in DOMAIN trace.messages : c # d =>
            ToSet(trace.messages[c]) \cap ToSet(trace.messages[d]) = {}
       /\ \A messages \in ToSet(trace.messages) : IsInjective(messages)

\* A needle prompt is at most two tokens off its length, no prompt that was tried was
\* nearer, and the needle stays in the place it was given; the exact length is found
\* if the tokenizer is off by the same number of tokens for every prompt.  Here it is
\* off by extra for every every-th length, from the length at on.
NeedleRight(n) ==
  LET wanted == n.target - n.fixed
      before == (wanted * n.percent) \div 100
      count == [after \in Nat |->
        n.fixed + before + after + (IF (after + n.at) % n.every = 0 THEN n.extra ELSE 0)]
      prompt == ExactNaturalMessages(n.target, n.percent, n.fixed, count)
      off(after) == IF count[after] > n.target THEN count[after] - n.target
                    ELSE n.target - count[after]
  IN
  /\ ~prompt.rejected =>
       /\ off(prompt.value.after) <= 2
       /\ \A after \in prompt.value.tried : off(prompt.value.after) <= off(after)
       /\ 100 * prompt.value.before \in wanted * n.percent - 99 .. wanted * n.percent
  /\ n.every = 1 /\ wanted > 0 /\ wanted - before >= n.extra =>
       ~prompt.rejected /\ off(prompt.value.after) = 0

\* The score of a trace is that of its turns together, a request that failed counts
\* in it as nothing, a shorter latency never lowers it, and the percentiles lie in
\* their order between the least and the greatest latency.
ScoresRight(results) ==
  LET all == SummaryCore(results)
      turns == ByTurn(results)
      Sum(Of(_)) == FoldLeft(LAMBDA sum, t : sum + Of(turns[t]), 0, SetToSeq(DOMAIN turns))
      Faster(r, by) == [r EXCEPT !.ttft = IF @ > by THEN @ - by ELSE @]
  IN
  /\ Sum(LAMBDA s : s.requests) = all.requests /\ Sum(LAMBDA s : s.successful) = all.successful
  /\ Sum(LAMBDA s : s.mismatches) = all.mismatches /\ Sum(LAMBDA s : s.score) = all.score
  /\ all.score \in 0 .. all.successful * FullScore
  /\ \A i \in DOMAIN results : \A by \in {1, 150} :
       SummaryCore([results EXCEPT ![i] = Faster(@, by)]).score >= all.score
  /\ all.ttfts # <<>> =>
       /\ 20 * Min(ToSet(all.ttfts)) <= Percentile(all.ttfts, 10, 20)
       /\ Percentile(all.ttfts, 10, 20) <= Percentile(all.ttfts, 19, 20)
       /\ Percentile(all.ttfts, 19, 20) <= 20 * Max(ToSet(all.ttfts))
=============================================================================
