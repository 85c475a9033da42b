------------------------------ MODULE Verdicts ------------------------------
(***************************************************************************)
(* What the benchmarks conclude: the reading of a needle's answer          *)
(* (racebench/needle.py), the needle test over HTTP (lfm25_http_needle.py),*)
(* the comparison and the verdict of a suite run in one process or in two  *)
(* (lfm25_benchsuite.py), and the final score (racebench/score.py,         *)
(* racebench/cli.py).                                                      *)
(*                                                                         *)
(* The text of an answer is a sequence of "code", the whole code, and of   *)
(* "letter", "digit", "tick", "space" and "other".                         *)
(***************************************************************************)
EXTENDS Workloads

\* strip: spaces at both ends.
Strip(text) ==
  LET inner == {i \in DOMAIN text : text[i] # "space"} IN
  IF inner = {} THEN <<>> ELSE SubSeq(text, Min(inner), Max(inner))

\* Mutant of EvaluateResponse: a longer number that starts as the code is taken for it.
EvaluateResponseLoose(text) ==
  LET plain == SelectSeq(Strip(text), LAMBDA piece : piece # "tick") IN
  [retrieved |-> \E i \in DOMAIN plain :
     /\ plain[i] = "code"
     /\ i > 1 => plain[i - 1] \notin {"letter", "digit"},
   exact |-> plain = <<"code">>]

\* evaluate_response; ticks go after the spaces at the ends have gone.
EvaluateResponse(text) ==
  LET plain == SelectSeq(Strip(text), LAMBDA piece : piece # "tick") IN
  [retrieved |-> \E i \in DOMAIN plain :
     /\ plain[i] = "code"
     /\ i > 1 => plain[i - 1] \notin {"letter", "digit"}
     /\ i < Len(plain) => plain[i + 1] # "digit",
   exact |-> plain = <<"code">>]

CountOf(rows, Holds(_)) == Len(SelectSeq(rows, Holds))

\* run_needle_probe: the answers to the needles of one candidate.
NeedleProbe(texts) ==
  [correct |-> CountOf(texts, LAMBDA text : EvaluateResponse(text).retrieved), total |-> Len(texts)]

-----------------------------------------------------------------------------
(* The needle test over HTTP. *)

\* args: lengths and positions of the needles, the tokens of an answer, and the
\* expected ids, <<>> or <<ids>>.
NeedleArguments(args) ==
  /\ args.lengths # <<>> /\ \A l \in ToSet(args.lengths) : l > 0
  /\ args.positions # <<>> /\ \A p \in ToSet(args.positions) : p \in 1 .. 99
  /\ args.tokens >= 1
  /\ args.expected # <<>> => args.expected[1] # <<>> /\ \A id \in ToSet(args.expected[1]) : id >= 0

\* run: every length with every position in turn; prompts[l] says if a prompt of that
\* length can be made, answers are the results of the requests.  A prompt that cannot
\* be made ends the run, and nothing is reported of the answers before it.
NeedleRun(args, prompts, answers) ==
  LET asked == FlattenSeq([i \in DOMAIN args.lengths |->
                 [j \in DOMAIN args.positions |-> <<args.lengths[i], args.positions[j]>>]])
      rows == [i \in DOMAIN asked |-> answers[asked[i]]]
  IN
  IF ~NeedleArguments(args) \/ \E i \in DOMAIN asked : ~prompts[asked[i][1]] THEN Rejected
  ELSE Taken([total |-> Len(rows),
              successful |-> CountOf(rows, LAMBDA row : row.succeeded),
              retrieved |-> CountOf(rows, LAMBDA row : EvaluateResponse(row.text).retrieved),
              exact |-> CountOf(rows, LAMBDA row : EvaluateResponse(row.text).exact),
              parity |-> CountOf(rows, LAMBDA row : args.expected = <<row.ids>>),
              parityTotal |-> IF args.expected = <<>> THEN 0 ELSE Len(rows)])

\* main: what the exit code is made of.
NeedleExit(run) ==
  IF run.rejected THEN 1 ELSE IF run.value.successful = run.value.total THEN 0 ELSE 2
-----------------------------------------------------------------------------
(* The verdict of a suite run.  A candidate is what was measured of it: the   *)
(* results of both phases, the logits of the fixed forward, and the texts of  *)
(* the needle's answers, <<>> if there were to be none.                       *)

Phase == {"warmup", "scored"}

\* token_output_parity, and the same of two reports: answers by their ids.
TokenOutputParity(eager, candidate) ==
  LET Ids(results) == {results[i].id : i \in DOMAIN results}
      Answer(results, id) ==
        IF id \in Ids(results)
        THEN <<results[Max({i \in DOMAIN results : results[i].id = id})].ids>> ELSE <<>>
      all == Ids(eager) \cup Ids(candidate)
      mismatches == {id \in all : Answer(eager, id) # Answer(candidate, id)}
  IN
  [equal |-> mismatches = {}, compared |-> Cardinality(Ids(eager) \cap Ids(candidate)),
   mismatches |-> mismatches]

\* engine_pass of the candidates that were measured, of a trace of expected requests.
EnginePassed(candidates, exact, expected) ==
  /\ exact /\ candidates # {}
  /\ \A c \in candidates, phase \in Phase :
       LET summary == SummaryCore(c[phase]) IN
       /\ summary.successful = summary.requests /\ summary.mismatches = 0
       /\ summary.requests = expected

\* needle_ok and process_ok: every needle of every probe, when they are required.
NeedlesFound(candidates) ==
  \A c \in candidates : c.needles # <<>> =>
    LET probe == NeedleProbe(c.needles[1]) IN probe.correct = probe.total

\* Mutant of ExitCode: needles that were skipped count as found.
ExitCodeSkipped(passed, options, candidates) ==
  IF passed /\ (options.require => NeedlesFound(candidates)) THEN 0 ELSE 1

ExitCode(passed, options, candidates) ==
  IF passed /\ (options.require => ~options.skip /\ NeedlesFound(candidates)) THEN 0 ELSE 1

\* main of one process, with both candidates or as a worker with one.
ProcessVerdict(candidates, requests, options) ==
  LET exact == \A c, d \in candidates : c.logits = d.logits IN
  ExitCode(EnginePassed(candidates, exact, requests), options, candidates)

\* _run_isolated: two workers, each with its own verdict, which are not told that the
\* needles are required, and then the combination of what they wrote;
\* _combine_existing is the combination alone, of files of any workers.
CombinedVerdict(eager, llmopt, options) ==
  ExitCode(EnginePassed({eager, llmopt}, eager.logits = llmopt.logits, Len(eager.scored)),
           options, {eager, llmopt})
IsolatedVerdict(eager, llmopt, requests, options) ==
  IF \E c \in {eager, llmopt} :
       ProcessVerdict({c}, requests, [skip |-> options.skip, require |-> FALSE]) # 0
  THEN 1
  ELSE CombinedVerdict(eager, llmopt, options)
-----------------------------------------------------------------------------
(* The final score, in units of 1 / 60 of a point; losses of accuracy in      *)
(* thousandths.                                                               *)

AccuracyFactor(delta) == IF delta <= 100 THEN 60 ELSE IF delta >= 160 THEN 0 ELSE 160 - delta
FinalScore(ers, delta) == ers * AccuracyFactor(delta)

\* command_compare: the best score first, equal ones as they came.
Ranking(scores) ==
  SortSeq([i \in DOMAIN scores |-> i],
          LAMBDA i, j : scores[i] > scores[j] \/ (scores[i] = scores[j] /\ i < j))
-----------------------------------------------------------------------------
\* An answer names the code if, ticks aside, no letter or digit stands before it and
\* no digit after it, wherever in the answer; an exact answer names it.
AnswerRight(text) ==
  LET is == EvaluateResponse(text)
      Near(i, j) ==
        /\ i # j /\ text[j] # "tick"
        /\ \A k \in (i + 1 .. j - 1) \cup (j + 1 .. i - 1) : text[k] = "tick"
  IN
  /\ is.exact => is.retrieved
  /\ is.retrieved <=> \E i \in DOMAIN text :
       /\ text[i] = "code"
       /\ \A j \in DOMAIN text : Near(i, j) =>
            IF j < i THEN text[j] \notin {"letter", "digit"} ELSE text[j] # "digit"

\* A needle run that ends well asked every length at every position, each request was
\* answered to its end, and its counts are of all of them; the exit code says nothing
\* of needles that were not found.
NeedleRunRight(args, prompts, answers) ==
  LET run == NeedleRun(args, prompts, answers) IN
  NeedleExit(run) = 0 =>
    /\ \A l \in ToSet(args.lengths), p \in ToSet(args.positions) : answers[<<l, p>>].succeeded
    /\ run.value.total = Len(args.lengths) * Len(args.positions)
    /\ run.value.exact <= run.value.retrieved
    /\ run.value.parityTotal > 0 /\ run.value.parity = run.value.total =>
         \A l \in ToSet(args.lengths), p \in ToSet(args.positions) : answers[<<l, p>>].ids = args.expected[1]

AllAnswered(c) ==
  \A r \in ToSet(c.warmup) \cup ToSet(c.scored) : r.succeeded /\ r.tokens = r.expected
AllFound(c) ==
  c.needles # <<>> /\ \A text \in ToSet(c.needles[1]) : EvaluateResponse(text).retrieved

\* Two isolated workers are judged as one process with both candidates would be, and
\* so are their files combined later, of a trace of that many requests.  One that
\* passed answered every request with the tokens it was asked for; and when needles
\* were required it looked for them and found them all.  The files of workers that
\* skipped the needles also pass, when they are combined without skipping them.
VerdictRight(eager, llmopt, requests, options) ==
  LET both == {eager, llmopt}
      together == ProcessVerdict(both, requests, options)
      combined == CombinedVerdict(eager, llmopt, options)
      own == \A c \in both : c.needles = <<>> <=> options.skip
  IN
  /\ IsolatedVerdict(eager, llmopt, requests, options) = together
  /\ Len(eager.scored) = requests => combined = together
  /\ combined = 0 => \A c \in both : AllAnswered(c)
  /\ combined = 0 /\ options.require /\ own => \A c \in both : AllFound(c)
  /\ combined = 0 /\ options.require => \A c \in both : AllFound(c) \/ c.needles = <<>>
  /\ \A phase \in Phase :
       LET parity == TokenOutputParity(eager[phase], llmopt[phase]) IN
       parity.equal <=> eager[phase] = llmopt[phase]

\* A suite passes, with the needles required, if both candidates found theirs.
NeedlesLookedFor(eager, llmopt, options) ==
  CombinedVerdict(eager, llmopt, options) = 0 /\ options.require =>
    AllFound(eager) /\ AllFound(llmopt)

\* A greater loss never raises a final score, and a ranking lists every report once.
RankingRight(scores) ==
  LET ranking == Ranking(scores) IN
  /\ \A d \in 80 .. 180 : \A s \in ToSet(scores) : FinalScore(s, d + 1) \in 0 .. FinalScore(s, d)
  /\ ToSet(ranking) = DOMAIN scores
  /\ \A i, j \in DOMAIN ranking : i < j =>
       \/ scores[ranking[i]] > scores[ranking[j]]
       \/ scores[ranking[i]] = scores[ranking[j]] /\ ranking[i] < ranking[j]
=============================================================================
