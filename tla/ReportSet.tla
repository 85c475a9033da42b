----------------------------- MODULE ReportSet -----------------------------
(***************************************************************************)
(* lfm25_benchsuite.py --isolate: a run measures eager PyTorch and llmopt  *)
(* in a worker process each, one after the other, and combines what the    *)
(* workers leave in the artifact directory: two reports and a result per   *)
(* candidate.  --combine-existing combines what it finds there.            *)
(*                                                                         *)
(* All runs use one directory, so files of earlier runs lie there, and the *)
(* archive of an earlier llmopt worker makes every later one fail (the     *)
(* module CaptureSession).  A run may be killed, and its worker then goes  *)
(* on without it; a worker may crash between two of its files, or within   *)
(* one.  What a file holds is the run of the worker that wrote it.         *)
(***************************************************************************)
EXTENDS Naturals, Sequences, SequencesExt

CONSTANTS
  Runs,      \* the number of invocations, started in order
  Digests    \* of the logits of the fixed forward

ASSUME ReportAssumption == Runs \in Nat \ {0} /\ Digests # {}

VARIABLES
  overlap,   \* may a run start while another run or its worker is at work
  runs,      \* each run's kind and order, its step and the results it has read
  workers,   \* of each run and candidate: the worker's step and outcome
  files,     \* the run whose worker wrote each file, 0: absent or cut off
  sealed,    \* does graphs/weights.llmopt exist
  top        \* the top-level result: whose, from what, and its exit code

reportVars == <<overlap, runs, workers, files, sealed, top>>

Run == 1 .. Runs
Candidate == {"eager", "llmopt"}
File == {"warmup", "report", "result"}
Order == {<<"eager", "llmopt">>, <<"llmopt", "eager">>}

NewWorker == [pc |-> "none", passed |-> FALSE, digest |-> "none"]

ReportInit ==
  /\ overlap \in BOOLEAN
  /\ \E isolated \in SUBSET Run, order \in Order :
       runs = [r \in Run |-> [isolate |-> r \in isolated, order |-> order,
                              pc |-> "start", results |-> <<>>]]
  /\ workers = [r \in Run |-> [c \in Candidate |-> NewWorker]]
  /\ files = [c \in Candidate |-> [f \in File |-> 0]]
  /\ sealed = FALSE
  /\ top = [of |-> 0, results |-> {}, reports |-> {}, exit |-> 1]

AtWork(r) ==
  \/ runs[r].pc \notin {"start", "done", "failed", "dead"}
  \/ \E c \in Candidate : workers[r][c].pc \notin {"none", "ended", "crashed"}

\* The candidate whose result the run wants next.
Wanted(r) == runs[r].order[Len(runs[r].results) + 1]
Fail(r) == runs' = [runs EXCEPT ![r].pc = "failed"]

\* The result is read; after the second one the reports are.
TakeResult(r, next) ==
  runs' = [runs EXCEPT ![r].results = Append(@, files[Wanted(r)]["result"]),
                       ![r].pc = IF runs[r].results = <<>> THEN next ELSE "combine"]
-----------------------------------------------------------------------------
StartRun(r) ==
  /\ runs[r].pc = "start" /\ \A q \in 1 .. r - 1 : runs[q].pc # "start"
  /\ ~overlap => \A q \in Run : ~AtWork(q)
  /\ runs' = [runs EXCEPT ![r].pc = IF runs[r].isolate THEN "spawn" ELSE "read"]
  /\ UNCHANGED <<overlap, workers, files, sealed, top>>

SpawnWorker(r) ==
  /\ runs[r].pc = "spawn"
  /\ workers' = [workers EXCEPT ![r][Wanted(r)].pc = "measuring"]
  /\ runs' = [runs EXCEPT ![r].pc = "waiting"]
  /\ UNCHANGED <<overlap, files, sealed, top>>

\* Mutant of CollectResult: a result that is there is taken.
CollectResultPresent(r) ==
  /\ runs[r].pc = "waiting" /\ workers[r][Wanted(r)].pc \in {"ended", "crashed"}
  /\ IF files[Wanted(r)]["result"] # 0 THEN TakeResult(r, "spawn") ELSE Fail(r)
  /\ UNCHANGED <<overlap, workers, files, sealed, top>>

\* The worker's exit code is 0 if it got to its end and its engine_pass held.
CollectResult(r) ==
  LET worker == workers[r][Wanted(r)] IN
  /\ runs[r].pc = "waiting" /\ worker.pc \in {"ended", "crashed"}
  /\ IF worker.pc = "ended" /\ worker.passed /\ files[Wanted(r)]["result"] # 0
     THEN TakeResult(r, "spawn") ELSE Fail(r)
  /\ UNCHANGED <<overlap, workers, files, sealed, top>>

\* _combine_existing: a missing result is an error, a failed one is not.
ReadExisting(r) ==
  /\ runs[r].pc = "read"
  /\ IF files[Wanted(r)]["result"] # 0 THEN TakeResult(r, "read") ELSE Fail(r)
  /\ UNCHANGED <<overlap, workers, files, sealed, top>>

\* Every request of every candidate succeeded with the tokens it was asked for,
\* and the logits of the fixed forward agree.
EnginePass(measured) ==
  /\ \A worker \in measured : worker.passed
  /\ \A v, w \in measured : v.digest = w.digest

\* The reports are read from the paths that the results name.
Combine(r) ==
  LET reports == {files[c][f] : c \in Candidate, f \in {"warmup", "report"}}
      measured == {workers[runs[r].results[i]][runs[r].order[i]] : i \in 1 .. 2}
  IN
  /\ runs[r].pc = "combine"
  /\ IF 0 \in reports THEN Fail(r) /\ UNCHANGED top
     ELSE /\ top' = [of |-> r, results |-> ToSet(runs[r].results), reports |-> reports,
                     exit |-> IF EnginePass(measured) THEN 0 ELSE 1]
          /\ runs' = [runs EXCEPT ![r].pc = "done"]
  /\ UNCHANGED <<overlap, workers, files, sealed>>

RunKilled(r) ==
  /\ runs[r].pc \notin {"start", "done", "failed", "dead"}
  /\ runs' = [runs EXCEPT ![r].pc = "dead"]
  /\ UNCHANGED <<overlap, workers, files, sealed, top>>

\* Both traces are played.  An llmopt worker compiles into graphs/: if another
\* sealed its archive every request fails, and so will the fixed forward.
Measure(r, c) ==
  LET refused == c = "llmopt" /\ sealed IN
  /\ workers[r][c].pc = "measuring"
  /\ \E passed \in IF refused THEN {FALSE} ELSE BOOLEAN :
       \E digest \in IF refused THEN {"none"} ELSE Digests :
         workers' = [workers EXCEPT ![r][c] =
                       [pc |-> "warmup", passed |-> passed, digest |-> digest]]
  /\ sealed' = (sealed \/ c = "llmopt")
  /\ UNCHANGED <<overlap, runs, files, top>>

\* warmup.json, report.json, then the fixed forward, then result.json.
WriteFile(r, c) ==
  LET worker == workers[r][c] IN
  /\ worker.pc \in {"warmup", "report", "result"}
  /\ worker.pc = "result" => worker.digest # "none"
  /\ files' = [files EXCEPT ![c][worker.pc] = r]
  /\ workers' = [workers EXCEPT ![r][c].pc =
       CASE worker.pc = "warmup" -> "report"
         [] worker.pc = "report" -> "result"
         [] worker.pc = "result" -> "ended"]
  /\ UNCHANGED <<overlap, runs, sealed, top>>

\* Between two files, or with one opened and not written.
WorkerCrashes(r, c) ==
  /\ workers[r][c].pc \notin {"none", "ended", "crashed"}
  /\ workers' = [workers EXCEPT ![r][c].pc = "crashed"]
  /\ \/ UNCHANGED files
     \/ /\ workers[r][c].pc # "measuring"
        /\ files' = [files EXCEPT ![c][workers[r][c].pc] = 0]
  /\ UNCHANGED <<overlap, runs, sealed, top>>

ReportNext ==
  \/ \E r \in Run : StartRun(r)
  \/ \E r \in Run : SpawnWorker(r)
  \/ \E r \in Run : CollectResult(r)
  \/ \E r \in Run : ReadExisting(r)
  \/ \E r \in Run : Combine(r)
  \/ \E r \in Run : RunKilled(r)
  \/ \E r \in Run, c \in Candidate : Measure(r, c)
  \/ \E r \in Run, c \in Candidate : WriteFile(r, c)
  \/ \E r \in Run, c \in Candidate : WorkerCrashes(r, c)
-----------------------------------------------------------------------------
\* A top-level result of an isolated run that no other run or orphaned worker
\* overlapped rests on the results and reports of its own two workers alone,
\* whatever files of failed or killed runs lie in the directory; and any
\* top-level result, a combination of existing files too, has exit code 0 only
\* if the worker of every result it rests on passed.
CombinedFresh ==
  top.of # 0 =>
    /\ runs[top.of].isolate /\ ~overlap => top.results = {top.of} /\ top.reports = {top.of}
    /\ top.exit = 0 =>
         \A i \in 1 .. 2 :
           workers[runs[top.of].results[i]][runs[top.of].order[i]].passed
=============================================================================
