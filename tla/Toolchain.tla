----------------------------- MODULE Toolchain -----------------------------
(***************************************************************************)
(* The server, the Python programs around it and the files they hand over. *)
(* They share no state, so a behaviour is of one program, or of none: what *)
(* is only read and written, a file of some format or an entry of an       *)
(* engine, is a case of its own.                                           *)
(***************************************************************************)
EXTENDS Programs, ServeLoop, Codecs, InputFiles, FxCapture, EngineGraph, WeightBinding, Verdicts

CONSTANT Cases  \* what is read and written, each with the kind it is of

VARIABLE case   \* the case, or <<>> in a behaviour of a program

toolVars == <<case, programVars, serveVars>>

\* The behaviour is the server's.
Serving == focus = "none" /\ case = <<>>

ToolInit ==
  /\ ProgramsInit /\ ServeInit
  /\ case = <<>> \/ (focus = "none" /\ case \in Cases)

ServerStep(A) == Serving /\ A /\ UNCHANGED programVars

ToolNext ==
  /\ UNCHANGED case
  /\ (ProgramsNext /\ UNCHANGED serveVars) \/ ServerStep(ServeNext)

\* A client's threads run and its sockets time out, and the server's engine thread
\* runs; nothing else is owed.
FairToolSpec ==
  /\ ToolInit /\ [][ToolNext]_toolVars
  /\ \A c \in Conversation : WF_toolVars(focus = "trace" /\ ToolNext /\ ClientStep(c))
  /\ WF_toolVars(ServerStep(Engine) /\ UNCHANGED case)
-----------------------------------------------------------------------------
\* What one side writes to a file the other reads back: a graph, an archive of weights,
\* a row of W4 weights as near as its FP16 scale allows, and a tokenizer, in pieces of
\* any size; and a trace that is taken can be played to its end.
FilesReadBack ==
  case # <<>> =>
    CASE case.of = "graph" -> GraphReadsBack(case.is)
      [] case.of = "weights" -> ArchiveOpens(case.is) /\ ArchiveComplete(case.is)
      [] case.of = "row" -> WeightsClose(case.is)
      [] case.of = "tokenizer" -> TokenizerSurvives(case.is)
      [] case.of = "trace" -> TracePlayable(case.is)
      [] OTHER -> TRUE

\* A captured node is one the compiler takes, but for the three kinds it refuses, and
\* a graph whose inputs and outputs were renamed for the engine computes what was
\* captured, with its own weights.
GraphsKeepMeaning ==
  case # <<>> =>
    CASE case.of = "node" -> CaptureTaken(case.is.values, case.is.binding, case.is.shape)
      [] case.of = "entry" -> EntryRight(case.is)
      [] case.of = "binding" -> BindingRight(case.is.family, case.is.nodes, case.is.inventory)
      [] case.of = "model" -> CoverageRight(case.is.parameters, case.is.inventory)
      [] case.of = "augmented" -> AugmentedRight(case.is.gguf, case.is.constants)
      [] OTHER -> TRUE

\* What is measured means what it says: the warmup warms what is scored and is not
\* scored, the needle is where it was to be and its answer is read for the code alone,
\* scores and counts are of every request, and a ranking is of the scores.
MeasuresMean ==
  case # <<>> =>
    CASE case.of = "profile" -> ProfileRight(case.is)
      [] case.of = "needle" -> NeedleRight(case.is)
      [] case.of = "results" -> ScoresRight(case.is)
      [] case.of = "answer" -> AnswerRight(case.is)
      [] case.of = "needles" -> NeedleRunRight(case.is.args, case.is.prompts, case.is.answers)
      [] case.of = "ranking" -> RankingRight(case.is)
      [] OTHER -> TRUE

\* A suite gets one verdict, whether it is run in one process, in two, or combined
\* later from files, and it passes on what was measured.
VerdictsAgree ==
  case # <<>> /\ case.of = "verdict" =>
    VerdictRight(case.is.eager, case.is.llmopt, case.is.requests, case.is.options)

\* --require-needle makes "control-code retrieval part of the process exit status": a
\* suite that passes with it has found every needle.  The code breaks it: files of
\* workers that skipped the needles pass when they are combined without --skip-needle.
RequiredNeedlesFound ==
  case # <<>> /\ case.of = "verdict" =>
    NeedlesLookedFor(case.is.eager, case.is.llmopt, case.is.options)
=============================================================================
