------------------------------ MODULE Programs ------------------------------
(***************************************************************************)
(* The Python programs around the server: capture for the compiler, the    *)
(* benchmark clients, the benchmarks that drive llama.cpp, the benchmark   *)
(* suite and the serial jobs.  They share no state and are never composed, *)
(* so a behaviour is one of theirs: focus says whose, and the others stay  *)
(* at one initial state.                                                   *)
(***************************************************************************)
EXTENDS CaptureSession, TraceClient, BenchHost, ServerBench, ReportSet, SerialJob

VARIABLE focus  \* the program of the behaviour, or "none"

programVars == <<focus, captureVars, traceVars, hostVars, serverVars, reportVars, jobVars>>

\* A program that is not the behaviour's is at one of its initial states.
ProgramsInit ==
  /\ focus \in {"capture", "trace", "host", "server", "reports", "jobs", "none"}
  /\ CaptureInit
  /\ focus # "capture" => {c \in Call : calls[c].pc = "start"} = CHOOSE made \in Together : TRUE
  /\ TraceInit
  /\ focus # "trace" => mode = CHOOSE m \in Modes : TRUE
  /\ HostInit
  /\ focus # "host" => symlinked
  /\ ServerInit
  /\ focus # "server" => apart
  /\ ReportInit
  /\ focus # "reports" => overlap /\ \A r \in Run :
       ~runs[r].isolate /\ runs[r].order = CHOOSE order \in Order : TRUE
  /\ JobInit
  /\ focus # "jobs" => inTurn /\ kinds = [j \in Job |-> "listed"]

ProgramsNext ==
  /\ UNCHANGED focus
  /\ \/ /\ focus = "capture" /\ CaptureNext
        /\ UNCHANGED <<traceVars, hostVars, serverVars, reportVars, jobVars>>
     \/ /\ focus = "trace" /\ TraceNext
        /\ UNCHANGED <<captureVars, hostVars, serverVars, reportVars, jobVars>>
     \/ /\ focus = "host" /\ HostNext
        /\ UNCHANGED <<captureVars, traceVars, serverVars, reportVars, jobVars>>
     \/ /\ focus = "server" /\ ServerNext
        /\ UNCHANGED <<captureVars, traceVars, hostVars, reportVars, jobVars>>
     \/ /\ focus = "reports" /\ ReportNext
        /\ UNCHANGED <<captureVars, traceVars, hostVars, serverVars, jobVars>>
     \/ /\ focus = "jobs" /\ JobNext
        /\ UNCHANGED <<captureVars, traceVars, hostVars, serverVars, reportVars>>

ProgramsSpec == ProgramsInit /\ [][ProgramsNext]_programVars
-----------------------------------------------------------------------------
\* A benchmark client ends its trace even if the server falls silent in the middle
\* of an answer.
TracesFinish == focus = "trace" => TraceFinishes

\* What is measured is what was started for it, alone: no llama-cli runs beside the
\* measured one, no other server answers for a bench's own and no workload that is
\* known by its name runs beside another, but for the races MeasuredAlone, ServersOwn and JobsSerial name.
MeasurementsOwn == MeasuredAlone /\ ServersOwn /\ JobsSerial
=============================================================================
