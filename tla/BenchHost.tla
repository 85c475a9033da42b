----------------------------- MODULE BenchHost -----------------------------
(***************************************************************************)
(* Benchmarks that must have the machine to themselves:                    *)
(* llama_cpp_speculative_bench.py and bench_prompt_lookup_speculative.py   *)
(* run llama-cli once per campaign, one benchmark at a time.  A file lock  *)
(* keeps two benchmarks apart, and a look at the process list refuses to   *)
(* start next to a llama-cli that an earlier benchmark left behind.        *)
(*                                                                         *)
(* A benchmark may be signalled or killed between any two steps: the lock  *)
(* goes with its process, the llama-cli, in a session of its own, does     *)
(* not.  A signal is met by whatever handlers and finally clauses enclose  *)
(* the step it falls on; those clauses themselves are one step.  A receipt *)
(* is a file that is replaced at once.  llama-clis that others start by    *)
(* hand are outside this model.                                            *)
(***************************************************************************)
EXTENDS Naturals

CONSTANTS
  Benchmark,   \* the benchmark processes
  Handling,    \* those of them that handle SIGTERM and clean up their temporary
  Campaigns    \* campaigns of each of the two modes

ASSUME HostAssumption ==
  Handling \subseteq Benchmark /\ Campaigns \in Nat \ {0}

VARIABLES
  symlinked,  \* is --llama-cli a symbolic link
  lock,       \* who holds the lock file: at most one
  benchmarks, \* each benchmark's step and the campaigns it has the results of
  llamas,     \* the llama-clis that are alive: the benchmark and campaign of each
  receipt,    \* whose results the receipt holds, and how many
  temporaries \* the benchmarks whose temporary receipt lies in the directory

hostVars == <<symlinked, lock, benchmarks, llamas, receipt, temporaries>>

\* Killed a benchmark is "dead"; "cut" if a signal escaped the clause that
\* would have ended its llama-cli or removed its temporary.
Gone == {"done", "failed", "cut", "dead"}
Llama(b) == [of |-> b, campaign |-> benchmarks[b].campaigns + 1]

HostInit ==
  /\ symlinked \in BOOLEAN
  /\ lock = {} /\ llamas = {} /\ temporaries = {}
  /\ benchmarks = [b \in Benchmark |-> [pc |-> "start", campaigns |-> 0]]
  /\ receipt = [of |-> {}, results |-> 0]

GoOn(b, pc) == benchmarks' = [benchmarks EXCEPT ![b].pc = pc]
-----------------------------------------------------------------------------
\* flock without waiting: the second benchmark is refused.
AcquireLock(b) ==
  /\ benchmarks[b].pc = "start"
  /\ IF lock = {} THEN lock' = {b} /\ GoOn(b, "locked")
     ELSE GoOn(b, "failed") /\ UNCHANGED lock
  /\ UNCHANGED <<symlinked, llamas, receipt, temporaries>>

\* Mutant of FindRunning: nobody looks at the process list.
FindRunningNot(b) ==
  /\ benchmarks[b].pc = "locked"
  /\ GoOn(b, "ready")
  /\ UNCHANGED <<symlinked, lock, llamas, receipt, temporaries>>

\* A llama-cli in the process list, a ps that fails or a model file that is not
\* there end the benchmark.  ps shows the path a llama-cli was started with and
\* it is compared with the resolved one: one started through a symbolic link is
\* not seen.
FindRunning(b) ==
  /\ benchmarks[b].pc = "locked"
  /\ \/ (llamas = {} \/ symlinked) /\ GoOn(b, "ready") /\ UNCHANGED lock
     \/ GoOn(b, "failed") /\ lock' = lock \ {b}
  /\ UNCHANGED <<symlinked, llamas, receipt, temporaries>>

\* subprocess.Popen has returned, _ACTIVE_CHILD is not assigned yet.
Spawn(b) ==
  /\ benchmarks[b].pc = "ready" /\ benchmarks[b].campaigns < 2 * Campaigns
  /\ llamas' = llamas \cup {Llama(b)}
  /\ GoOn(b, "spawned")
  /\ UNCHANGED <<symlinked, lock, receipt, temporaries>>

Activate(b) ==
  /\ benchmarks[b].pc = "spawned"
  /\ GoOn(b, "measuring")
  /\ UNCHANGED <<symlinked, lock, llamas, receipt, temporaries>>

\* communicate returns: exit code 0 and a timing make a result, else main
\* raises and its finally closes the lock.
Exits(b) ==
  /\ benchmarks[b].pc = "measuring"
  /\ llamas' = llamas \ {Llama(b)}
  /\ \/ /\ benchmarks' = [benchmarks EXCEPT ![b].pc = "ready", ![b].campaigns = @ + 1]
        /\ UNCHANGED lock
     \/ GoOn(b, "failed") /\ lock' = lock \ {b}
  /\ UNCHANGED <<symlinked, receipt, temporaries>>

\* timeout_seconds are over: SIGTERM to the llama-cli's process group.
CampaignTimesOut(b) ==
  /\ benchmarks[b].pc = "measuring"
  /\ GoOn(b, "terminating")
  /\ UNCHANGED <<symlinked, lock, llamas, receipt, temporaries>>

\* It ends within the grace period or is killed, and is waited for, in the except
\* clauses of run_llama_cli or in the handler.
Reaped(b) ==
  /\ benchmarks[b].pc \in {"terminating", "stopping"}
  /\ llamas' = llamas \ {Llama(b)}
  /\ GoOn(b, "failed") /\ lock' = lock \ {b}
  /\ UNCHANGED <<symlinked, receipt, temporaries>>

\* The report is made and its NamedTemporaryFile created, or making it fails.
CreateTemporary(b) ==
  /\ benchmarks[b].pc = "ready" /\ benchmarks[b].campaigns = 2 * Campaigns
  /\ \/ temporaries' = temporaries \cup {b} /\ GoOn(b, "created") /\ UNCHANGED lock
     \/ GoOn(b, "failed") /\ lock' = lock \ {b} /\ UNCHANGED temporaries
  /\ UNCHANGED <<symlinked, llamas, receipt>>

\* temp_path is assigned: from here on the finally clause finds the file.
WriteTemporary(b) ==
  /\ benchmarks[b].pc = "created"
  /\ GoOn(b, "written")
  /\ UNCHANGED <<symlinked, lock, llamas, receipt, temporaries>>

ReplaceReceipt(b) ==
  /\ benchmarks[b].pc = "written"
  /\ receipt' = [of |-> {b}, results |-> benchmarks[b].campaigns]
  /\ temporaries' = temporaries \ {b}
  /\ GoOn(b, "done") /\ lock' = lock \ {b}
  /\ UNCHANGED <<symlinked, llamas>>

\* SIGINT raises where the benchmark is.  communicate is enclosed by the except that
\* terminates the llama-cli; that except is enclosed by nothing, a llama-cli not yet
\* given to communicate is in nobody's hands, and a temporary without a temp_path
\* neither.  Elsewhere the finallys remove the temporary and close the lock.
Interrupted(b) ==
  /\ benchmarks[b].pc \notin Gone
  /\ \/ /\ benchmarks[b].pc \in {"measuring", "stopping"}
        /\ GoOn(b, "terminating") /\ UNCHANGED <<lock, temporaries>>
     \/ /\ benchmarks[b].pc \in {"spawned", "terminating", "created"}
        /\ GoOn(b, "cut") /\ lock' = lock \ {b} /\ UNCHANGED temporaries
     \/ /\ benchmarks[b].pc \in {"start", "locked", "ready", "written"}
        /\ GoOn(b, "failed") /\ lock' = lock \ {b}
        /\ temporaries' = temporaries \ ({b} \cap Handling)
  /\ UNCHANGED <<symlinked, llamas, receipt>>

\* SIGTERM or SIGHUP with handlers: _handle_shutdown_signal terminates and waits for
\* the llama-cli in _ACTIVE_CHILD before it raises.  One that is being terminated
\* already is only terminated again.
Terminated(b) ==
  /\ b \in Handling
  /\ \/ /\ benchmarks[b].pc = "measuring"
        /\ GoOn(b, "stopping") /\ UNCHANGED <<lock, temporaries>>
     \/ /\ benchmarks[b].pc \in {"spawned", "created"}
        /\ GoOn(b, "cut") /\ lock' = lock \ {b} /\ UNCHANGED temporaries
     \/ /\ benchmarks[b].pc \in {"start", "locked", "ready", "written"}
        /\ GoOn(b, "failed") /\ lock' = lock \ {b} /\ temporaries' = temporaries \ {b}
  /\ UNCHANGED <<symlinked, llamas, receipt>>

\* SIGKILL, or SIGTERM or SIGHUP without handlers: only the lock is released.
Killed(b) ==
  /\ benchmarks[b].pc \notin Gone
  /\ GoOn(b, "dead") /\ lock' = lock \ {b}
  /\ UNCHANGED <<symlinked, llamas, receipt, temporaries>>

\* A llama-cli that outlived its benchmark ends by itself.
OrphanExits(l) ==
  /\ l \in llamas /\ benchmarks[l.of].pc \in Gone
  /\ llamas' = llamas \ {l}
  /\ UNCHANGED <<symlinked, lock, benchmarks, receipt, temporaries>>

HostNext ==
  \/ \E b \in Benchmark : AcquireLock(b)
  \/ \E b \in Benchmark : FindRunning(b)
  \/ \E b \in Benchmark : Spawn(b)
  \/ \E b \in Benchmark : Activate(b)
  \/ \E b \in Benchmark : Exits(b)
  \/ \E b \in Benchmark : CampaignTimesOut(b)
  \/ \E b \in Benchmark : Reaped(b)
  \/ \E b \in Benchmark : CreateTemporary(b)
  \/ \E b \in Benchmark : WriteTemporary(b)
  \/ \E b \in Benchmark : ReplaceReceipt(b)
  \/ \E b \in Benchmark : Interrupted(b)
  \/ \E b \in Benchmark : Terminated(b)
  \/ \E b \in Benchmark : Killed(b)
  \/ \E l \in llamas : OrphanExits(l)
-----------------------------------------------------------------------------
\* While a campaign is measured its llama-cli is the only one alive, whatever
\* was signalled or killed before, unless the executable is a symbolic link; a
\* benchmark that ended by itself, or by signals that all found its clauses, leaves
\* none behind; a receipt is always that of a benchmark with the results of all its
\* campaigns; and a temporary receipt is left only by a benchmark that was killed
\* or cut off or that never cleans up.
MeasuredAlone ==
  /\ \A b \in Benchmark : benchmarks[b].pc = "measuring" /\ ~symlinked => llamas = {Llama(b)}
  /\ \A l \in llamas : benchmarks[l.of].pc \notin {"done", "failed"} /\ l = Llama(l.of)
  /\ receipt.of # {} => receipt.results = 2 * Campaigns
  /\ \A b \in temporaries :
       benchmarks[b].pc \in {"created", "written", "cut", "dead"} \/ b \notin Handling
=============================================================================
