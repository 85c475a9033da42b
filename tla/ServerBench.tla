---------------------------- MODULE ServerBench ----------------------------
(***************************************************************************)
(* llama_cpp_server_bench.py: start a llama-server on a port, wait until   *)
(* it is healthy, play a warmup trace and then the scored trace against    *)
(* the port, stop the server, write the reports.  Several benches may use  *)
(* the same port, together or one after the other.  SIGINT reaches the     *)
(* finally clause that stops the server, any other signal ends the bench   *)
(* where it is and its server lives on.                                    *)
(*                                                                         *)
(* A server that is starting takes the port if it is free, and ends if it  *)
(* is not.  What counts is whose server answers: the client knows the port *)
(* alone.  A phase is one playing of a trace, its answers are the owner of *)
(* the server that gave them, or "refused".                                *)
(***************************************************************************)
EXTENDS Naturals, Sequences, SequencesExt

CONSTANTS
  Bench,     \* the benches
  Phases     \* warmup, and the repeats of the scored trace

ASSUME ServerAssumption == Phases \in Nat \ {0, 1} /\ "refused" \notin Bench

VARIABLES
  apart,     \* does a bench start only when every other has ended or died
  benches,   \* each bench's step, and who answered each of its phases
  servers    \* each bench's server: "none", "starting", "bound" or "exited"

serverVars == <<apart, benches, servers>>

Over == {"done", "failed", "dead"}
Bound == {b \in Bench : servers[b] = "bound"}

ServerInit ==
  /\ apart \in BOOLEAN
  /\ benches = [b \in Bench |-> [pc |-> "start", phases |-> <<>>]]
  /\ servers = [b \in Bench |-> "none"]

Proceed(b, pc) == benches' = [benches EXCEPT ![b].pc = pc]
-----------------------------------------------------------------------------
\* _port_is_open: an open port is refused.
ProbePort(b) ==
  /\ benches[b].pc = "start"
  /\ apart => \A d \in Bench \ {b} : benches[d].pc \in Over \cup {"start"}
  /\ Proceed(b, IF Bound # {} THEN "failed" ELSE "probed")
  /\ UNCHANGED <<apart, servers>>

\* subprocess.Popen has returned, the try is not entered yet.
StartServer(b) ==
  /\ benches[b].pc = "probed"
  /\ servers' = [servers EXCEPT ![b] = "starting"]
  /\ Proceed(b, "spawned")
  /\ UNCHANGED apart

EnterTry(b) ==
  /\ benches[b].pc = "spawned"
  /\ Proceed(b, "waiting")
  /\ UNCHANGED <<apart, servers>>

\* The server has loaded its model: it listens, or another one does already.
Listen(b) ==
  /\ servers[b] = "starting"
  /\ servers' = [servers EXCEPT ![b] = IF Bound = {} THEN "bound" ELSE "exited"]
  /\ UNCHANGED <<apart, benches>>

ServerExits(b) ==
  /\ servers[b] \in {"starting", "bound"}
  /\ servers' = [servers EXCEPT ![b] = "exited"]
  /\ UNCHANGED <<apart, benches>>

\* _wait_until_ready: the process is looked at first, then the port's health.
Ready(b) ==
  /\ benches[b].pc = "waiting" /\ servers[b] # "exited" /\ Bound # {}
  /\ Proceed(b, "measuring")
  /\ UNCHANGED <<apart, servers>>

\* The server has ended, or startup_timeout is over.
NotReady(b) ==
  /\ benches[b].pc = "waiting"
  /\ Proceed(b, "giving up")
  /\ UNCHANGED <<apart, servers>>

\* _run_phase: a failed request is a result like any other, and the process is
\* not looked at again.
RunPhase(b) ==
  /\ benches[b].pc = "measuring" /\ Len(benches[b].phases) < Phases
  /\ \E answered \in IF Bound = {} THEN {"refused"} ELSE Bound :
       benches' = [benches EXCEPT ![b].phases = Append(@, answered)]
  /\ UNCHANGED <<apart, servers>>

\* The try is left after the last phase.
LeaveTry(b) ==
  /\ benches[b].pc = "measuring" /\ Len(benches[b].phases) = Phases
  /\ Proceed(b, "stopping")
  /\ UNCHANGED <<apart, servers>>

\* _stop in the finally: terminate, wait, kill.
StopServer(b) ==
  /\ benches[b].pc \in {"giving up", "stopping"}
  /\ servers' = [servers EXCEPT ![b] = "exited"]
  /\ Proceed(b, IF benches[b].pc = "giving up" THEN "failed" ELSE "stopped")
  /\ UNCHANGED apart

\* The first phase and the last one make the reports, the server being stopped.
WriteReports(b) ==
  /\ benches[b].pc = "stopped"
  /\ Proceed(b, "done")
  /\ UNCHANGED <<apart, servers>>

\* SIGINT: inside the try the finally stops the server.  Between Popen and the try,
\* and in the finally, nothing does any more: the server is left as if the bench had
\* been killed.
BenchInterrupted(b) ==
  /\ benches[b].pc \notin Over
  /\ Proceed(b, CASE benches[b].pc \in {"waiting", "measuring"} -> "giving up"
                  [] benches[b].pc \in {"spawned", "giving up", "stopping"} -> "dead"
                  [] OTHER -> "failed")
  /\ UNCHANGED <<apart, servers>>

\* Any other signal: no clause is reached.
BenchKilled(b) ==
  /\ benches[b].pc \notin Over
  /\ Proceed(b, "dead")
  /\ UNCHANGED <<apart, servers>>

ServerNext ==
  \/ \E b \in Bench : ProbePort(b)
  \/ \E b \in Bench : StartServer(b)
  \/ \E b \in Bench : EnterTry(b)
  \/ \E b \in Bench : Listen(b)
  \/ \E b \in Bench : ServerExits(b)
  \/ \E b \in Bench : Ready(b)
  \/ \E b \in Bench : NotReady(b)
  \/ \E b \in Bench : RunPhase(b)
  \/ \E b \in Bench : LeaveTry(b)
  \/ \E b \in Bench : StopServer(b)
  \/ \E b \in Bench : WriteReports(b)
  \/ \E b \in Bench : BenchInterrupted(b)
  \/ \E b \in Bench : BenchKilled(b)
-----------------------------------------------------------------------------
\* When benches run one after the other, a phase is answered by the bench's own
\* server or not at all, unless an earlier bench was killed, or interrupted outside
\* its try, and left its server still starting; even with benches side by side, once
\* its own server has answered no other does before that server has ended; and a
\* server outlives its bench only if the bench was killed or interrupted there.
ServersOwn ==
  \A b \in Bench :
    LET phases == benches[b].phases IN
    /\ apart => \A d \in ToSet(phases) \ {b, "refused"} : benches[d].pc = "dead"
    /\ \A i, j \in DOMAIN phases :
         i < j /\ phases[i] = b /\ phases[j] # b => servers[b] = "exited"
    /\ benches[b].pc \in {"done", "failed"} => servers[b] \in {"none", "exited"}
=============================================================================
