------------------------------ MODULE SerialJob ------------------------------
(***************************************************************************)
(* run_serial_job.py: wait until no other heavy workload runs, run one     *)
(* command with a time limit, and keep a receipt of what became of it.     *)
(* Workloads are known by the names of their programs, or of the Python    *)
(* script they run; a job itself is a Python with its command's words, so  *)
(* a job that is to run such a script is taken for that workload.  Several *)
(* jobs may be invoked at a time; their commands are the only workloads    *)
(* here.  A command that is killed may take its time to end, and nothing   *)
(* handles a signal to the job itself.                                     *)
(***************************************************************************)
EXTENDS Naturals, FiniteSets

CONSTANT Job

VARIABLES
  kinds,     \* each job's command: a "listed" program, a listed Python "script" or an "other"
  inTurn,    \* does a job look for workloads only when no other one is about to start
  jobs,      \* each job's step and the status it will write
  children,  \* each job's command: "none", "running", "ended" or "reaped"
  receipts   \* the status in each job's receipt

jobVars == <<kinds, inTurn, jobs, children, receipts>>

JobOver == {"done", "refused", "dead"}
Workloads == {j \in Job : kinds[j] # "other" /\ children[j] = "running"}

\* The jobs of listed scripts that ps shows, and those it shows if they have been
\* invoked already.
Scripts == {j \in Job : kinds[j] = "script" /\ jobs[j].pc \notin JobOver}
Invoked == {j \in Scripts : jobs[j].pc = "start"}

\* The others that active_workloads finds for a job.
Active(j) == (Workloads \cup (Scripts \ Invoked)) \ {j}

JobInit ==
  /\ kinds \in [Job -> {"listed", "script", "other"}]
  /\ inTurn \in BOOLEAN
  /\ jobs = [j \in Job |-> [pc |-> "start", status |-> "running"]]
  /\ children = [j \in Job |-> "none"]
  /\ receipts = [j \in Job |-> "none"]

Step(j, pc) == jobs' = [jobs EXCEPT ![j].pc = pc]
Outcome(j, status) == jobs' = [jobs EXCEPT ![j].pc = "report", ![j].status = status]
-----------------------------------------------------------------------------
\* Looked at every two seconds, for ten minutes at most.
LookForWorkloads(j) ==
  /\ jobs[j].pc \in {"start", "waiting"}
  /\ inTurn => \A k \in Job : jobs[k].pc # "clear"
  /\ \/ Active(j) = {} /\ Step(j, "clear")
     \/ /\ Active(j) \cup (Invoked \ {j}) # {}
        /\ Step(j, "waiting") \/ (jobs[j].pc = "waiting" /\ Step(j, "refused"))
  /\ UNCHANGED <<kinds, inTurn, children, receipts>>

SpawnCommand(j) ==
  /\ jobs[j].pc = "clear"
  /\ children' = [children EXCEPT ![j] = "running"]
  /\ Step(j, "spawned")
  /\ UNCHANGED <<kinds, inTurn, receipts>>

WriteRunning(j) ==
  /\ jobs[j].pc = "spawned"
  /\ receipts' = [receipts EXCEPT ![j] = "running"]
  /\ Step(j, "supervising")
  /\ UNCHANGED <<kinds, inTurn, children>>

CommandEnds(j) ==
  /\ children[j] = "running"
  /\ children' = [children EXCEPT ![j] = "ended"]
  /\ UNCHANGED <<kinds, inTurn, jobs, receipts>>

\* wait returns: before the time limit with an exit code, after it whatever the code.
Wait(j) ==
  /\ jobs[j].pc \in {"supervising", "terminating", "killing"} /\ children[j] = "ended"
  /\ children' = [children EXCEPT ![j] = "reaped"]
  /\ IF jobs[j].pc = "supervising" THEN Outcome(j, "passed") \/ Outcome(j, "failed")
     ELSE Outcome(j, "timed_out_and_reaped")
  /\ UNCHANGED <<kinds, inTurn, receipts>>

\* A time limit is over: SIGTERM and ten seconds, then SIGKILL and five, then a
\* last look.
TimeIsUp(j) ==
  /\ jobs[j].pc \in {"supervising", "terminating", "killing"}
  /\ CASE jobs[j].pc = "supervising" -> Step(j, "terminating") /\ UNCHANGED children
       [] jobs[j].pc = "terminating" -> Step(j, "killing") /\ UNCHANGED children
       [] jobs[j].pc = "killing" /\ children[j] = "ended" ->
            /\ children' = [children EXCEPT ![j] = "reaped"]
            /\ Outcome(j, "timed_out_and_reaped")
       [] OTHER -> Outcome(j, "timed_out_outcome_unknown") /\ UNCHANGED children
  /\ UNCHANGED <<kinds, inTurn, receipts>>

WriteOutcome(j) ==
  /\ jobs[j].pc = "report"
  /\ receipts' = [receipts EXCEPT ![j] = jobs[j].status]
  /\ Step(j, "done")
  /\ UNCHANGED <<kinds, inTurn, children>>

\* A signal, or a receipt or log that cannot be written.
JobDies(j) ==
  /\ jobs[j].pc \notin JobOver
  /\ Step(j, "dead")
  /\ UNCHANGED <<kinds, inTurn, children, receipts>>

JobNext ==
  \/ \E j \in Job : LookForWorkloads(j)
  \/ \E j \in Job : SpawnCommand(j)
  \/ \E j \in Job : WriteRunning(j)
  \/ \E j \in Job : CommandEnds(j)
  \/ \E j \in Job : Wait(j)
  \/ \E j \in Job : TimeIsUp(j)
  \/ \E j \in Job : WriteOutcome(j)
  \/ \E j \in Job : JobDies(j)
-----------------------------------------------------------------------------
\* Two listed scripts never run at once, however their jobs interleave.  Of workloads
\* of any kind two run at once, or a command starts beside one, only if two jobs looked
\* before either had started its own.  All this holds even after a job died or gave
\* its command up.  A receipt that names an outcome belongs to a command that has
\* ended, but for the one that says it does not know, and one that still says running
\* to a job at work or dead.
JobsSerial ==
  /\ Cardinality({j \in Workloads : kinds[j] = "script"}) <= 1
  /\ inTurn => /\ Cardinality(Workloads) <= 1
               /\ (\E j \in Job : jobs[j].pc = "clear") => Workloads = {}
  /\ \A j \in Job :
       /\ receipts[j] \in {"passed", "failed", "timed_out_and_reaped"} => children[j] = "reaped"
       /\ receipts[j] = "running" => jobs[j].pc \notin {"done", "refused"}
       /\ jobs[j].pc = "done" => receipts[j] = jobs[j].status /\ receipts[j] # "running"
       /\ jobs[j].pc = "refused" => children[j] = "none" /\ receipts[j] = "none"
=============================================================================
