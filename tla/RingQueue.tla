----------------------------- MODULE RingQueue -----------------------------
(***************************************************************************)
(* The submission and completion rings of native/ocaml_metal_stubs.m, by   *)
(* which an OCaml thread has a worker thread run decode commands on the    *)
(* device.  Each ring has one producer and one consumer and is read        *)
(* without the mutex; the mutex only guards going to sleep and waking up.  *)
(*                                                                         *)
(* A request is named by its place in the submission order, and the right  *)
(* answer to it is its own name.  The device gives a wrong answer when the *)
(* token it read was not the one meant for the request.  Tokens reach the  *)
(* device through two token buffers and two output buffers, used in turn   *)
(* (slot = head % 2); a negative token means: the previous answer.         *)
(*                                                                         *)
(* One step of a thread is one access to what the threads share; what it   *)
(* does under the mutex is one step.  The atomics are sequentially         *)
(* consistent here: the relaxed reads of the C code are of counters only   *)
(* the reading thread writes, or are made under the mutex.                 *)
(***************************************************************************)
EXTENDS Integers, Sequences

CONSTANTS
  Capacity,   \* LLMOPT_RING_CAPACITY
  Wrap,       \* 2^32: the counters are uint32_t
  Depths,     \* the values of LLMOPT_QUEUE_DEPTH considered
  Window      \* bound, per depth: how many requests the client leaves uncollected

ASSUME CapacityAssumption == Capacity \in Nat \ {0}
ASSUME WrapAssumption == Wrap \in Nat \ {0} /\ Wrap % (2 * Capacity) = 0
ASSUME WindowAssumption == Depths \subseteq Nat \ {0} /\ Window \in [Depths -> Nat \ {0}]

VARIABLES
  sqHead, sqTail, sq,    \* the submission ring
  cqHead, cqTail, cq,    \* the completion ring
  running,               \* q->running
  depth,                 \* the worker's pipeline_depth
  worker,                \* the worker's program counter and locals
  device,                \* the committed commands not yet executed, oldest first
  failed,                \* the commands that ended with an error, until published
  tokenBuf, outBuf,      \* the contents of token_buffers and output_buffers
  client                 \* the OCaml thread: where it is in the call it makes

vars == <<sqHead, sqTail, sq, cqHead, cqTail, cq, running, depth, worker,
          device, failed, tokenBuf, outBuf, client>>

Counter == 0 .. Wrap - 1

\* Mutant of Plus1: a counter in a wider type than the ring's.
Plus1Wider(n) == n + 1
Plus1(n) == (n + 1) % Wrap
Distance(from, to) == (to - from) % Wrap
Index(n) == n % Capacity
SlotOf(n) == n % 2
Other(slot) == 1 - slot

None == -1        \* no request
Wrong == -2       \* an answer computed from a token not meant for the request
Garbage == -3     \* what a failed command leaves, and what is computed from it

\* What a submission carries: its own token or "the previous answer".
Entry(n, chained) == [id |-> n, chained |-> chained]

\* The worker's locals: the entry just taken, the command not completed yet, its
\* answer, and where the worker goes when it has published it.
Idle == [pc |-> "loop", entry |-> Entry(None, FALSE), prev |-> None,
         answer |-> None, then |-> "loop"]

Init ==
  /\ sqHead = 0 /\ sqTail = 0 /\ sq = [i \in 0 .. Capacity - 1 |-> Entry(None, FALSE)]
  /\ cqHead = 0 /\ cqTail = 0
  /\ cq = [i \in 0 .. Capacity - 1 |-> [id |-> None, token |-> None, ok |-> FALSE]]
  /\ running = TRUE
  /\ depth \in Depths
  /\ worker = Idle
  /\ device = <<>>
  /\ failed = {}
  /\ tokenBuf = [s \in 0 .. 1 |-> None] /\ outBuf = [s \in 0 .. 1 |-> None]
  /\ client = "ready"
-----------------------------------------------------------------------------
(* The client, one OCaml thread: submit, wait_completion, poll_completion,   *)
(* destroy.                                                                  *)

clientOnly == <<cq, cqTail, depth, device, failed, tokenBuf, outBuf>>

Uncollected == Distance(cqHead, sqTail)

\* ring_submit writes the entry, then the tail; a full ring is answered false.
\* A request is chained to the one submitted before it.
Submit(chained) ==
  /\ client = "ready"
  /\ chained => sq[Index(sqTail - 1)].id # None
  /\ Uncollected < Window[depth]
  /\ Distance(sqHead, sqTail) < Capacity
  /\ sq' = [sq EXCEPT ![Index(sqTail)] = Entry(sqTail, chained)]
  /\ sqTail' = Plus1(sqTail)
  /\ client' = "signal"
  /\ UNCHANGED <<clientOnly, sqHead, cqHead, running, worker>>

\* A thread that sleeps on the condition wakes up to check it again.
Wake(w) == IF w.pc = "asleep" THEN [w EXCEPT !.pc = "sleep"] ELSE w

SubmitSignal ==
  /\ client = "signal"
  /\ worker' = Wake(worker)
  /\ client' = "ready"
  /\ UNCHANGED <<clientOnly, sqHead, sqTail, sq, cqHead, running>>

\* wait_completion is called when something is outstanding: it takes a completion,
\* or goes to sleep.
WaitCompletion ==
  /\ client = "ready" /\ Uncollected > 0
  /\ client' = IF cqHead = cqTail THEN "wait" ELSE "collect"
  /\ UNCHANGED <<clientOnly, sqHead, sqTail, sq, cqHead, running, worker>>

\* Mutant of CheckCompletion: it sleeps without looking again under the mutex.
SleepUnchecked ==
  /\ client = "wait"
  /\ client' = "asleep"
  /\ UNCHANGED <<clientOnly, sqHead, sqTail, sq, cqHead, running, worker>>

CheckCompletion ==
  /\ client = "wait"
  /\ client' = IF cqHead = cqTail /\ running THEN "asleep" ELSE "collect"
  /\ UNCHANGED <<clientOnly, sqHead, sqTail, sq, cqHead, running, worker>>

\* An empty ring is an exception here; poll_completion also comes this way.
Collect ==
  /\ client = "collect"
  /\ cqHead' = IF cqHead = cqTail THEN cqHead ELSE Plus1(cqHead)
  /\ client' = "ready"
  /\ UNCHANGED <<clientOnly, sqHead, sqTail, sq, running, worker>>

PollCompletion ==
  /\ client = "ready"
  /\ cqHead # cqTail
  /\ client' = "collect"
  /\ UNCHANGED <<clientOnly, sqHead, sqTail, sq, cqHead, running, worker>>

\* finalize_ring: running is cleared, then both conditions are broadcast, then the
\* worker is joined.
Destroy ==
  /\ client = "ready"
  /\ running' = FALSE
  /\ client' = "broadcast"
  /\ UNCHANGED <<clientOnly, sqHead, sqTail, sq, cqHead, worker>>

Broadcast ==
  /\ client = "broadcast"
  /\ worker' = Wake(worker)
  /\ client' = "join"
  /\ UNCHANGED <<clientOnly, sqHead, sqTail, sq, cqHead, running>>

Join ==
  /\ client = "join" /\ worker.pc = "exited"
  /\ client' = "destroyed"
  /\ UNCHANGED <<clientOnly, sqHead, sqTail, sq, cqHead, running, worker>>
-----------------------------------------------------------------------------
(* The worker thread. *)

workerOnly == <<sqTail, sq, cqHead, running, depth>>
rings == <<sqHead, cqTail, cq>>

At(pc) == worker.pc = pc
Goto(pc) == worker' = [worker EXCEPT !.pc = pc]

\* Complete(then): publish the previous command's answer, then go on with then.
Complete(w, then) == [w EXCEPT !.pc = "finish", !.then = then]

Loop ==
  /\ At("loop")
  /\ Goto(IF ~running THEN "drain" ELSE IF sqHead # sqTail THEN "take" ELSE "spin")
  /\ UNCHANGED <<workerOnly, failed, rings, device, tokenBuf, outBuf, client>>

\* A thousand looks at the tail: something comes, or the worker gives up.
Spin ==
  /\ At("spin")
  /\ \/ sqHead # sqTail /\ Goto("take")
     \/ /\ sqHead = sqTail
        /\ worker' = IF worker.prev # None THEN Complete(worker, "sleep")
                     ELSE [worker EXCEPT !.pc = "sleep"]
  /\ UNCHANGED <<workerOnly, failed, rings, device, tokenBuf, outBuf, client>>

\* Mutant of Sleep: the worker does not look at running.
SleepDeaf ==
  /\ At("sleep")
  /\ Goto(IF sqHead = sqTail THEN "asleep" ELSE "loop")
  /\ UNCHANGED <<workerOnly, failed, rings, device, tokenBuf, outBuf, client>>

Sleep ==
  /\ At("sleep")
  /\ Goto(IF sqHead = sqTail /\ running THEN "asleep" ELSE "loop")
  /\ UNCHANGED <<workerOnly, failed, rings, device, tokenBuf, outBuf, client>>

\* The entry is taken even when the worker then leaves the loop.
Take ==
  /\ At("take")
  /\ sqHead' = Plus1(sqHead)
  /\ worker' = [worker EXCEPT !.entry = sq[Index(sqHead)],
                              !.pc = IF running THEN "commit" ELSE "drain"]
  /\ UNCHANGED <<workerOnly, failed, cq, cqTail, device, tokenBuf, outBuf, client>>

\* The token is written by the host, or by a kernel at the head of the command.
\* At depth 1 the command is completed at once, else after the next is committed.
Commit ==
  LET n == worker.entry.id
      next == [worker EXCEPT !.prev = n]
  IN  /\ At("commit")
      /\ tokenBuf' = IF worker.entry.chained THEN tokenBuf
                     ELSE [tokenBuf EXCEPT ![SlotOf(n)] = n]
      /\ device' = Append(device, worker.entry)
      /\ worker' = IF depth = 1 THEN Complete(next, "loop")
                   ELSE IF worker.prev = None THEN [Idle EXCEPT !.prev = n]
                   ELSE Complete(worker, "hold")
      /\ UNCHANGED <<workerOnly, failed, rings, outBuf, client>>

\* waitUntilCompleted, then the answer is read from the command's output buffer.
Pending(n) == \E i \in 1 .. Len(device) : device[i].id = n

\* Mutant of Finish: the command is not waited for.
FinishEarly ==
  /\ At("finish")
  /\ worker' = [worker EXCEPT !.answer = outBuf[SlotOf(worker.prev)], !.pc = "mirror"]
  /\ UNCHANGED <<workerOnly, failed, rings, device, tokenBuf, outBuf, client>>

Finish ==
  /\ At("finish") /\ ~Pending(worker.prev)
  /\ worker' = [worker EXCEPT !.answer = outBuf[SlotOf(worker.prev)], !.pc = "mirror"]
  /\ UNCHANGED <<workerOnly, failed, rings, device, tokenBuf, outBuf, client>>

\* An answer of the second buffer is copied to the first, where callers look.
Mirror ==
  /\ At("mirror")
  /\ outBuf' = IF SlotOf(worker.prev) # 0 THEN [outBuf EXCEPT ![0] = worker.answer]
               ELSE outBuf
  /\ Goto("publish")
  /\ UNCHANGED <<workerOnly, failed, rings, device, tokenBuf, client>>

\* Mutant of Publish: the entry just taken is answered, not the one completed.
PublishTaken ==
  /\ At("publish")
  /\ cq' = [cq EXCEPT ![Index(cqTail)] = [id |-> worker.entry.id, token |-> worker.answer,
                                          ok |-> worker.prev \notin failed]]
  /\ failed' = failed \ {worker.prev}
  /\ cqTail' = Plus1(cqTail)
  /\ Goto("signal")
  /\ UNCHANGED <<workerOnly, sqHead, device, tokenBuf, outBuf, client>>

Publish ==
  /\ At("publish")
  /\ cq' = [cq EXCEPT ![Index(cqTail)] = [id |-> worker.prev, token |-> worker.answer,
                                          ok |-> worker.prev \notin failed]]
  /\ failed' = failed \ {worker.prev}
  /\ cqTail' = Plus1(cqTail)
  /\ Goto("signal")
  /\ UNCHANGED <<workerOnly, sqHead, device, tokenBuf, outBuf, client>>

Signal ==
  /\ At("signal")
  /\ client' = IF client = "asleep" THEN "wait" ELSE client
  /\ worker' = IF worker.then = "hold"
               THEN [Idle EXCEPT !.prev = worker.entry.id]
               ELSE [Idle EXCEPT !.pc = worker.then]
  /\ UNCHANGED <<workerOnly, failed, rings, device, tokenBuf, outBuf>>

\* Out of the loop: the command in flight is completed, then the thread ends.
Drain ==
  /\ At("drain")
  /\ worker' = IF worker.prev # None THEN Complete(worker, "drain")
               ELSE [worker EXCEPT !.pc = "exited"]
  /\ UNCHANGED <<workerOnly, failed, rings, device, tokenBuf, outBuf, client>>
-----------------------------------------------------------------------------
(* The device runs the commands of its queue one after the other.           *)

InputRight(e, token) == token = IF e.chained THEN (e.id - 1) % Wrap ELSE e.id

Execute ==
  LET e == Head(device)
      slot == SlotOf(e.id)
      token == IF e.chained THEN outBuf[Other(slot)] ELSE tokenBuf[slot]
      answer == IF token = Garbage THEN Garbage
                ELSE IF InputRight(e, token) THEN e.id ELSE Wrong
  IN  /\ device # <<>>
      /\ device' = Tail(device)
      /\ tokenBuf' = [tokenBuf EXCEPT ![slot] = token]
      /\ \/ outBuf' = [outBuf EXCEPT ![slot] = answer] /\ UNCHANGED failed
         \/ outBuf' = [outBuf EXCEPT ![slot] = Garbage] /\ failed' = failed \cup {e.id}
      /\ UNCHANGED <<sqHead, sqTail, sq, cqHead, cqTail, cq, running, depth, worker, client>>
-----------------------------------------------------------------------------
Work == Loop \/ Spin \/ Sleep \/ Take \/ Commit \/ Finish \/ Mirror \/ Publish \/ Signal \/ Drain

\* The rest of a call the client has begun.
Proceed == SubmitSignal \/ CheckCompletion \/ Collect \/ Broadcast \/ Join

Begin == Submit(TRUE) \/ Submit(FALSE) \/ WaitCompletion \/ PollCompletion \/ Destroy

Next == Work \/ Execute \/ Proceed \/ Begin

Spec == Init /\ [][Next]_vars

\* The threads and the device keep running; the client need not make a call.
FairSpec == Spec /\ WF_vars(Work) /\ WF_vars(Execute) /\ WF_vars(Proceed)
-----------------------------------------------------------------------------
\* The shape of the queue's state.
TypeOK ==
  /\ sqHead \in Counter /\ sqTail \in Counter /\ cqHead \in Counter /\ cqTail \in Counter
  /\ running \in BOOLEAN /\ depth \in Depths /\ failed \subseteq Counter
  /\ worker.pc \in {"loop", "spin", "sleep", "asleep", "take", "commit", "finish",
                    "mirror", "publish", "signal", "drain", "exited"}
  /\ worker.prev \in Counter \cup {None}
  /\ Len(device) <= 2
  /\ client \in {"ready", "signal", "wait", "asleep", "collect", "broadcast", "join", "destroyed"}

\* The counters in a half-open interval of the uint32_t circle.
Between(from, to) == {n \in Counter : Distance(from, n) < Distance(from, to)}

\* Neither ring loses, repeats or overwrites: what is submitted and not taken, and
\* what is completed and not collected, is there in submission order, also when
\* the counters wrap.
RingsExact ==
  /\ Distance(sqHead, sqTail) <= Capacity /\ Distance(cqHead, cqTail) <= Capacity
  /\ \A n \in Between(sqHead, sqTail) : sq[Index(n)].id = n
  /\ \A n \in Between(cqHead, cqTail) : cq[Index(n)].id = n

\* Every completion carries the answer to its own request, not an earlier one's.
AnswersRight ==
  \A n \in Between(cqHead, cqTail) :
    cq[Index(n)].ok => cq[Index(n)].token \in {n, Garbage}

\* So it is with one command in flight: at depth 1, or when the client collects
\* each answer before it submits again, as execute_static_decode does.
AnswersRightUnpipelined == depth = 1 \/ Window[depth] = 1 => AnswersRight

\* A client that waits for a completion gets one: no wake-up is lost between the
\* lock-free rings and the condition variables.
WaitReturns == client \in {"wait", "asleep"} ~> client = "ready"

\* destroy returns: the worker leaves its loop from wherever it is, asleep or not,
\* and is joined.
DestroyReturns == client = "broadcast" ~> client = "destroyed"
=============================================================================
