----------------------------- MODULE ServeLoop -----------------------------
(***************************************************************************)
(* The server of src/bin/serve.ml: an HTTP thread (webs_iomux.ml) that     *)
(* registers requests and copies what it finds in their streams to the     *)
(* clients, and an engine thread that runs Generation_core's driver for    *)
(* one request after the other.  They share the queue and the table of     *)
(* active requests under a mutex, and a bounded stream of chunks for each  *)
(* request under the stream's own lock.                                    *)
(*                                                                         *)
(* One step is one section under a lock, or what the engine thread does    *)
(* between two of them.  The engine (ServingEngine) is left open here: any *)
(* call may fail or raise, and a token may end the generation.  The engine *)
(* thread is the program's main thread, so an exception ends the process.  *)
(***************************************************************************)
EXTENDS ServingQueue

CONSTANTS
  PromptLength,   \* of each request
  MaxNewTokens,   \* of each request
  MaxChunks       \* Stream.create's max_chunks

ASSUME RequestAssumption ==
  /\ PromptLength \in [Request -> Nat \ {0}] /\ MaxNewTokens \in [Request -> Nat \ {0}]
  /\ MaxChunks \in Nat \ {0}

\* Without this a long prompt is never admitted (see RequestAnswered).
ASSUME SliceAssumption == ChunkBudget <= HighWatermark

VARIABLES
  active,      \* active_requests: allocated_tokens of each registered request
  driver,      \* Generation_core's state of each request
  stream,      \* the stream of each request
  conn,        \* its connection
  received,    \* the chunks that reached its client
  lost,        \* the requests with a chunk that found the stream full
  unreadable,  \* those with a token the text decoder could not read
  engine       \* the engine thread's program counter and locals

serveVars == <<queueVars, active, driver, stream, conn, received, lost, unreadable, engine>>
clientVars == <<conn, received>>
noteVars == <<lost, unreadable>>

NoDriver == [status |-> "none", tokens |-> 0, leased |-> FALSE]

\* req: the request it works on; count: the tokens it accounts for; out: the
\* last chunks it is about to push; decoded: whether this round had decodes.
Idle == [pc |-> "loop", batch |-> <<>>, candidate |-> {}, decoded |-> FALSE,
         req |-> {}, count |-> 0, out |-> <<>>]

ServeInit ==
  /\ QueueInit
  /\ active = <<>>
  /\ driver = [r \in Request |-> NoDriver]
  /\ stream = <<>>
  /\ conn = <<>>
  /\ received = [r \in Request |-> <<>>]
  /\ lost = {} /\ unreadable = {}
  /\ engine = Idle
-----------------------------------------------------------------------------
(* The HTTP thread and the clients. *)

\* The engine thread, waiting on the condition, looks at the queue again.
Woken == IF engine.pc = "asleep" THEN [engine EXCEPT !.pc = "loop"] ELSE engine

\* Mutant of Arrive: the condition is not signalled.
ArriveUnsignalled(r) ==
  /\ r \notin DOMAIN stream /\ engine.pc # "over"
  /\ stream' = Put(stream, r, [chunks |-> <<>>, closed |-> FALSE])
  /\ conn' = Put(conn, r, "open")
  /\ active' = Put(active, r, 0)
  /\ Enqueue(r, PendingPrefill(PromptLength[r]))
  /\ UNCHANGED <<allocated, congested, driver, received, noteVars, engine>>

\* The handler registers and enqueues the request, and answers with its stream.
Arrive(r) ==
  /\ r \notin DOMAIN stream /\ engine.pc # "over"
  /\ stream' = Put(stream, r, [chunks |-> <<>>, closed |-> FALSE])
  /\ conn' = Put(conn, r, "open")
  /\ active' = Put(active, r, 0)
  /\ Enqueue(r, PendingPrefill(PromptLength[r]))
  /\ engine' = Woken
  /\ UNCHANGED <<allocated, congested, driver, received, noteVars>>

Open(r) == r \in DOMAIN conn /\ conn[r] = "open"

\* drain_body: a chunk is taken when the client has taken what came before it.
Deliver(r) ==
  /\ Open(r) /\ stream[r].chunks # <<>>
  /\ received' = [received EXCEPT ![r] = Append(@, Head(stream[r].chunks))]
  /\ stream' = [stream EXCEPT ![r].chunks = Tail(@)]
  /\ UNCHANGED <<queueVars, active, driver, conn, noteVars, engine>>

\* Mutant of EndOfStream: a closed stream ends even with chunks in it.
EndOfStreamEarly(r) ==
  /\ Open(r) /\ stream[r].closed
  /\ conn' = [conn EXCEPT ![r] = "ended"]
  /\ UNCHANGED <<queueVars, active, driver, stream, received, noteVars, engine>>

EndOfStream(r) ==
  /\ Open(r) /\ stream[r].closed /\ stream[r].chunks = <<>>
  /\ conn' = [conn EXCEPT ![r] = "ended"]
  /\ UNCHANGED <<queueVars, active, driver, stream, received, noteVars, engine>>

Closed(r) == stream' = [stream EXCEPT ![r].closed = TRUE]

\* The client goes away or stops reading for too long.
Drop(r) ==
  /\ Open(r)
  /\ conn' = [conn EXCEPT ![r] = "dropped"]
  /\ Closed(r)
  /\ UNCHANGED <<queueVars, active, driver, received, noteVars, engine>>
-----------------------------------------------------------------------------
(* The engine thread. *)

At(pc) == engine.pc = pc
EngineGoto(pc) == engine' = [engine EXCEPT !.pc = pc]
Current == CHOOSE r \in engine.req : TRUE

WaitForWork ==
  /\ At("loop") /\ queue = <<>>
  /\ EngineGoto("asleep")
  /\ UNCHANGED <<queueVars, active, driver, stream, clientVars, noteVars>>

PopBatch ==
  /\ At("loop") /\ queue # <<>>
  /\ \E decodes \in {<<>>} \cup {<<r>> : r \in Waiting("decode")},
        candidate \in {{}} \cup {{r} : r \in Admissible} :
       /\ PopNextBatch(decodes, candidate)
       /\ engine' = [Idle EXCEPT !.pc = "round", !.batch = decodes,
                                 !.candidate = candidate, !.decoded = (decodes # <<>>)]
  /\ UNCHANGED <<active, driver, stream, clientVars, noteVars>>

\* What the driver may be after one more token; its last one releases the lease.
\* Mutant: the lease is kept.
AfterTokenLeased(r) ==
  LET n == driver[r].tokens + 1 IN
    {[status |-> "finished", tokens |-> n, leased |-> TRUE]}
      \cup IF n < MaxNewTokens[r]
           THEN {[status |-> "active", tokens |-> n, leased |-> TRUE]} ELSE {}
AfterToken(r) ==
  LET n == driver[r].tokens + 1 IN
    {[status |-> "finished", tokens |-> n, leased |-> FALSE]}
      \cup IF n < MaxNewTokens[r]
           THEN {[status |-> "active", tokens |-> n, leased |-> TRUE]} ELSE {}

\* A failed call has released the lease before it returns its error.
Failed(r) == [driver EXCEPT ![r].status = "failed", ![r].leased = FALSE]

\* State.step, on the decodes of the batch in turn.  A popped decode is always
\* registered and has a live driver (NoRequestLost), so the loop's branches for
\* an unknown request and for a finished driver are not taken.
StepDecode ==
  LET r == Head(engine.batch)
      mine == [engine EXCEPT !.batch = Tail(@), !.req = {r}, !.count = 1]
  IN  /\ At("round") /\ engine.batch # <<>>
      /\ \/ driver' = Failed(r) /\ engine' = [mine EXCEPT !.pc = "fail"]
         \/ /\ \E d \in AfterToken(r) : driver' = [driver EXCEPT ![r] = d]
            /\ engine' = [mine EXCEPT !.pc = "account"]
      /\ UNCHANGED <<queueVars, active, stream, clientVars, noteVars>>

\* A round that had decodes puts its prompt back.
\* Mutant: it forgets it.
PostponeForgets ==
  /\ At("round") /\ engine.batch = <<>> /\ engine.candidate # {} /\ engine.decoded
  /\ engine' = Idle
  /\ UNCHANGED <<queueVars, active, driver, stream, clientVars, noteVars>>

Postpone ==
  /\ At("round") /\ engine.batch = <<>> /\ engine.candidate # {} /\ engine.decoded
  /\ \E r \in engine.candidate : Enqueue(r, PendingPrefill(PromptLength[r]))
  /\ engine' = Idle
  /\ UNCHANGED <<allocated, congested, active, driver, stream, clientVars, noteVars>>

\* State.init computes the whole prompt and the first token, whatever the slice.
PrefillOf(r) ==
  LET mine == [engine EXCEPT !.candidate = {}, !.req = {r}, !.count = PromptLength[r] + 1]
  IN  \/ driver' = Failed(r) /\ engine' = [mine EXCEPT !.pc = "fail"]
      \/ /\ \E d \in AfterToken(r) : driver' = [driver EXCEPT ![r] = d]
         /\ engine' = [mine EXCEPT !.pc = "account"]

Prefill ==
  /\ At("round") /\ engine.batch = <<>> /\ ~engine.decoded
  /\ \E r \in engine.candidate : PrefillOf(r)
  /\ UNCHANGED <<queueVars, active, stream, clientVars, noteVars>>

\* An exception out of a step or a prompt, such as Radix_cache.extend's, meets no
\* handler: the process ends and its connections are cut.
StepRaises ==
  /\ At("round")
  /\ engine.batch # <<>> \/ (engine.candidate # {} /\ ~engine.decoded)
  /\ EngineGoto("over")
  /\ conn' = [r \in DOMAIN conn |-> IF conn[r] = "open" THEN "cut" ELSE conn[r]]
  /\ UNCHANGED <<queueVars, active, driver, stream, received, noteVars>>

EndRound ==
  /\ At("round") /\ engine.batch = <<>> /\ engine.candidate = {}
  /\ engine' = Idle
  /\ UNCHANGED <<queueVars, active, driver, stream, clientVars, noteVars>>

\* The request is charged for its tokens whether or not the queue had them.
Account ==
  /\ At("account")
  /\ ReserveTokens(engine.count)
  /\ active' = [active EXCEPT ![Current] = @ + engine.count]
  /\ EngineGoto("emit")
  /\ UNCHANGED <<queue, driver, stream, clientVars, noteVars>>

\* Stream.push: a chunk for a full or a closed stream is dropped, and the answer
\* that says so is ignored.
Push(r, chunk) ==
  LET full == Len(stream[r].chunks) >= MaxChunks IN
  /\ stream' = IF stream[r].closed \/ full THEN stream
               ELSE [stream EXCEPT ![r].chunks = Append(@, chunk)]
  /\ lost' = IF full /\ ~stream[r].closed THEN lost \cup {r} ELSE lost

TokenChunk(n) == <<"token", n>>
Ending(n) == <<<<"finish", n>>, <<"usage", n>>, <<"done", n>>>>

EmitToken ==
  LET d == driver[Current] IN
  /\ At("emit")
  /\ Push(Current, TokenChunk(d.tokens))
  /\ engine' = IF d.status = "finished"
               THEN [engine EXCEPT !.pc = "finish", !.out = Ending(d.tokens)]
               ELSE [engine EXCEPT !.pc = "requeue"]
  /\ UNCHANGED <<queueVars, active, driver, clientVars, unreadable>>

\* Tokenizer.Decoder.push: the bytes so far are not UTF-8.  The driver is dropped
\* without State.close.
EmitFails ==
  /\ At("emit")
  /\ unreadable' = unreadable \cup {Current}
  /\ EngineGoto("fail")
  /\ UNCHANGED <<queueVars, active, driver, stream, clientVars, lost>>

EmitFinish ==
  /\ At("finish") /\ engine.out # <<>>
  /\ Push(Current, Head(engine.out))
  /\ engine' = [engine EXCEPT !.out = Tail(@)]
  /\ UNCHANGED <<queueVars, active, driver, clientVars, unreadable>>

CloseStream ==
  /\ At("fail") \/ (At("finish") /\ engine.out = <<>>)
  /\ Closed(Current)
  /\ EngineGoto("retire")
  /\ UNCHANGED <<queueVars, active, driver, clientVars, noteVars>>

\* Mutant of Retire: the request's tokens are not released.
RetireCharged ==
  /\ At("retire")
  /\ active' = Restrict(active, DOMAIN active \ {Current})
  /\ engine' = [engine EXCEPT !.pc = "round", !.req = {}]
  /\ UNCHANGED <<queueVars, driver, stream, clientVars, noteVars>>

Retire ==
  /\ At("retire")
  /\ ReleaseTokens(active[Current])
  /\ active' = Restrict(active, DOMAIN active \ {Current})
  /\ engine' = [engine EXCEPT !.pc = "round", !.req = {}]
  /\ UNCHANGED <<queue, driver, stream, clientVars, noteVars>>

Requeue ==
  /\ At("requeue")
  /\ Enqueue(Current, ActiveDecode)
  /\ engine' = [engine EXCEPT !.pc = "round", !.req = {}]
  /\ UNCHANGED <<allocated, congested, active, driver, stream, clientVars, noteVars>>
-----------------------------------------------------------------------------
Engine ==
  \/ WaitForWork \/ PopBatch \/ StepDecode \/ Postpone \/ Prefill \/ StepRaises \/ EndRound
  \/ Account \/ EmitToken \/ EmitFails \/ EmitFinish \/ CloseStream \/ Retire \/ Requeue

Http == \E r \in Request : Arrive(r) \/ Deliver(r) \/ EndOfStream(r) \/ Drop(r)

ServeNext == Engine \/ Http

ServeSpec == ServeInit /\ [][ServeNext]_serveVars

\* The engine thread keeps running; clients may never come, read or leave.
FairServeSpec == ServeSpec /\ WF_serveVars(Engine)
-----------------------------------------------------------------------------
\* The shape of the server's state.
ServeTypeOK ==
  /\ DOMAIN queue \subseteq DOMAIN stream /\ allocated \in 0 .. TokenCapacity
  /\ congested \in BOOLEAN
  /\ DOMAIN active \subseteq DOMAIN stream /\ DOMAIN conn = DOMAIN stream
  /\ \A r \in DOMAIN stream : Len(stream[r].chunks) <= MaxChunks
  /\ engine.pc \in {"loop", "asleep", "round", "account", "emit", "finish", "fail",
                    "retire", "requeue", "over"}
  /\ Cardinality(engine.req) <= 1 /\ Cardinality(engine.candidate) <= 1

InHand == Range(engine.batch) \cup engine.candidate \cup engine.req

\* A registered request is in exactly one place, the queue or the engine thread's
\* hands; one that waits to decode has a live driver, one that waits for its
\* prefill has none; and a request is forgotten only once its stream is closed.
NoRequestLost ==
  /\ DOMAIN active = DOMAIN queue \cup InHand
  /\ DOMAIN queue \cap InHand = {}
  /\ \A r \in DOMAIN queue :
       driver[r].status = IF queue[r].phase = "decode" THEN "active" ELSE "none"
  /\ \A r \in DOMAIN stream \ DOMAIN active : stream[r].closed

\* The account the queue admits prompts by is what the registered requests were
\* charged, also after charges the queue refused: it never says more, it says less
\* only while they are charged with more than there is, and admission is closed
\* only while the account is above the low watermark.
AccountingExact ==
  LET charged == FoldFunction(+, 0, active) IN
  /\ allocated <= charged
  /\ charged <= TokenCapacity => allocated = charged
  /\ congested => allocated > LowWatermark

\* A driver that no request owns any more holds no lease on the prefix cache,
\* except after a token that could not be decoded to text.
LeasesReleased ==
  \A r \in Request : driver[r].leased => r \in DOMAIN active \cup unreadable

\* A client that read its stream to the end has the whole answer, in order and
\* with its ending, or after an error the tokens before it, provided no chunk met
\* a full stream.
AnswerComplete ==
  \A r \in DOMAIN conn : conn[r] = "ended" /\ r \notin lost =>
    LET d == driver[r]
        all == [i \in 1 .. d.tokens |-> TokenChunk(i)]
    IN  received[r] = IF r \in unreadable THEN Front(all)
                      ELSE IF d.status = "finished" THEN all \o Ending(d.tokens) ELSE all

\* Every request that is registered is answered, or told that it failed, by the
\* end of its stream; whatever the order of the queue, and although prompts give
\* way to decodes and wait for the watermark.  Only the end of the process, with
\* every connection cut, keeps it from that.
RequestAnswered ==
  \A r \in Request :
    r \in DOMAIN active ~>
      /\ r \in DOMAIN stream
      /\ \/ stream[r].closed /\ r \notin DOMAIN active
         \/ engine.pc = "over" /\ conn[r] # "open"

\* Continuous batching: a prompt that was taken into a round is run in that round,
\* beside its decodes.
PromptsRunBesideDecodes ==
  [][\A r \in engine.candidate : r \in engine'.candidate \/ driver'[r].status # "none"]_serveVars
=============================================================================
