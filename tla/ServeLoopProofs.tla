-------------------------- MODULE ServeLoopProofs --------------------------
(***************************************************************************)
(* Proofs about ServeLoop, for every set of requests, every prompt, every  *)
(* capacity and every order in which the queue is served: where a request  *)
(* is, what its client reads, and what the queue admits prompts by.        *)
(***************************************************************************)
EXTENDS ServeLoop, FiniteSetTheorems, SequenceTheorems, WellFoundedInduction, TLAPS

Chunk == {"token", "finish", "usage", "done"} \X Nat
Steps == {"loop", "asleep", "round", "account", "emit", "finish", "fail", "retire", "requeue",
          "over"}
Batches == {<<>>} \cup {<<r>> : r \in Request}
AtMostOne == {{}} \cup {{r} : r \in Request}

QueueEntry == [phase : {"prefill", "decode"}, remaining : Nat]
StreamState == [chunks : Seq(Chunk), closed : BOOLEAN]
DriverState == [status : {"none", "active", "finished", "failed"}, tokens : Nat, leased : BOOLEAN]
EngineState == [pc : Steps, batch : Batches, candidate : AtMostOne, decoded : BOOLEAN,
                req : AtMostOne, count : Nat, out : Seq(Chunk)]

\* What the variables hold.
QueueTypes ==
  /\ DOMAIN queue \subseteq Request /\ queue \in [DOMAIN queue -> QueueEntry]
  /\ allocated \in 0 .. TokenCapacity /\ congested \in BOOLEAN
ActiveTypes == DOMAIN active \subseteq DOMAIN stream /\ active \in [DOMAIN active -> Nat]
StreamTypes ==
  /\ DOMAIN stream \subseteq Request /\ stream \in [DOMAIN stream -> StreamState]
  /\ \A r \in DOMAIN stream : Len(stream[r].chunks) <= MaxChunks
ClientTypes ==
  /\ conn \in [DOMAIN stream -> {"open", "ended", "dropped", "cut"}]
  /\ received \in [Request -> Seq(Chunk)]
DriverTypes ==
  driver \in [Request -> DriverState] /\ lost \subseteq Request /\ unreadable \subseteq Request
EngineTypes == engine \in EngineState

Types == QueueTypes /\ ActiveTypes /\ StreamTypes /\ ClientTypes /\ DriverTypes /\ EngineTypes

\* What the engine thread has in hand at each of its steps.
HandsFit ==
  /\ engine.pc \in {"loop", "asleep"} => engine.batch = <<>> /\ engine.candidate = {}
  /\ engine.req = {} <=> engine.pc \in {"loop", "asleep", "round", "over"}
  /\ Range(engine.batch) \cap engine.candidate = {}
  /\ Range(engine.batch) \cap engine.req = {}
  /\ engine.candidate \cap engine.req = {}

\* The driver of a request, by what is to be done with the request next.
DriversFit ==
  /\ \A r \in Request \ DOMAIN stream : driver[r] = NoDriver /\ r \notin unreadable
  /\ \A r \in Request : driver[r].leased => driver[r].status = "active"
  /\ \A r \in Request : driver[r].status = "none" => driver[r].tokens = 0
  /\ \A r \in Range(engine.batch) : driver[r].status = "active"
  /\ \A r \in engine.candidate : driver[r].status = "none"
  /\ \A r \in engine.req :
       /\ engine.pc \in {"account", "emit"} =>
            driver[r].status \in {"active", "finished"} /\ driver[r].tokens > 0
       /\ engine.pc = "requeue" => driver[r].status = "active"
       /\ engine.pc = "finish" => driver[r].status = "finished"
       /\ engine.pc \in {"fail", "retire"} =>
            driver[r].status \in {"finished", "failed"} \/ r \in unreadable
  /\ \A r \in DOMAIN stream \ DOMAIN active :
       driver[r].status \in {"finished", "failed"} \/ r \in unreadable

\* A stream is closed, and a token found unreadable, only at the end of a request.
ClosingFits ==
  /\ \A r \in unreadable \cap DOMAIN active :
       r \in engine.req /\ engine.pc \in {"fail", "retire"}
  /\ \A r \in DOMAIN active : stream[r].closed /\ conn[r] # "dropped" =>
       r \in engine.req /\ engine.pc = "retire"
  /\ \A r \in engine.req : engine.pc = "retire" => stream[r].closed
  /\ \A r \in DOMAIN stream : conn[r] = "ended" => stream[r].closed /\ stream[r].chunks = <<>>

Inv == Types /\ HandsFit /\ NoRequestLost /\ DriversFit /\ ClosingFits
-----------------------------------------------------------------------------
\* Empty tables and sequences, and sequences of one.
LEMMA NoDomain == DOMAIN <<>> = {} /\ Range(<<>>) = {}
  BY DEF Range

LEMMA OneDomain == \A r : Range(<<r>>) = {r} /\ Tail(<<r>>) = <<>> /\ Head(<<r>>) = r /\ <<r>> # <<>>
  BY DEF Range

\* The engine thread has hold of one request at most, and is done with it or names it.
LEMMA CurrentIs ==
  ASSUME EngineTypes, engine.req # {}
  PROVE  engine.req = {Current} /\ Current \in Request
  BY DEF EngineTypes, EngineState, AtMostOne, Current

LEMMA BatchIs ==
  ASSUME EngineTypes, engine.batch # <<>>
  PROVE  /\ engine.batch = <<Head(engine.batch)>> /\ Tail(engine.batch) = <<>>
         /\ Range(engine.batch) = {Head(engine.batch)} /\ Head(engine.batch) \in Request
<1>1. PICK r \in Request : engine.batch = <<r>>
  BY DEF EngineTypes, EngineState, Batches
<1> QED
  BY <1>1, OneDomain

\* Stream.push on the types.
LEMMA PushEffect ==
  ASSUME StreamTypes, DriverTypes, NEW r \in DOMAIN stream, NEW chunk \in Chunk, Push(r, chunk)
  PROVE  /\ StreamTypes' /\ DOMAIN stream' = DOMAIN stream
         /\ lost' \subseteq Request
         /\ \A q \in DOMAIN stream : stream'[q].closed = stream[q].closed
         /\ \A q \in DOMAIN stream : q # r => stream'[q] = stream[q] /\ (q \in lost' <=> q \in lost)
         /\ stream[r].closed => stream' = stream
         /\ ~stream[r].closed /\ r \notin lost' =>
              r \notin lost /\ stream'[r].chunks = Append(stream[r].chunks, chunk)
<1>1. /\ stream[r] \in StreamState /\ stream[r].chunks \in Seq(Chunk) /\ Len(stream[r].chunks) \in Nat
      /\ stream[r].closed \in BOOLEAN /\ MaxChunks \in Nat
  BY RequestAssumption DEF StreamTypes, StreamState
<1>2. CASE stream[r].closed \/ Len(stream[r].chunks) >= MaxChunks
  <2>1. stream' = stream
    BY <1>2 DEF Push
  <2>2. lost' \in {lost, lost \cup {r}}
    BY DEF Push
  <2>3. ~stream[r].closed => r \in lost'
    BY <1>2 DEF Push
  <2> QED
    BY <2>1, <2>2, <2>3 DEF StreamTypes, DriverTypes
<1>3. CASE ~stream[r].closed /\ ~(Len(stream[r].chunks) >= MaxChunks)
  <2>1. stream' = [stream EXCEPT ![r] = [stream[r] EXCEPT !.chunks = Append(@, chunk)]]
    BY <1>3 DEF Push
  <2>2. lost' = lost
    BY <1>3 DEF Push
  <2>3. Append(stream[r].chunks, chunk) \in Seq(Chunk)
        /\ Len(Append(stream[r].chunks, chunk)) = Len(stream[r].chunks) + 1
    BY <1>1, AppendProperties
  <2>4. [stream[r] EXCEPT !.chunks = Append(@, chunk)] \in StreamState
        /\ [stream[r] EXCEPT !.chunks = Append(@, chunk)].chunks = Append(stream[r].chunks, chunk)
        /\ [stream[r] EXCEPT !.chunks = Append(@, chunk)].closed = stream[r].closed
    BY <1>1, <2>3 DEF StreamState
  <2>5. StreamTypes' /\ DOMAIN stream' = DOMAIN stream
    BY <1>1, <1>3, <2>1, <2>3, <2>4 DEF StreamTypes
  <2> QED
    BY <1>3, <2>1, <2>2, <2>4, <2>5 DEF StreamTypes, DriverTypes
<1> QED
  BY <1>2, <1>3

LEMMA CloseEffect ==
  ASSUME StreamTypes, NEW r \in DOMAIN stream, Closed(r)
  PROVE  /\ StreamTypes' /\ DOMAIN stream' = DOMAIN stream
         /\ \A q \in DOMAIN stream : stream'[q].chunks = stream[q].chunks
         /\ \A q \in DOMAIN stream : stream'[q].closed <=> (q = r \/ stream[q].closed)
<1>1. stream[r] \in StreamState
  BY DEF StreamTypes
<1>2. stream' = [stream EXCEPT ![r] = [stream[r] EXCEPT !.closed = TRUE]]
  BY DEF Closed
<1>3. /\ [stream[r] EXCEPT !.closed = TRUE] \in StreamState
      /\ [stream[r] EXCEPT !.closed = TRUE].chunks = stream[r].chunks
      /\ [stream[r] EXCEPT !.closed = TRUE].closed = TRUE
  BY <1>1 DEF StreamState
<1> QED
  BY <1>2, <1>3 DEF StreamTypes

\* The server starts in Inv, and every step keeps it: one lemma for each step.
LEMMA InitInv == ServeInit => Inv
<1> SUFFICES ASSUME ServeInit PROVE Inv
  OBVIOUS
<1> USE NoDomain DEF ServeInit, QueueInit
<1>1. QueueTypes /\ ActiveTypes
  <2>1. <<>> \in [{} -> QueueEntry] /\ <<>> \in [{} -> Nat]
    OBVIOUS
  <2>2. QueueTypes
    <3>1. 0 \in 0 .. TokenCapacity
      BY QueueAssumption
    <3> QED
      BY <2>1, <3>1 DEF QueueTypes
  <2> QED
    BY <2>1, <2>2 DEF ActiveTypes
<1>2. StreamTypes /\ ClientTypes
  BY DEF StreamTypes, ClientTypes
<1>3. DriverTypes
  BY DEF DriverTypes, DriverState, NoDriver
<1>4. EngineTypes
  BY DEF EngineTypes, EngineState, Idle, Steps, Batches, AtMostOne
<1>5. HandsFit /\ NoRequestLost /\ DriversFit /\ ClosingFits
  BY DEF HandsFit, NoRequestLost, DriversFit, ClosingFits, Idle, InHand, NoDriver
<1> QED
  BY <1>1, <1>2, <1>3, <1>4, <1>5 DEF Inv, Types

LEMMA ArriveInv ==
  ASSUME Inv, NEW r \in Request, Arrive(r)
  PROVE  Inv'
<1>1. /\ r \notin DOMAIN stream /\ DOMAIN stream' = DOMAIN stream \cup {r}
      /\ \A q \in DOMAIN stream : stream'[q] = stream[q] /\ conn'[q] = conn[q]
      /\ stream'[r] = [chunks |-> <<>>, closed |-> FALSE] /\ conn'[r] = "open"
      /\ DOMAIN active' = DOMAIN active \cup {r} /\ DOMAIN queue' = DOMAIN queue \cup {r}
      /\ \A q \in DOMAIN active : q # r => active'[q] = active[q]
      /\ \A q \in DOMAIN queue : q # r => queue'[q] = queue[q]
      /\ active'[r] = 0 /\ queue'[r] = PendingPrefill(PromptLength[r])
      /\ UNCHANGED <<allocated, congested, driver, received, lost, unreadable>>
  <2>1. DOMAIN conn = DOMAIN stream
    BY DEF Inv, Types, ClientTypes
  <2>2. r \notin DOMAIN stream
    BY DEF Arrive
  <2> QED
    BY <2>1, <2>2 DEF Arrive, Enqueue, Put, noteVars
<1>2. /\ engine'.batch = engine.batch /\ engine'.candidate = engine.candidate
      /\ engine'.req = engine.req /\ EngineTypes'
      /\ engine'.pc = engine.pc \/ (engine.pc = "asleep" /\ engine'.pc = "loop")
  BY DEF Arrive, Woken, Inv, Types, EngineTypes, EngineState, Steps
<1>3. r \notin DOMAIN active /\ r \notin DOMAIN queue \cup InHand /\ driver[r] = NoDriver
  BY <1>1 DEF Inv, Types, ActiveTypes, NoRequestLost, DriversFit
<1>4. QueueTypes'
  <2>1. queue' = [q \in DOMAIN queue \cup {r} |->
                    IF q = r THEN PendingPrefill(PromptLength[r]) ELSE queue[q]]
    BY DEF Arrive, Enqueue, Put
  <2>2. PendingPrefill(PromptLength[r]) \in QueueEntry
    BY RequestAssumption DEF PendingPrefill, QueueEntry
  <2> QED
    BY <1>1, <2>1, <2>2 DEF Inv, Types, QueueTypes
<1>5. ActiveTypes'
  <2>1. active' = [q \in DOMAIN active \cup {r} |-> IF q = r THEN 0 ELSE active[q]]
    BY DEF Arrive, Put
  <2> QED
    BY <1>1, <2>1 DEF Inv, Types, ActiveTypes
<1>6. StreamTypes' /\ ClientTypes'
  <2>1. /\ stream' = [q \in DOMAIN stream \cup {r} |->
                        IF q = r THEN [chunks |-> <<>>, closed |-> FALSE] ELSE stream[q]]
        /\ conn' = [q \in DOMAIN conn \cup {r} |-> IF q = r THEN "open" ELSE conn[q]]
    BY DEF Arrive, Put
  <2>2. [chunks |-> <<>>, closed |-> FALSE] \in StreamState
    BY DEF StreamState
  <2>3. Len(stream'[r].chunks) <= MaxChunks
    BY <1>1, RequestAssumption
  <2>4. StreamTypes'
    BY <1>1, <2>1, <2>2, <2>3 DEF Inv, Types, StreamTypes
  <2>5. ClientTypes'
    BY <1>1, <2>1 DEF Inv, Types, ClientTypes
  <2> QED
    BY <2>4, <2>5
<1>7. DriverTypes'
  BY <1>1 DEF Inv, Types, DriverTypes
<1>8. HandsFit'
  BY <1>2 DEF Inv, HandsFit
<1>9. NoRequestLost'
  BY <1>1, <1>2, <1>3 DEF Inv, NoRequestLost, InHand, PendingPrefill, NoDriver
<1>10. DriversFit'
  BY <1>1, <1>2 DEF Inv, DriversFit
<1>11. ClosingFits'
  <2>1. r \notin unreadable /\ r \notin engine.req
    BY <1>1, <1>3 DEF Inv, DriversFit, InHand
  <2>2. DOMAIN active \subseteq DOMAIN stream
    BY DEF Inv, Types, ActiveTypes
  <2>3. engine.req \subseteq DOMAIN active
    BY DEF Inv, NoRequestLost, InHand
  <2> QED
    BY <1>1, <1>2, <2>1, <2>2, <2>3 DEF Inv, ClosingFits
<1> QED
  BY <1>2, <1>4, <1>5, <1>6, <1>7, <1>8, <1>9, <1>10, <1>11 DEF Inv, Types

LEMMA DeliverInv ==
  ASSUME Inv, NEW r \in Request, Deliver(r)
  PROVE  Inv'
<1>1. /\ r \in DOMAIN stream /\ conn[r] = "open" /\ stream[r].chunks # <<>>
      /\ UNCHANGED <<queue, allocated, congested, active, driver, conn, lost, unreadable, engine>>
  BY DEF Deliver, Open, queueVars, noteVars, Inv, Types, ClientTypes
<1>2. stream[r] \in StreamState /\ stream[r].chunks \in Seq(Chunk)
  BY <1>1 DEF Inv, Types, StreamTypes, StreamState
<1>3. /\ Tail(stream[r].chunks) \in Seq(Chunk) /\ Head(stream[r].chunks) \in Chunk
      /\ Len(Tail(stream[r].chunks)) = Len(stream[r].chunks) - 1
      /\ Len(stream[r].chunks) \in Nat
  BY <1>1, <1>2, HeadTailProperties
<1>4. /\ stream' = [stream EXCEPT ![r] = [stream[r] EXCEPT !.chunks = Tail(@)]]
      /\ received' = [received EXCEPT ![r] = Append(@, Head(stream[r].chunks))]
  BY DEF Deliver
<1>5. /\ [stream[r] EXCEPT !.chunks = Tail(@)] \in StreamState
      /\ [stream[r] EXCEPT !.chunks = Tail(@)].chunks = Tail(stream[r].chunks)
      /\ [stream[r] EXCEPT !.chunks = Tail(@)].closed = stream[r].closed
  BY <1>2, <1>3 DEF StreamState
<1>6. /\ DOMAIN stream' = DOMAIN stream
      /\ \A q \in DOMAIN stream : stream'[q].closed = stream[q].closed
      /\ \A q \in DOMAIN stream : q # r => stream'[q] = stream[q]
  BY <1>1, <1>4, <1>5
<1>7. StreamTypes'
  <2>1. Len(Tail(stream[r].chunks)) <= MaxChunks
    BY <1>1, <1>3, RequestAssumption DEF Inv, Types, StreamTypes
  <2> QED
    BY <1>1, <1>4, <1>5, <2>1 DEF Inv, Types, StreamTypes
<1>8. ClientTypes'
  <2>1. Append(received[r], Head(stream[r].chunks)) \in Seq(Chunk)
    BY <1>3 DEF Inv, Types, ClientTypes
  <2> QED
    BY <1>1, <1>4, <1>6, <2>1 DEF Inv, Types, ClientTypes
<1>9. QueueTypes' /\ ActiveTypes' /\ DriverTypes' /\ EngineTypes'
  BY <1>1, <1>6 DEF Inv, Types, QueueTypes, ActiveTypes, DriverTypes, EngineTypes
<1>10. HandsFit'
  BY <1>1 DEF Inv, HandsFit
<1>11. NoRequestLost'
  BY <1>1, <1>6 DEF Inv, NoRequestLost, InHand
<1>12. DriversFit'
  BY <1>1, <1>6 DEF Inv, DriversFit
<1>13. ClosingFits'
  BY <1>1, <1>6 DEF Inv, ClosingFits, Types, ActiveTypes, NoRequestLost, InHand
<1> QED
  BY <1>7, <1>8, <1>9, <1>10, <1>11, <1>12, <1>13 DEF Inv, Types

LEMMA EndOfStreamInv ==
  ASSUME Inv, NEW r \in Request, EndOfStream(r)
  PROVE  Inv'
<1>1. /\ r \in DOMAIN stream /\ conn[r] = "open" /\ stream[r].closed /\ stream[r].chunks = <<>>
      /\ conn' = [conn EXCEPT ![r] = "ended"]
      /\ UNCHANGED <<queue, allocated, congested, active, driver, stream, received, lost,
                     unreadable, engine>>
  BY DEF EndOfStream, Open, queueVars, noteVars, Inv, Types, ClientTypes
<1>2. ClientTypes'
  BY <1>1 DEF Inv, Types, ClientTypes
<1>3. Types'
  BY <1>1, <1>2 DEF Inv, Types, QueueTypes, ActiveTypes, StreamTypes, DriverTypes, EngineTypes
<1>4. HandsFit' /\ NoRequestLost' /\ DriversFit'
  BY <1>1 DEF Inv, HandsFit, NoRequestLost, InHand, DriversFit
<1>5. ClosingFits'
  BY <1>1 DEF Inv, ClosingFits, Types, ClientTypes
<1> QED
  BY <1>3, <1>4, <1>5 DEF Inv

LEMMA DropInv ==
  ASSUME Inv, NEW r \in Request, Drop(r)
  PROVE  Inv'
<1>1. /\ r \in DOMAIN stream /\ conn[r] = "open" /\ conn' = [conn EXCEPT ![r] = "dropped"]
      /\ UNCHANGED <<queue, allocated, congested, active, driver, received, lost,
                     unreadable, engine>>
  BY DEF Drop, Open, queueVars, noteVars, Inv, Types, ClientTypes
<1>2. /\ StreamTypes' /\ DOMAIN stream' = DOMAIN stream
      /\ \A q \in DOMAIN stream : stream'[q].chunks = stream[q].chunks
      /\ \A q \in DOMAIN stream : stream'[q].closed <=> (q = r \/ stream[q].closed)
  BY <1>1, CloseEffect DEF Drop, Inv, Types
<1>3. ClientTypes'
  BY <1>1, <1>2 DEF Inv, Types, ClientTypes
<1>4. Types'
  BY <1>1, <1>2, <1>3 DEF Inv, Types, QueueTypes, ActiveTypes, DriverTypes, EngineTypes
<1>5. HandsFit' /\ NoRequestLost' /\ DriversFit'
  BY <1>1, <1>2 DEF Inv, HandsFit, NoRequestLost, InHand, DriversFit
<1>6. ClosingFits'
  <2>1. DOMAIN conn = DOMAIN stream /\ DOMAIN active \subseteq DOMAIN stream
    BY DEF Inv, Types, ClientTypes, ActiveTypes
  <2>2. \A q \in DOMAIN stream : q # r => conn'[q] = conn[q]
    BY <1>1, <2>1
  <2>3. conn'[r] = "dropped"
    BY <1>1, <2>1
  <2>4. DOMAIN active = DOMAIN queue \cup InHand
    BY DEF Inv, NoRequestLost
  <2> QED
    BY <1>1, <1>2, <2>1, <2>2, <2>3, <2>4 DEF Inv, ClosingFits, InHand
<1> QED
  BY <1>4, <1>5, <1>6 DEF Inv

LEMMA WaitInv ==
  ASSUME Inv, WaitForWork
  PROVE  Inv'
<1>1. /\ engine.pc = "loop" /\ engine'.pc = "asleep" /\ engine'.batch = engine.batch
      /\ engine'.candidate = engine.candidate /\ engine'.req = engine.req /\ EngineTypes'
      /\ UNCHANGED <<queue, allocated, congested, active, driver, stream, conn, received,
                     lost, unreadable>>
  BY DEF WaitForWork, At, EngineGoto, queueVars, clientVars, noteVars, Inv, Types, EngineTypes, EngineState, Steps
<1>2. Types'
  BY <1>1 DEF Inv, Types, QueueTypes, ActiveTypes, StreamTypes, ClientTypes, DriverTypes
<1>3. HandsFit'
  BY <1>1 DEF Inv, HandsFit
<1>4. NoRequestLost' /\ DriversFit'
  BY <1>1 DEF Inv, NoRequestLost, InHand, DriversFit, HandsFit
<1>5. ClosingFits'
  BY <1>1 DEF Inv, ClosingFits, HandsFit
<1> QED
  BY <1>2, <1>3, <1>4, <1>5 DEF Inv

LEMMA PopBatchInv ==
  ASSUME Inv, PopBatch
  PROVE  Inv'
<1>1. PICK decodes \in {<<>>} \cup {<<r>> : r \in Waiting("decode")},
           candidate \in {{}} \cup {{r} : r \in Admissible} :
        /\ engine' = [Idle EXCEPT !.pc = "round", !.batch = decodes,
                                  !.candidate = candidate, !.decoded = (decodes # <<>>)]
        /\ queue' = Restrict(queue, DOMAIN queue \ (Range(decodes) \cup candidate))
        /\ UNCHANGED <<allocated, congested>>
  BY DEF PopBatch, PopNextBatch
<1>2. /\ engine.pc = "loop"
      /\ UNCHANGED <<active, driver, stream, conn, received, lost, unreadable>>
  BY DEF PopBatch, At, clientVars, noteVars
<1>3. /\ \A r \in Range(decodes) : r \in DOMAIN queue /\ queue[r].phase = "decode"
      /\ decodes = <<>> \/ \E r \in DOMAIN queue : decodes = <<r>>
  BY <1>1, NoDomain, OneDomain DEF Waiting
<1>4. /\ \A r \in candidate : r \in DOMAIN queue /\ queue[r].phase = "prefill"
      /\ candidate = {} \/ \E r \in DOMAIN queue : candidate = {r}
  BY <1>1 DEF Waiting, Admissible
<1>5. /\ engine'.pc = "round" /\ engine'.batch = decodes /\ engine'.candidate = candidate
      /\ engine'.req = {}
  BY <1>1 DEF Idle
<1>6. /\ DOMAIN queue' = DOMAIN queue \ (Range(decodes) \cup candidate)
      /\ \A r \in DOMAIN queue' : queue'[r] = queue[r]
  BY <1>1 DEF Restrict
<1>7. InHand = {} /\ InHand' = Range(decodes) \cup candidate
  BY <1>2, <1>5, NoDomain DEF InHand, Inv, HandsFit
<1>8. EngineTypes'
  <2>1. decodes \in Batches /\ candidate \in AtMostOne
    BY <1>3, <1>4 DEF Batches, AtMostOne, Inv, Types, QueueTypes
  <2>2. engine' = [pc |-> "round", batch |-> decodes, candidate |-> candidate,
                   decoded |-> (decodes # <<>>), req |-> {}, count |-> 0, out |-> <<>>]
    BY <1>1 DEF Idle
  <2>3. (decodes # <<>>) \in BOOLEAN /\ {} \in AtMostOne /\ <<>> \in Seq(Chunk) /\ "round" \in Steps
    BY DEF AtMostOne, Steps
  <2> QED
    BY <2>1, <2>2, <2>3 DEF EngineTypes, EngineState
<1>9. QueueTypes'
  BY <1>1, <1>6 DEF Restrict, Inv, Types, QueueTypes
<1>10. Types'
  BY <1>2, <1>8, <1>9 DEF Inv, Types, ActiveTypes, StreamTypes, ClientTypes, DriverTypes
<1>11. HandsFit'
  BY <1>3, <1>4, <1>5 DEF HandsFit
<1>12. NoRequestLost'
  <2>1. DOMAIN active = DOMAIN queue
    BY <1>7 DEF Inv, NoRequestLost
  <2> QED
    BY <1>2, <1>3, <1>4, <1>6, <1>7, <2>1 DEF Inv, NoRequestLost
<1>13. DriversFit'
  <2>1. /\ \A r \in Range(decodes) : driver[r].status = "active"
        /\ \A r \in candidate : driver[r].status = "none"
    BY <1>3, <1>4 DEF Inv, NoRequestLost
  <2> QED
    BY <1>2, <1>5, <2>1 DEF Inv, DriversFit
<1>14. ClosingFits'
  BY <1>2, <1>5 DEF Inv, ClosingFits, HandsFit
<1> QED
  BY <1>10, <1>11, <1>12, <1>13, <1>14 DEF Inv

\* What a driver may be after a token, a whole prompt's first one or the next.
LEMMA TokenEffect ==
  ASSUME DriverTypes, NEW r \in Request,
         driver' = Failed(r) \/ \E d \in AfterToken(r) : driver' = [driver EXCEPT ![r] = d]
  PROVE  /\ driver' \in [Request -> DriverState]
         /\ \A q \in Request : q # r => driver'[q] = driver[q]
         /\ driver' = Failed(r) =>
              /\ driver'[r].status = "failed" /\ driver'[r].leased = FALSE
              /\ driver'[r].tokens = driver[r].tokens
         /\ driver' # Failed(r) =>
              /\ driver'[r].status \in {"active", "finished"}
              /\ driver'[r].tokens = driver[r].tokens + 1
              /\ driver'[r].leased => driver'[r].status = "active"
<1>1. driver[r] \in DriverState /\ driver[r].tokens \in Nat
  BY DEF DriverTypes, DriverState
<1>2. CASE driver' = Failed(r)
  <2>1. driver' = [driver EXCEPT ![r] = [driver[r] EXCEPT !.status = "failed", !.leased = FALSE]]
    BY <1>2 DEF Failed
  <2>2. [driver[r] EXCEPT !.status = "failed", !.leased = FALSE] \in DriverState
    BY <1>1 DEF DriverState
  <2>3. /\ [driver[r] EXCEPT !.status = "failed", !.leased = FALSE].status = "failed"
        /\ [driver[r] EXCEPT !.status = "failed", !.leased = FALSE].leased = FALSE
        /\ [driver[r] EXCEPT !.status = "failed", !.leased = FALSE].tokens = driver[r].tokens
    BY <1>1 DEF DriverState
  <2> QED
    BY <1>2, <2>1, <2>2, <2>3 DEF DriverTypes
<1>3. ASSUME NEW d \in AfterToken(r), driver' = [driver EXCEPT ![r] = d]
      PROVE  /\ driver' \in [Request -> DriverState]
             /\ \A q \in Request : q # r => driver'[q] = driver[q]
             /\ driver'[r].status \in {"active", "finished"}
             /\ driver'[r].tokens = driver[r].tokens + 1
             /\ driver'[r].leased => driver'[r].status = "active"
  <2>1. /\ d \in DriverState /\ d.status \in {"active", "finished"}
        /\ d.tokens = driver[r].tokens + 1 /\ (d.leased => d.status = "active")
    <3>1. \/ d = [status |-> "finished", tokens |-> driver[r].tokens + 1, leased |-> FALSE]
          \/ d = [status |-> "active", tokens |-> driver[r].tokens + 1, leased |-> TRUE]
      BY DEF AfterToken
    <3>2. driver[r].tokens + 1 \in Nat
      BY <1>1
    <3>3. CASE d = [status |-> "finished", tokens |-> driver[r].tokens + 1, leased |-> FALSE]
      BY <3>2, <3>3 DEF DriverState
    <3>4. CASE d = [status |-> "active", tokens |-> driver[r].tokens + 1, leased |-> TRUE]
      BY <3>2, <3>4 DEF DriverState
    <3> QED
      BY <3>1, <3>3, <3>4
  <2> QED
    BY <1>3, <2>1 DEF DriverTypes
<1> QED
  BY <1>2, <1>3

LEMMA StepDecodeInv ==
  ASSUME Inv, StepDecode
  PROVE  Inv'
<1> DEFINE r == Head(engine.batch)
<1>1. engine.pc = "round" /\ engine.batch # <<>> /\ engine.req = {}
  BY DEF StepDecode, At, Inv, HandsFit
<1>2. engine.batch = <<r>> /\ Tail(engine.batch) = <<>> /\ Range(engine.batch) = {r} /\ r \in Request
  BY <1>1, BatchIs DEF Inv, Types
<1>3. /\ driver' = Failed(r) \/ \E d \in AfterToken(r) : driver' = [driver EXCEPT ![r] = d]
      /\ \/ driver' = Failed(r) /\ engine' = [engine EXCEPT !.batch = Tail(@), !.req = {r},
                                                             !.count = 1, !.pc = "fail"]
         \/ /\ \E d \in AfterToken(r) : driver' = [driver EXCEPT ![r] = d]
            /\ engine' = [engine EXCEPT !.batch = Tail(@), !.req = {r}, !.count = 1,
                                        !.pc = "account"]
      /\ UNCHANGED <<queue, allocated, congested, active, stream, conn, received, lost, unreadable>>
  BY DEF StepDecode, queueVars, clientVars, noteVars
<1> HIDE DEF r
<1>4. /\ EngineTypes' /\ engine'.batch = <<>> /\ engine'.candidate = engine.candidate
      /\ engine'.req = {r} /\ engine'.pc \in {"fail", "account"}
  <2>1. {r} \in AtMostOne /\ <<>> \in Batches
    BY <1>2 DEF AtMostOne, Batches
  <2>2. PICK pc \in {"fail", "account"} :
          engine' = [engine EXCEPT !.batch = <<>>, !.req = {r}, !.count = 1, !.pc = pc]
    BY <1>2, <1>3
  <2>3. engine \in EngineState /\ pc \in Steps
    BY DEF Inv, Types, EngineTypes, Steps
  <2> QED
    BY <2>1, <2>2, <2>3 DEF EngineTypes, EngineState
<1>5. engine'.pc = "fail" => driver' = Failed(r)
  BY <1>3 DEF Inv, Types, EngineTypes, EngineState
<1>6. engine'.pc = "account" => driver' # Failed(r)
  <2>1. ASSUME NEW d \in AfterToken(r), driver' = [driver EXCEPT ![r] = d]
        PROVE  driver' # Failed(r)
    <3>1. d.status # "failed"
      BY DEF AfterToken
    <3>2. driver'[r] = d
      BY <1>2, <2>1 DEF Inv, Types, DriverTypes
    <3>3. Failed(r)[r].status = "failed"
      BY <1>2 DEF Failed, Inv, Types, DriverTypes, DriverState
    <3> QED
      BY <3>1, <3>2, <3>3
  <2>2. engine'.pc = "account" => \E d \in AfterToken(r) : driver' = [driver EXCEPT ![r] = d]
    BY <1>3 DEF Inv, Types, EngineTypes, EngineState
  <2> QED
    BY <2>1, <2>2
<1>7. /\ driver' \in [Request -> DriverState]
      /\ \A q \in Request : q # r => driver'[q] = driver[q]
      /\ driver' = Failed(r) => driver'[r].status = "failed" /\ driver'[r].leased = FALSE
      /\ driver' # Failed(r) => /\ driver'[r].status \in {"active", "finished"}
                                /\ driver'[r].tokens = driver[r].tokens + 1
                                /\ driver'[r].leased => driver'[r].status = "active"
  BY <1>2, <1>3, TokenEffect DEF Inv, Types
<1>8. Types'
  BY <1>3, <1>4, <1>7 DEF Inv, Types, QueueTypes, ActiveTypes, StreamTypes, ClientTypes, DriverTypes
<1>9. HandsFit'
  BY <1>1, <1>2, <1>4, NoDomain DEF Inv, HandsFit
<1>10. InHand' = InHand /\ r \in InHand
  BY <1>1, <1>2, <1>4, NoDomain DEF InHand
<1>11. NoRequestLost'
  BY <1>3, <1>7, <1>10 DEF Inv, NoRequestLost, Types, QueueTypes
<1>12. DriversFit'
  <2>1. r \in DOMAIN stream /\ r \notin engine.candidate /\ engine.candidate \subseteq Request
    BY <1>2, <1>10 DEF Inv, NoRequestLost, Types, ActiveTypes, HandsFit, EngineTypes, EngineState, AtMostOne
  <2>2. driver[r].tokens \in Nat /\ driver[r].tokens + 1 > 0 /\ r \in DOMAIN active
    BY <1>2, <1>10 DEF Inv, Types, DriverTypes, DriverState, NoRequestLost
  <2>3. \A q \in DOMAIN stream' \ DOMAIN active' :
          driver'[q].status \in {"finished", "failed"} \/ q \in unreadable'
    BY <1>3, <1>7, <2>2 DEF Inv, DriversFit, Types, StreamTypes
  <2> QED
    BY <1>2, <1>3, <1>4, <1>5, <1>6, <1>7, <2>1, <2>2, <2>3, NoDomain DEF Inv, DriversFit
<1>13. ClosingFits'
  BY <1>1, <1>3, <1>4 DEF Inv, ClosingFits, HandsFit
<1> QED
  BY <1>8, <1>9, <1>11, <1>12, <1>13 DEF Inv

LEMMA PostponeInv ==
  ASSUME Inv, Postpone
  PROVE  Inv'
<1>1. PICK r \in engine.candidate : queue' = Put(queue, r, PendingPrefill(PromptLength[r]))
  BY DEF Postpone, Enqueue
<1>2. /\ engine.pc = "round" /\ engine.batch = <<>> /\ engine' = Idle
      /\ UNCHANGED <<allocated, congested, active, driver, stream, conn, received, lost, unreadable>>
  BY DEF Postpone, At, clientVars, noteVars
<1>3. engine.candidate = {r} /\ r \in Request /\ engine.req = {}
  BY <1>2 DEF Inv, Types, EngineTypes, EngineState, AtMostOne, HandsFit
<1>4. InHand = {r} /\ InHand' = {}
  BY <1>2, <1>3, NoDomain DEF InHand, Idle
<1>5. EngineTypes' /\ engine'.pc = "loop" /\ engine'.batch = <<>> /\ engine'.candidate = {} /\ engine'.req = {}
  BY <1>2 DEF Idle, EngineTypes, EngineState, Steps, Batches, AtMostOne
<1>6. QueueTypes' /\ DOMAIN queue' = DOMAIN queue \cup {r}
  <2>1. PendingPrefill(PromptLength[r]) \in QueueEntry
    BY <1>3, RequestAssumption DEF PendingPrefill, QueueEntry
  <2> QED
    BY <1>1, <1>2, <1>3, <2>1 DEF Put, Inv, Types, QueueTypes
<1>7. Types'
  BY <1>2, <1>5, <1>6 DEF Inv, Types, ActiveTypes, StreamTypes, ClientTypes, DriverTypes
<1>8. HandsFit'
  BY <1>5, NoDomain DEF HandsFit
<1>9. NoRequestLost'
  <2>1. \A q \in DOMAIN queue : queue'[q] = queue[q] \/ q = r
    BY <1>1 DEF Put
  <2>2. queue'[r].phase = "prefill" /\ driver[r].status = "none"
    BY <1>1, <1>3 DEF Put, PendingPrefill, Inv, DriversFit
  <2> QED
    BY <1>2, <1>4, <1>6, <2>1, <2>2 DEF Inv, NoRequestLost
<1>10. DriversFit'
  BY <1>2, <1>5, NoDomain DEF Inv, DriversFit
<1>11. ClosingFits'
  BY <1>2, <1>3, <1>5 DEF Inv, ClosingFits
<1> QED
  BY <1>7, <1>8, <1>9, <1>10, <1>11 DEF Inv

LEMMA PrefillInv ==
  ASSUME Inv, Prefill
  PROVE  Inv'
<1>1. PICK r \in engine.candidate : PrefillOf(r)
  BY DEF Prefill
<1>2. /\ engine.pc = "round" /\ engine.batch = <<>>
      /\ UNCHANGED <<queue, allocated, congested, active, stream, conn, received, lost, unreadable>>
  BY DEF Prefill, At, queueVars, clientVars, noteVars
<1>3. engine.candidate = {r} /\ r \in Request /\ engine.req = {}
  BY <1>2 DEF Inv, Types, EngineTypes, EngineState, AtMostOne, HandsFit
<1>4. /\ driver' = Failed(r) \/ \E d \in AfterToken(r) : driver' = [driver EXCEPT ![r] = d]
      /\ PromptLength[r] + 1 \in Nat
  BY <1>1, <1>3, RequestAssumption DEF PrefillOf
<1>5. PICK pc \in {"fail", "account"} :
        /\ engine' = [engine EXCEPT !.candidate = {}, !.req = {r}, !.count = PromptLength[r] + 1,
                                    !.pc = pc]
        /\ pc = "fail" => driver' = Failed(r)
        /\ pc = "account" => \E d \in AfterToken(r) : driver' = [driver EXCEPT ![r] = d]
  BY <1>1 DEF PrefillOf
<1>6. /\ EngineTypes' /\ engine'.batch = <<>> /\ engine'.candidate = {}
      /\ engine'.req = {r} /\ engine'.pc = pc
  <2>1. {r} \in AtMostOne /\ {} \in AtMostOne /\ pc \in Steps /\ engine \in EngineState
    BY <1>3 DEF AtMostOne, Steps, Inv, Types, EngineTypes
  <2> QED
    BY <1>2, <1>4, <1>5, <2>1 DEF EngineTypes, EngineState
<1>7. pc = "account" => driver' # Failed(r)
  <2>1. ASSUME NEW d \in AfterToken(r), driver' = [driver EXCEPT ![r] = d]
        PROVE  driver' # Failed(r)
    <3>1. d.status # "failed"
      BY DEF AfterToken
    <3>2. driver'[r] = d
      BY <1>3, <2>1 DEF Inv, Types, DriverTypes
    <3>3. Failed(r)[r].status = "failed"
      BY <1>3 DEF Failed, Inv, Types, DriverTypes, DriverState
    <3> QED
      BY <3>1, <3>2, <3>3
  <2> QED
    BY <1>5, <2>1
<1>8. /\ driver' \in [Request -> DriverState]
      /\ \A q \in Request : q # r => driver'[q] = driver[q]
      /\ driver' = Failed(r) => driver'[r].status = "failed" /\ driver'[r].leased = FALSE
      /\ driver' # Failed(r) => /\ driver'[r].status \in {"active", "finished"}
                                /\ driver'[r].tokens = driver[r].tokens + 1
                                /\ driver'[r].leased => driver'[r].status = "active"
  BY <1>3, <1>4, TokenEffect DEF Inv, Types
<1>9. Types'
  BY <1>2, <1>6, <1>8 DEF Inv, Types, QueueTypes, ActiveTypes, StreamTypes, ClientTypes, DriverTypes
<1>10. HandsFit'
  BY <1>5, <1>6, NoDomain DEF HandsFit
<1>11. InHand' = InHand /\ r \in InHand
  BY <1>2, <1>3, <1>6, NoDomain DEF InHand
<1>12. NoRequestLost'
  BY <1>2, <1>8, <1>11 DEF Inv, NoRequestLost, Types, QueueTypes
<1>13. DriversFit'
  <2>1. r \in DOMAIN stream
    BY <1>11 DEF Inv, NoRequestLost, Types, ActiveTypes
  <2>2. driver[r].tokens \in Nat /\ driver[r].tokens + 1 > 0 /\ r \in DOMAIN active
    BY <1>3, <1>11 DEF Inv, Types, DriverTypes, DriverState, NoRequestLost
  <2>3. \A q \in DOMAIN stream' \ DOMAIN active' :
          driver'[q].status \in {"finished", "failed"} \/ q \in unreadable'
    BY <1>2, <1>8, <2>2 DEF Inv, DriversFit, Types, StreamTypes
  <2> QED
    BY <1>2, <1>3, <1>5, <1>6, <1>7, <1>8, <2>1, <2>2, <2>3, NoDomain DEF Inv, DriversFit
<1>14. ClosingFits'
  BY <1>2, <1>3, <1>5, <1>6 DEF Inv, ClosingFits
<1> QED
  BY <1>9, <1>10, <1>12, <1>13, <1>14 DEF Inv

LEMMA EndRoundInv ==
  ASSUME Inv, EndRound
  PROVE  Inv'
<1>1. /\ engine.pc = "round" /\ engine.batch = <<>> /\ engine.candidate = {} /\ engine' = Idle
      /\ UNCHANGED <<queue, allocated, congested, active, driver, stream, conn, received, lost,
                     unreadable>>
  BY DEF EndRound, At, queueVars, clientVars, noteVars
<1>2. EngineTypes' /\ engine'.pc = "loop" /\ engine'.batch = <<>> /\ engine'.candidate = {} /\ engine'.req = {}
  BY <1>1 DEF Idle, EngineTypes, EngineState, Steps, Batches, AtMostOne
<1>3. engine.req = {} /\ InHand' = InHand
  BY <1>1, <1>2 DEF Inv, HandsFit, InHand
<1>4. Types'
  BY <1>1, <1>2 DEF Inv, Types, QueueTypes, ActiveTypes, StreamTypes, ClientTypes, DriverTypes
<1>5. HandsFit'
  BY <1>2, NoDomain DEF HandsFit
<1>6. NoRequestLost'
  BY <1>1, <1>3 DEF Inv, NoRequestLost
<1>7. DriversFit' /\ ClosingFits'
  BY <1>1, <1>2, <1>3, NoDomain DEF Inv, DriversFit, ClosingFits
<1> QED
  BY <1>4, <1>5, <1>6, <1>7 DEF Inv

\* The end of the process leaves everything where it is, but for the connections.
LEMMA StepRaisesIs ==
  ASSUME Inv, StepRaises
  PROVE  /\ engine.pc = "round" /\ engine'.pc = "over" /\ engine' \in EngineState
         /\ engine'.batch = engine.batch /\ engine'.candidate = engine.candidate
         /\ engine'.decoded = engine.decoded /\ engine'.req = engine.req /\ engine.req = {}
         /\ conn' \in [DOMAIN stream -> {"open", "ended", "dropped", "cut"}]
         /\ \A r \in DOMAIN stream : /\ conn'[r] = "dropped" <=> conn[r] = "dropped"
                                     /\ conn'[r] = "ended" <=> conn[r] = "ended"
         /\ UNCHANGED <<queue, allocated, congested, active, driver, stream, received, lost,
                        unreadable>>
<1>1. engine \in EngineState /\ conn \in [DOMAIN stream -> {"open", "ended", "dropped", "cut"}]
  BY DEF Inv, Types, EngineTypes, ClientTypes
<1>2. /\ engine.pc = "round" /\ engine' = [engine EXCEPT !.pc = "over"]
      /\ UNCHANGED <<queue, allocated, congested, active, driver, stream, received, lost,
                     unreadable>>
  BY DEF StepRaises, At, EngineGoto, queueVars, noteVars
<1>3. conn' = [r \in DOMAIN stream |-> IF conn[r] = "open" THEN "cut" ELSE conn[r]]
  BY <1>1 DEF StepRaises
<1>4. engine.req = {}
  BY <1>2 DEF Inv, HandsFit
<1> QED
  BY <1>1, <1>2, <1>3, <1>4 DEF EngineState, Steps

LEMMA StepRaisesInv ==
  ASSUME Inv, StepRaises
  PROVE  Inv'
<1>1. Types'
  BY StepRaisesIs DEF Inv, Types, QueueTypes, ActiveTypes, StreamTypes, ClientTypes, DriverTypes,
     EngineTypes
<1>2. HandsFit'
  BY StepRaisesIs DEF Inv, HandsFit
<1>3. NoRequestLost'
  BY StepRaisesIs DEF Inv, NoRequestLost, InHand
<1>4. DriversFit'
  BY StepRaisesIs DEF Inv, DriversFit
<1>5. ClosingFits'
  <2>1. \A r \in unreadable \cap DOMAIN active : FALSE
    BY StepRaisesIs DEF Inv, ClosingFits
  <2>2. \A r \in DOMAIN active : ~(stream[r].closed /\ conn[r] # "dropped")
    BY StepRaisesIs DEF Inv, ClosingFits
  <2>3. \A r \in DOMAIN active : r \in DOMAIN stream
    BY DEF Inv, Types, ActiveTypes
  <2>4. \A r \in DOMAIN stream' : conn'[r] = "ended" => stream'[r].closed /\ stream'[r].chunks = <<>>
    BY StepRaisesIs DEF Inv, ClosingFits
  <2> QED
    BY <2>1, <2>2, <2>3, <2>4, StepRaisesIs DEF ClosingFits
<1> QED
  BY <1>1, <1>2, <1>3, <1>4, <1>5 DEF Inv

LEMMA AccountInv ==
  ASSUME Inv, Account
  PROVE  Inv'
<1>1. /\ engine.pc = "account" /\ engine' = [engine EXCEPT !.pc = "emit"]
      /\ UNCHANGED <<queue, driver, stream, conn, received, lost, unreadable>>
  BY DEF Account, At, EngineGoto, clientVars, noteVars
<1>2. /\ EngineTypes' /\ engine'.pc = "emit" /\ engine'.batch = engine.batch
      /\ engine'.candidate = engine.candidate /\ engine'.req = engine.req /\ engine.count \in Nat
  BY <1>1 DEF Inv, Types, EngineTypes, EngineState, Steps
<1>3. engine.req = {Current} /\ Current \in Request
  BY <1>1, CurrentIs DEF Inv, Types, HandsFit
<1>4. Current \in DOMAIN active
  BY <1>3 DEF Inv, NoRequestLost, InHand
<1>5. /\ active' = [active EXCEPT ![Current] = @ + engine.count] /\ DOMAIN active' = DOMAIN active
      /\ ReserveTokens(engine.count)
  BY DEF Account
<1>6. QueueTypes'
  <2>1. allocated' \in 0 .. TokenCapacity
    BY <1>2, <1>5, QueueAssumption DEF ReserveTokens, Inv, Types, QueueTypes
  <2>2. congested' \in BOOLEAN
    BY <1>5 DEF ReserveTokens
  <2> QED
    BY <1>1, <2>1, <2>2 DEF Inv, Types, QueueTypes
<1>7. ActiveTypes'
  BY <1>1, <1>2, <1>4, <1>5 DEF Inv, Types, ActiveTypes
<1>8. Types'
  BY <1>1, <1>2, <1>6, <1>7 DEF Inv, Types, StreamTypes, ClientTypes, DriverTypes
<1>9. HandsFit'
  BY <1>1, <1>2 DEF Inv, HandsFit
<1>10. NoRequestLost'
  BY <1>1, <1>2, <1>5 DEF Inv, NoRequestLost, InHand
<1>11. DriversFit' /\ ClosingFits'
  BY <1>1, <1>2, <1>5 DEF Inv, DriversFit, ClosingFits
<1> QED
  BY <1>8, <1>9, <1>10, <1>11 DEF Inv

LEMMA EmitTokenInv ==
  ASSUME Inv, EmitToken
  PROVE  Inv'
<1>1. /\ engine.pc = "emit" /\ Push(Current, TokenChunk(driver[Current].tokens))
      /\ UNCHANGED <<queue, allocated, congested, active, driver, conn, received, unreadable>>
  BY DEF EmitToken, At, queueVars, clientVars
<1>2. engine.req = {Current} /\ Current \in Request
  BY <1>1, CurrentIs DEF Inv, Types, HandsFit
<1>3. Current \in DOMAIN active /\ Current \in DOMAIN stream
  BY <1>2 DEF Inv, NoRequestLost, InHand, Types, ActiveTypes
<1>4. /\ driver[Current].tokens \in Nat /\ driver[Current].status \in {"active", "finished"}
  BY <1>1, <1>2 DEF Inv, Types, DriverTypes, DriverState, DriversFit
<1>5. TokenChunk(driver[Current].tokens) \in Chunk
  BY <1>4 DEF TokenChunk, Chunk
<1>6. /\ StreamTypes' /\ DOMAIN stream' = DOMAIN stream /\ lost' \subseteq Request
      /\ \A q \in DOMAIN stream : stream'[q].closed = stream[q].closed
      /\ \A q \in DOMAIN stream : q # Current => stream'[q] = stream[q]
      /\ stream[Current].closed => stream' = stream
  BY <1>1, <1>3, <1>5, PushEffect DEF Inv, Types
<1>7. /\ EngineTypes' /\ engine'.batch = engine.batch /\ engine'.candidate = engine.candidate
      /\ engine'.req = engine.req
      /\ engine'.pc = IF driver[Current].status = "finished" THEN "finish" ELSE "requeue"
  <2>1. engine \in EngineState
    BY DEF Inv, Types, EngineTypes
  <2>2. CASE driver[Current].status = "finished"
    <3>1. engine' = [engine EXCEPT !.pc = "finish", !.out = Ending(driver[Current].tokens)]
      BY <2>2 DEF EmitToken
    <3>2. Ending(driver[Current].tokens) \in Seq(Chunk)
      BY <1>4 DEF Ending, Chunk
    <3> QED
      BY <2>1, <2>2, <3>1, <3>2 DEF EngineTypes, EngineState, Steps
  <2>3. CASE driver[Current].status # "finished"
    <3>1. engine' = [engine EXCEPT !.pc = "requeue"]
      BY <2>3 DEF EmitToken
    <3> QED
      BY <2>1, <2>3, <3>1 DEF EngineTypes, EngineState, Steps
  <2> QED
    BY <2>2, <2>3
<1>8. Types'
  BY <1>1, <1>6, <1>7 DEF Inv, Types, QueueTypes, ActiveTypes, ClientTypes, DriverTypes
<1>9. HandsFit'
  BY <1>1, <1>2, <1>7 DEF Inv, HandsFit
<1>10. NoRequestLost'
  BY <1>1, <1>6, <1>7 DEF Inv, NoRequestLost, InHand
<1>11. DriversFit'
  BY <1>1, <1>2, <1>4, <1>6, <1>7 DEF Inv, DriversFit
<1>12. ClosingFits'
  <2>1. \A q \in DOMAIN stream : conn[q] = "ended" => stream'[q] = stream[q]
    BY <1>6 DEF Inv, ClosingFits
  <2>2. DOMAIN active \subseteq DOMAIN stream
    BY DEF Inv, Types, ActiveTypes
  <2> QED
    BY <1>1, <1>2, <1>6, <1>7, <2>1, <2>2 DEF Inv, ClosingFits
<1> QED
  BY <1>8, <1>9, <1>10, <1>11, <1>12 DEF Inv

LEMMA EmitFailsInv ==
  ASSUME Inv, EmitFails
  PROVE  Inv'
<1>1. /\ engine.pc = "emit" /\ engine' = [engine EXCEPT !.pc = "fail"]
      /\ unreadable' = unreadable \cup {Current}
      /\ UNCHANGED <<queue, allocated, congested, active, driver, stream, conn, received, lost>>
  BY DEF EmitFails, At, EngineGoto, queueVars, clientVars
<1>2. /\ EngineTypes' /\ engine'.pc = "fail" /\ engine'.batch = engine.batch
      /\ engine'.candidate = engine.candidate /\ engine'.req = engine.req
  BY <1>1 DEF Inv, Types, EngineTypes, EngineState, Steps
<1>3. engine.req = {Current} /\ Current \in Request
  BY <1>1, CurrentIs DEF Inv, Types, HandsFit
<1>4. Current \in DOMAIN stream
  BY <1>3 DEF Inv, NoRequestLost, InHand, Types, ActiveTypes
<1>5. Types'
  BY <1>1, <1>2, <1>3 DEF Inv, Types, QueueTypes, ActiveTypes, StreamTypes, ClientTypes, DriverTypes
<1>6. HandsFit'
  BY <1>1, <1>2 DEF Inv, HandsFit
<1>7. NoRequestLost'
  BY <1>1, <1>2 DEF Inv, NoRequestLost, InHand
<1>8. DriversFit'
  BY <1>1, <1>2, <1>3, <1>4 DEF Inv, DriversFit
<1>9. ClosingFits'
  BY <1>1, <1>2, <1>3 DEF Inv, ClosingFits
<1> QED
  BY <1>5, <1>6, <1>7, <1>8, <1>9 DEF Inv

LEMMA EmitFinishInv ==
  ASSUME Inv, EmitFinish
  PROVE  Inv'
<1>1. /\ engine.pc = "finish" /\ engine.out # <<>> /\ Push(Current, Head(engine.out))
      /\ engine' = [engine EXCEPT !.out = Tail(@)]
      /\ UNCHANGED <<queue, allocated, congested, active, driver, conn, received, unreadable>>
  BY DEF EmitFinish, At, queueVars, clientVars
<1>2. engine.req = {Current} /\ Current \in Request
  BY <1>1, CurrentIs DEF Inv, Types, HandsFit
<1>3. Current \in DOMAIN active /\ Current \in DOMAIN stream
  BY <1>2 DEF Inv, NoRequestLost, InHand, Types, ActiveTypes
<1>4. engine \in EngineState /\ engine.out \in Seq(Chunk)
  BY DEF Inv, Types, EngineTypes, EngineState
<1>5. Head(engine.out) \in Chunk /\ Tail(engine.out) \in Seq(Chunk)
  BY <1>1, <1>4, HeadTailProperties
<1>6. /\ StreamTypes' /\ DOMAIN stream' = DOMAIN stream /\ lost' \subseteq Request
      /\ \A q \in DOMAIN stream : stream'[q].closed = stream[q].closed
      /\ \A q \in DOMAIN stream : q # Current => stream'[q] = stream[q]
      /\ stream[Current].closed => stream' = stream
  BY <1>1, <1>3, <1>5, PushEffect DEF Inv, Types
<1>7. /\ EngineTypes' /\ engine'.batch = engine.batch /\ engine'.candidate = engine.candidate
      /\ engine'.req = engine.req /\ engine'.pc = engine.pc
  BY <1>1, <1>4, <1>5 DEF EngineTypes, EngineState
<1>8. Types'
  BY <1>1, <1>6, <1>7 DEF Inv, Types, QueueTypes, ActiveTypes, ClientTypes, DriverTypes
<1>9. HandsFit'
  BY <1>7 DEF Inv, HandsFit
<1>10. NoRequestLost'
  BY <1>1, <1>6, <1>7 DEF Inv, NoRequestLost, InHand
<1>11. DriversFit'
  BY <1>1, <1>6, <1>7 DEF Inv, DriversFit
<1>12. ClosingFits'
  <2>1. \A q \in DOMAIN stream : conn[q] = "ended" => stream'[q] = stream[q]
    BY <1>6 DEF Inv, ClosingFits
  <2>2. DOMAIN active \subseteq DOMAIN stream
    BY DEF Inv, Types, ActiveTypes
  <2> QED
    BY <1>1, <1>2, <1>6, <1>7, <2>1, <2>2 DEF Inv, ClosingFits
<1> QED
  BY <1>8, <1>9, <1>10, <1>11, <1>12 DEF Inv

LEMMA CloseStreamInv ==
  ASSUME Inv, CloseStream
  PROVE  Inv'
<1>1. /\ engine.pc \in {"fail", "finish"} /\ Closed(Current)
      /\ engine' = [engine EXCEPT !.pc = "retire"]
      /\ UNCHANGED <<queue, allocated, congested, active, driver, conn, received, lost, unreadable>>
  BY DEF CloseStream, At, EngineGoto, queueVars, clientVars, noteVars
<1>2. engine.req = {Current} /\ Current \in Request
  BY <1>1, CurrentIs DEF Inv, Types, HandsFit
<1>3. Current \in DOMAIN stream
  BY <1>2 DEF Inv, NoRequestLost, InHand, Types, ActiveTypes
<1>4. /\ StreamTypes' /\ DOMAIN stream' = DOMAIN stream
      /\ \A q \in DOMAIN stream : stream'[q].chunks = stream[q].chunks
      /\ \A q \in DOMAIN stream : stream'[q].closed <=> (q = Current \/ stream[q].closed)
  BY <1>1, <1>3, CloseEffect DEF Inv, Types
<1>5. /\ EngineTypes' /\ engine'.pc = "retire" /\ engine'.batch = engine.batch
      /\ engine'.candidate = engine.candidate /\ engine'.req = engine.req
  BY <1>1 DEF Inv, Types, EngineTypes, EngineState, Steps
<1>6. Types'
  BY <1>1, <1>4, <1>5 DEF Inv, Types, QueueTypes, ActiveTypes, ClientTypes, DriverTypes
<1>7. HandsFit'
  BY <1>1, <1>5 DEF Inv, HandsFit
<1>8. NoRequestLost'
  BY <1>1, <1>4, <1>5 DEF Inv, NoRequestLost, InHand
<1>9. DriversFit'
  BY <1>1, <1>2, <1>4, <1>5 DEF Inv, DriversFit
<1>10. ClosingFits'
  <2>1. DOMAIN active \subseteq DOMAIN stream
    BY DEF Inv, Types, ActiveTypes
  <2> QED
    BY <1>1, <1>2, <1>3, <1>4, <1>5, <2>1 DEF Inv, ClosingFits
<1> QED
  BY <1>6, <1>7, <1>8, <1>9, <1>10 DEF Inv

LEMMA RetireInv ==
  ASSUME Inv, Retire
  PROVE  Inv'
<1>1. /\ engine.pc = "retire" /\ ReleaseTokens(active[Current])
      /\ active' = Restrict(active, DOMAIN active \ {Current})
      /\ engine' = [engine EXCEPT !.pc = "round", !.req = {}]
      /\ UNCHANGED <<queue, driver, stream, conn, received, lost, unreadable>>
  BY DEF Retire, At, clientVars, noteVars
<1>2. engine.req = {Current} /\ Current \in Request
  BY <1>1, CurrentIs DEF Inv, Types, HandsFit
<1>3. Current \in DOMAIN active /\ active[Current] \in Nat
  BY <1>2 DEF Inv, NoRequestLost, InHand, Types, ActiveTypes
<1>4. DOMAIN active' = DOMAIN active \ {Current}
  BY <1>1 DEF Restrict
<1>5. /\ EngineTypes' /\ engine'.pc = "round" /\ engine'.batch = engine.batch
      /\ engine'.candidate = engine.candidate /\ engine'.req = {}
  BY <1>1 DEF Inv, Types, EngineTypes, EngineState, Steps, AtMostOne
<1>6. QueueTypes'
  <2>1. allocated' \in 0 .. TokenCapacity
    BY <1>1, <1>3, QueueAssumption DEF ReleaseTokens, Larger, Inv, Types, QueueTypes
  <2>2. congested' \in BOOLEAN
    BY <1>1 DEF ReleaseTokens
  <2> QED
    BY <1>1, <2>1, <2>2 DEF Inv, Types, QueueTypes
<1>7. ActiveTypes'
  BY <1>1, <1>4 DEF Restrict, Inv, Types, ActiveTypes
<1>8. Types'
  BY <1>1, <1>5, <1>6, <1>7 DEF Inv, Types, StreamTypes, ClientTypes, DriverTypes
<1>9. HandsFit'
  BY <1>1, <1>5 DEF Inv, HandsFit
<1>10. NoRequestLost'
  <2>1. Current \notin DOMAIN queue /\ Current \notin Range(engine.batch)
        /\ Current \notin engine.candidate
    BY <1>2 DEF Inv, NoRequestLost, InHand, HandsFit
  <2>2. InHand' = InHand \ {Current}
    BY <1>2, <1>5, <2>1 DEF InHand
  <2>3. stream[Current].closed
    BY <1>1, <1>2 DEF Inv, ClosingFits
  <2> QED
    BY <1>1, <1>4, <2>1, <2>2, <2>3 DEF Inv, NoRequestLost
<1>11. DriversFit'
  BY <1>1, <1>2, <1>4, <1>5 DEF Inv, DriversFit
<1>12. ClosingFits'
  BY <1>1, <1>2, <1>4, <1>5 DEF Inv, ClosingFits
<1> QED
  BY <1>8, <1>9, <1>10, <1>11, <1>12 DEF Inv

LEMMA RequeueInv ==
  ASSUME Inv, Requeue
  PROVE  Inv'
<1>1. /\ engine.pc = "requeue" /\ queue' = Put(queue, Current, ActiveDecode)
      /\ engine' = [engine EXCEPT !.pc = "round", !.req = {}]
      /\ UNCHANGED <<allocated, congested, active, driver, stream, conn, received, lost, unreadable>>
  BY DEF Requeue, At, Enqueue, clientVars, noteVars
<1>2. engine.req = {Current} /\ Current \in Request
  BY <1>1, CurrentIs DEF Inv, Types, HandsFit
<1>3. /\ EngineTypes' /\ engine'.pc = "round" /\ engine'.batch = engine.batch
      /\ engine'.candidate = engine.candidate /\ engine'.req = {}
  BY <1>1 DEF Inv, Types, EngineTypes, EngineState, Steps, AtMostOne
<1>4. QueueTypes' /\ DOMAIN queue' = DOMAIN queue \cup {Current}
  <2>1. ActiveDecode \in QueueEntry
    BY DEF ActiveDecode, QueueEntry
  <2> QED
    BY <1>1, <1>2, <2>1 DEF Put, Inv, Types, QueueTypes
<1>5. Types'
  BY <1>1, <1>3, <1>4 DEF Inv, Types, ActiveTypes, StreamTypes, ClientTypes, DriverTypes
<1>6. HandsFit'
  BY <1>1, <1>3 DEF Inv, HandsFit
<1>7. NoRequestLost'
  <2>1. Current \notin Range(engine.batch) /\ Current \notin engine.candidate
    BY <1>2 DEF Inv, HandsFit
  <2>2. InHand' = InHand \ {Current} /\ Current \in InHand
    BY <1>2, <1>3, <2>1 DEF InHand
  <2>3. \A q \in DOMAIN queue : queue'[q] = queue[q] \/ q = Current
    BY <1>1 DEF Put
  <2>4. queue'[Current].phase = "decode" /\ driver[Current].status = "active"
    BY <1>1, <1>2 DEF Put, ActiveDecode, Inv, DriversFit
  <2> QED
    BY <1>1, <1>4, <2>2, <2>3, <2>4 DEF Inv, NoRequestLost
<1>8. DriversFit'
  BY <1>1, <1>3 DEF Inv, DriversFit
<1>9. ClosingFits'
  BY <1>1, <1>2, <1>3 DEF Inv, ClosingFits
<1> QED
  BY <1>5, <1>6, <1>7, <1>8, <1>9 DEF Inv
-----------------------------------------------------------------------------
\* The steps together.
LEMMA StutterInv == ASSUME Inv, UNCHANGED serveVars PROVE Inv'
<1>1. UNCHANGED <<queue, allocated, congested, active, driver, stream, conn, received, lost,
                  unreadable, engine>>
  BY DEF serveVars, queueVars
<1>2. Types'
  BY <1>1 DEF Inv, Types, QueueTypes, ActiveTypes, StreamTypes, ClientTypes, DriverTypes, EngineTypes
<1>3. HandsFit' /\ NoRequestLost' /\ DriversFit' /\ ClosingFits'
  BY <1>1 DEF Inv, HandsFit, NoRequestLost, InHand, DriversFit, ClosingFits
<1> QED
  BY <1>2, <1>3 DEF Inv

LEMMA NextInv == Inv /\ [ServeNext]_serveVars => Inv'
<1> SUFFICES ASSUME Inv, [ServeNext]_serveVars PROVE Inv'
  OBVIOUS
<1>1. CASE UNCHANGED serveVars
  BY <1>1, StutterInv
<1>2. CASE Http
  BY <1>2, ArriveInv, DeliverInv, EndOfStreamInv, DropInv DEF Http
<1>3. CASE Engine
  BY <1>3, WaitInv, PopBatchInv, StepDecodeInv, PostponeInv, PrefillInv, StepRaisesInv,
     EndRoundInv, AccountInv,
     EmitTokenInv, EmitFailsInv, EmitFinishInv, CloseStreamInv, RetireInv, RequeueInv DEF Engine
<1> QED
  BY <1>1, <1>2, <1>3 DEF ServeNext

\* Every state of the server is in Inv.
LEMMA InvAlways == ServeSpec => []Inv
  BY InitInv, NextInv, PTL DEF ServeSpec

\* The server's tables and the engine thread's hands keep their shape, and no stream
\* ever holds more chunks than Stream.create allowed.
THEOREM ServeTypesCorrect == ServeSpec => []ServeTypeOK
<1>1. Inv => ServeTypeOK
  <2> SUFFICES ASSUME Inv PROVE ServeTypeOK
    OBVIOUS
  <2>1. engine.pc \in Steps /\ engine.req \in AtMostOne /\ engine.candidate \in AtMostOne
    BY DEF Inv, Types, EngineTypes, EngineState
  <2>2. \A S \in AtMostOne : Cardinality(S) <= 1
    <3>1. Cardinality({}) = 0 /\ \A r : Cardinality({r}) = 1
      BY FS_EmptySet, FS_Singleton
    <3>2. TAKE S \in AtMostOne
    <3>3. S = {} \/ \E r : S = {r}
      BY DEF AtMostOne
    <3>4. Cardinality(S) = 0 \/ Cardinality(S) = 1
      BY <3>1, <3>3, Zenon
    <3> QED
      BY <3>4, SMT
  <2>3. DOMAIN queue \subseteq DOMAIN stream
    BY DEF Inv, Types, ActiveTypes, NoRequestLost
  <2> QED
    BY <2>1, <2>2, <2>3 DEF ServeTypeOK, Inv, Types, QueueTypes, ActiveTypes, StreamTypes, ClientTypes, Steps
<1> QED
  BY <1>1, InvAlways, PTL

\* Whatever fails and whoever leaves: a registered request is in the queue or in the
\* engine thread's hands, never in both, with the driver its place calls for, and it
\* is forgotten only after its stream is closed.
THEOREM NoRequestEverLost == ServeSpec => []NoRequestLost
<1>1. Inv => NoRequestLost
  BY DEF Inv
<1> QED
  BY <1>1, InvAlways, PTL

\* A driver that is not registered any more has given its lease on the prefix cache
\* back, unless its token could not be decoded to text.
THEOREM LeasesAlwaysReleased == ServeSpec => []LeasesReleased
<1>1. Inv => LeasesReleased
  <2> SUFFICES ASSUME Inv, NEW r \in Request, driver[r].leased, r \notin DOMAIN active,
                      r \notin unreadable
               PROVE  FALSE
    BY DEF LeasesReleased
  <2>1. driver[r].status = "active"
    BY DEF Inv, DriversFit
  <2>2. r \in DOMAIN stream
    BY <2>1 DEF Inv, DriversFit, NoDriver
  <2> QED
    BY <2>1, <2>2 DEF Inv, DriversFit
<1> QED
  BY <1>1, InvAlways, PTL
-----------------------------------------------------------------------------
(* What the clients read, for every number of requests and chunks.            *)

Tokens(n) == [i \in 1 .. n |-> TokenChunk(i)]

\* What a client has and is still to find in its stream.
Delivered(r) == received[r] \o stream[r].chunks

Answer(r) ==
  LET n == driver[r].tokens IN
  IF r \in unreadable THEN Tokens(n - 1)
  ELSE IF driver[r].status = "finished" THEN Tokens(n) \o Ending(n) ELSE Tokens(n)

\* Between the driver's token and its chunk the answer is one token behind, and
\* while the ending is pushed the engine thread holds the rest of it.
OnItsWay(r) ==
  IF r \in engine.req /\ engine.pc \in {"account", "emit"}
  THEN Delivered(r) = Tokens(driver[r].tokens - 1)
  ELSE IF r \in engine.req /\ engine.pc = "finish"
  THEN Delivered(r) \o engine.out = Answer(r)
  ELSE Delivered(r) = Answer(r)

OnTheWay ==
  /\ \A r \in Request \ DOMAIN stream : received[r] = <<>>
  /\ \A r \in unreadable : driver[r].tokens > 0
  /\ \A r \in DOMAIN stream : r \notin lost /\ conn[r] # "dropped" => OnItsWay(r)
-----------------------------------------------------------------------------
\* Tokens and endings are sequences of chunks, and grow at their end.
LEMMA TokensProperties ==
  ASSUME NEW n \in Nat
  PROVE  Tokens(n) \in Seq(Chunk) /\ Len(Tokens(n)) = n /\ \A i \in 1 .. n : Tokens(n)[i] = TokenChunk(i)
<1>1. \A i \in 1 .. n : TokenChunk(i) \in Chunk
  BY DEF TokenChunk, Chunk
<1>2. Tokens(n) \in [1 .. n -> Chunk]
  BY <1>1 DEF Tokens
<1>3. Tokens(n) \in Seq(Chunk)
  BY <1>2, SeqDef
<1>4. DOMAIN Tokens(n) = 1 .. n /\ DOMAIN Tokens(n) = 1 .. Len(Tokens(n)) /\ Len(Tokens(n)) \in Nat
  BY <1>3, LenProperties DEF Tokens
<1> QED
  BY <1>3, <1>4 DEF Tokens

LEMMA NoTokens == Tokens(0) = <<>>
  BY TokensProperties, EmptySeq

LEMMA OneMoreToken ==
  ASSUME NEW n \in Nat \ {0}
  PROVE  Append(Tokens(n - 1), TokenChunk(n)) = Tokens(n)
<1>1. n \in Nat /\ n - 1 \in Nat /\ TokenChunk(n) \in Chunk
  BY DEF TokenChunk, Chunk
<1>2. /\ Tokens(n - 1) \in Seq(Chunk) /\ Len(Tokens(n - 1)) = n - 1
      /\ \A i \in 1 .. n - 1 : Tokens(n - 1)[i] = TokenChunk(i)
  BY <1>1, TokensProperties
<1>3. /\ Tokens(n) \in Seq(Chunk) /\ Len(Tokens(n)) = n /\ \A i \in 1 .. n : Tokens(n)[i] = TokenChunk(i)
  BY <1>1, TokensProperties
<1>4. /\ Append(Tokens(n - 1), TokenChunk(n)) \in Seq(Chunk)
      /\ Len(Append(Tokens(n - 1), TokenChunk(n))) = Len(Tokens(n - 1)) + 1
      /\ \A i \in 1 .. Len(Tokens(n - 1)) :
           Append(Tokens(n - 1), TokenChunk(n))[i] = Tokens(n - 1)[i]
      /\ Append(Tokens(n - 1), TokenChunk(n))[Len(Tokens(n - 1)) + 1] = TokenChunk(n)
  BY <1>1, <1>2, AppendProperties
<1>5. Len(Append(Tokens(n - 1), TokenChunk(n))) = n
  BY <1>1, <1>2, <1>4
<1>6. ASSUME NEW i \in 1 .. n PROVE Append(Tokens(n - 1), TokenChunk(n))[i] = Tokens(n)[i]
  <2>1. CASE i = n
    BY <1>2, <1>3, <1>4, <2>1
  <2>2. CASE i # n
    <3>1. i \in 1 .. n - 1
      BY <1>1, <2>2
    <3> QED
      BY <1>2, <1>3, <1>4, <3>1
  <2> QED
    BY <2>1, <2>2
<1> QED
  BY <1>3, <1>4, <1>5, <1>6, SeqEqual

LEMMA FrontOfTokens ==
  ASSUME NEW n \in Nat \ {0}
  PROVE  Front(Tokens(n)) = Tokens(n - 1)
<1>1. n \in Nat /\ n - 1 \in Nat
  OBVIOUS
<1>2. /\ Tokens(n - 1) \in Seq(Chunk) /\ Len(Tokens(n - 1)) = n - 1
      /\ \A i \in 1 .. n - 1 : Tokens(n - 1)[i] = TokenChunk(i)
  BY <1>1, TokensProperties
<1>3. /\ Tokens(n) \in Seq(Chunk) /\ Len(Tokens(n)) = n /\ \A i \in 1 .. n : Tokens(n)[i] = TokenChunk(i)
  BY <1>1, TokensProperties
<1>4. \A i \in 1 .. n - 1 : Tokens(n)[i] \in Chunk
  BY <1>3 DEF TokenChunk, Chunk
<1>5. /\ SubSeq(Tokens(n), 1, n - 1) \in Seq(Chunk)
      /\ Len(SubSeq(Tokens(n), 1, n - 1)) = n - 1
      /\ \A i \in 1 .. n - 1 : SubSeq(Tokens(n), 1, n - 1)[i] = Tokens(n)[i]
  BY <1>1, <1>4, SubSeqProperties
<1>6. SubSeq(Tokens(n), 1, n - 1) = Tokens(n - 1)
  <2>1. \A i \in 1 .. n - 1 : SubSeq(Tokens(n), 1, n - 1)[i] = Tokens(n - 1)[i]
    BY <1>2, <1>3, <1>5
  <2> QED
    BY <1>2, <1>5, <2>1, SeqEqual
<1>7. Front(Tokens(n)) = SubSeq(Tokens(n), 1, n - 1)
  BY <1>3 DEF Front
<1> QED
  BY <1>6, <1>7

LEMMA EndingIs ==
  ASSUME NEW n \in Nat
  PROVE  Ending(n) \in Seq(Chunk)
  BY DEF Ending, Chunk

\* A client that takes the head of a stream leaves what is delivered as it was.
LEMMA TakingKeepsDelivered ==
  ASSUME NEW s \in Seq(Chunk), NEW t \in Seq(Chunk), t # <<>>
  PROVE  Append(s, Head(t)) \o Tail(t) = s \o t
<1>1. Head(t) \in Chunk /\ Tail(t) \in Seq(Chunk)
  BY HeadTailProperties
<1>2. Append(s, Head(t)) = s \o <<Head(t)>> /\ <<Head(t)>> \in Seq(Chunk)
  BY <1>1, AppendIsConcat
<1>3. Append(s, Head(t)) \o Tail(t) = s \o (<<Head(t)>> \o Tail(t))
  BY <1>1, <1>2, ConcatAssociative
<1>4. <<Head(t)>> \o Tail(t) = t
  <2>1. Len(t) \in Nat \ {0} /\ Tail(t) = SubSeq(t, 2, Len(t)) /\ SubSeq(t, 1, Len(t)) = t
    BY EmptySeq, TailIsSubSeq, SubSeqFull
  <2>2. SubSeq(t, 1, Len(t)) = <<t[1]>> \o SubSeq(t, 2, Len(t))
    <3>1. 1 \in 1 .. Len(t) /\ Len(t) \in 1 .. Len(t)
      BY <2>1
    <3> QED
      BY <3>1, SubSeqRecursiveFirst
  <2>3. Head(t) = t[1]
    BY DEF Head
  <2> QED
    BY <2>1, <2>2, <2>3
<1> QED
  BY <1>3, <1>4

\* A chunk that is pushed comes behind what is delivered.
LEMMA PushingAppends ==
  ASSUME NEW s \in Seq(Chunk), NEW t \in Seq(Chunk), NEW c \in Chunk
  PROVE  s \o Append(t, c) = Append(s \o t, c)
<1>1. Append(t, c) = t \o <<c>> /\ <<c>> \in Seq(Chunk)
  BY AppendIsConcat
<1>2. s \o t \in Seq(Chunk)
  BY ConcatProperties
<1>3. Append(s \o t, c) = (s \o t) \o <<c>>
  BY <1>2, AppendIsConcat
<1> QED
  BY <1>1, <1>3, ConcatAssociative
-----------------------------------------------------------------------------
Behind(r) == r \in engine.req /\ engine.pc \in {"account", "emit"}
Finishing(r) == r \in engine.req /\ engine.pc = "finish"

\* A step that neither makes, moves nor loses a chunk leaves every answer on its way.
LEMMA QuietStep ==
  ASSUME OnTheWay, UNCHANGED <<driver, received, lost, unreadable>>,
         DOMAIN stream' = DOMAIN stream,
         \A r \in DOMAIN stream :
           /\ stream'[r].chunks = stream[r].chunks
           /\ conn'[r] # "dropped" => conn[r] # "dropped"
           /\ Behind(r)' <=> Behind(r)
           /\ Finishing(r)' <=> Finishing(r),
         engine.pc = "finish" => engine'.out = engine.out
  PROVE  OnTheWay'
<1>1. ASSUME NEW r \in DOMAIN stream, OnItsWay(r)
      PROVE  OnItsWay(r)'
  <2>1. Answer(r)' = Answer(r) /\ Delivered(r)' = Delivered(r)
    BY DEF Answer, Delivered
  <2> QED
    BY <1>1, <2>1 DEF OnItsWay, Behind, Finishing
<1> QED
  BY <1>1 DEF OnTheWay

\* Every step keeps OnTheWay.
LEMMA DeliverWay ==
  ASSUME Inv, OnTheWay, NEW q \in Request, Deliver(q)
  PROVE  OnTheWay'
<1>1. /\ q \in DOMAIN stream /\ stream[q].chunks # <<>> /\ stream[q].chunks \in Seq(Chunk)
      /\ received[q] \in Seq(Chunk) /\ stream[q] \in StreamState
      /\ UNCHANGED <<driver, conn, lost, unreadable, engine>>
  BY DEF Deliver, Open, noteVars, Inv, Types, ClientTypes, StreamTypes, StreamState
<1>2. /\ stream' = [stream EXCEPT ![q] = [stream[q] EXCEPT !.chunks = Tail(@)]]
      /\ received' = [received EXCEPT ![q] = Append(@, Head(stream[q].chunks))]
  BY DEF Deliver
<1>3. /\ DOMAIN stream' = DOMAIN stream
      /\ \A r \in DOMAIN stream : r # q => stream'[r] = stream[r]
      /\ \A r \in Request : r # q => received'[r] = received[r]
      /\ stream'[q].chunks = Tail(stream[q].chunks)
      /\ received'[q] = Append(received[q], Head(stream[q].chunks))
  BY <1>1, <1>2 DEF StreamState, Inv, Types, ClientTypes
<1>4. \A r \in DOMAIN stream : Delivered(r)' = Delivered(r)
  <2>1. Append(received[q], Head(stream[q].chunks)) \o Tail(stream[q].chunks)
          = received[q] \o stream[q].chunks
    BY <1>1, TakingKeepsDelivered
  <2> QED
    BY <1>3, <2>1 DEF Delivered, Inv, Types, StreamTypes
<1>5. \A r : Answer(r)' = Answer(r)
  BY <1>1 DEF Answer
<1>6. \A r \in DOMAIN stream : OnItsWay(r) => OnItsWay(r)'
  BY <1>1, <1>4, <1>5 DEF OnItsWay
<1> QED
  BY <1>1, <1>3, <1>6 DEF OnTheWay

LEMMA ArriveWay ==
  ASSUME Inv, OnTheWay, NEW q \in Request, Arrive(q)
  PROVE  OnTheWay'
<1>1. /\ q \notin DOMAIN stream /\ DOMAIN stream' = DOMAIN stream \cup {q}
      /\ \A r \in DOMAIN stream : stream'[r] = stream[r] /\ conn'[r] = conn[r]
      /\ stream'[q].chunks = <<>>
      /\ UNCHANGED <<driver, received, lost, unreadable>>
  <2>1. DOMAIN conn = DOMAIN stream
    BY DEF Inv, Types, ClientTypes
  <2> QED
    BY <2>1 DEF Arrive, Put, noteVars
<1>2. /\ engine'.req = engine.req /\ engine'.out = engine.out
      /\ engine'.pc = engine.pc \/ (engine.pc = "asleep" /\ engine'.pc = "loop")
  BY DEF Arrive, Woken, Inv, Types, EngineTypes, EngineState
<1>3. ASSUME NEW r \in DOMAIN stream, OnItsWay(r)
      PROVE  OnItsWay(r)'
  <2>2. Answer(r)' = Answer(r) /\ Delivered(r)' = Delivered(r)
    BY <1>1 DEF Answer, Delivered
  <2>3. (Behind(r)' <=> Behind(r)) /\ (Finishing(r)' <=> Finishing(r))
    BY <1>2 DEF Behind, Finishing
  <2>4. engine'.out = engine.out
    BY <1>2
  <2> QED
    BY <1>1, <1>3, <2>2, <2>3, <2>4 DEF OnItsWay, Behind, Finishing
<1>4. OnItsWay(q)'
  <2>1. q \notin engine.req /\ driver[q] = NoDriver /\ q \notin unreadable
    <3>1. DOMAIN active \subseteq DOMAIN stream /\ engine.req \subseteq DOMAIN active
      BY DEF Inv, Types, ActiveTypes, NoRequestLost, InHand
    <3> QED
      BY <1>1, <3>1 DEF Inv, DriversFit
  <2>2. Answer(q)' = <<>>
    BY <1>1, <2>1, NoTokens DEF Answer, NoDriver
  <2>3. Delivered(q)' = <<>>
    <3>1. received[q] = <<>> /\ <<>> \o <<>> = <<>>
      BY <1>1, ConcatEmptySeq, EmptySeq DEF OnTheWay
    <3> QED
      BY <1>1, <3>1 DEF Delivered
  <2> QED
    BY <1>2, <2>1, <2>2, <2>3 DEF OnItsWay
<1> QED
  BY <1>1, <1>3, <1>4 DEF OnTheWay

LEMMA EndOfStreamWay ==
  ASSUME Inv, OnTheWay, NEW q \in Request, EndOfStream(q)
  PROVE  OnTheWay'
<1>1. /\ conn[q] = "open" /\ conn' = [conn EXCEPT ![q] = "ended"]
      /\ UNCHANGED <<driver, received, lost, unreadable, stream, engine>>
  BY DEF EndOfStream, Open, noteVars
<1>2. \A r \in DOMAIN stream : conn'[r] # "dropped" => conn[r] # "dropped"
  BY <1>1 DEF Inv, Types, ClientTypes
<1> QED
  BY <1>1, <1>2, QuietStep DEF Behind, Finishing

LEMMA DropWay ==
  ASSUME Inv, OnTheWay, NEW q \in Request, Drop(q)
  PROVE  OnTheWay'
<1>1. /\ q \in DOMAIN stream /\ conn[q] = "open" /\ conn' = [conn EXCEPT ![q] = "dropped"]
      /\ Closed(q) /\ UNCHANGED <<driver, received, lost, unreadable, engine>>
  BY DEF Drop, Open, noteVars, Inv, Types, ClientTypes
<1>2. /\ DOMAIN stream' = DOMAIN stream
      /\ \A r \in DOMAIN stream : stream'[r].chunks = stream[r].chunks
  BY <1>1, CloseEffect DEF Inv, Types
<1>3. \A r \in DOMAIN stream : conn'[r] # "dropped" => conn[r] # "dropped"
  BY <1>1 DEF Inv, Types, ClientTypes
<1> QED
  BY <1>1, <1>2, <1>3, QuietStep DEF Behind, Finishing

\* The steps of the engine thread that touch no stream and no driver.
LEMMA BookkeepingWay ==
  ASSUME Inv, OnTheWay,
         WaitForWork \/ PopBatch \/ Postpone \/ EndRound \/ Account \/ Retire \/ Requeue
  PROVE  OnTheWay'
<1>1. UNCHANGED <<driver, stream, conn, received, lost, unreadable>>
  BY DEF WaitForWork, PopBatch, Postpone, EndRound, Account, Retire, Requeue, clientVars, noteVars
<1>2. \A r \in DOMAIN stream : (Behind(r)' <=> Behind(r)) /\ (Finishing(r)' <=> Finishing(r))
  <2>1. engine \in EngineState
    BY DEF Inv, Types, EngineTypes
  <2>2. CASE WaitForWork
    BY <2>1, <2>2 DEF WaitForWork, At, EngineGoto, EngineState, Behind, Finishing
  <2>3. CASE PopBatch
    <3>1. engine.pc = "loop" /\ engine'.pc = "round"
      BY <2>3 DEF PopBatch, At, Idle
    <3> QED
      BY <3>1 DEF Behind, Finishing
  <2>4. CASE Postpone \/ EndRound
    <3>1. engine.pc = "round" /\ engine'.pc = "loop"
      BY <2>4 DEF Postpone, EndRound, At, Idle
    <3> QED
      BY <3>1 DEF Behind, Finishing
  <2>5. CASE Account
    <3>1. engine.pc = "account" /\ engine'.pc = "emit" /\ engine'.req = engine.req
      BY <2>1, <2>5 DEF Account, At, EngineGoto, EngineState
    <3> QED
      BY <3>1 DEF Behind, Finishing
  <2>6. CASE Retire \/ Requeue
    <3>1. engine.pc \in {"retire", "requeue"} /\ engine'.pc = "round"
      BY <2>1, <2>6 DEF Retire, Requeue, At, EngineState
    <3> QED
      BY <3>1 DEF Behind, Finishing
  <2> QED
    BY <2>2, <2>3, <2>4, <2>5, <2>6
<1>3. engine.pc # "finish"
  BY DEF WaitForWork, PopBatch, Postpone, EndRound, Account, Retire, Requeue, At
<1> QED
  BY <1>1, <1>2, <1>3, QuietStep

LEMMA StepRaisesWay ==
  ASSUME Inv, OnTheWay, StepRaises
  PROVE  OnTheWay'
<1>1. \A r \in DOMAIN stream : (Behind(r)' <=> Behind(r)) /\ (Finishing(r)' <=> Finishing(r))
  BY StepRaisesIs DEF Behind, Finishing
<1>2. /\ UNCHANGED <<driver, received, lost, unreadable>> /\ DOMAIN stream' = DOMAIN stream
      /\ \A r \in DOMAIN stream : stream'[r].chunks = stream[r].chunks
      /\ \A r \in DOMAIN stream : conn'[r] # "dropped" => conn[r] # "dropped"
      /\ engine.pc # "finish"
  BY StepRaisesIs
<1> QED
  BY <1>1, <1>2, QuietStep

\* State.step and State.init: the answer owes one more token, or none.
LEMMA TokenWay ==
  ASSUME Inv, OnTheWay, NEW q \in Request, ~Behind(q), ~Finishing(q),
         q \in DOMAIN active, ~(q \in engine.req /\ engine.pc \in {"fail", "retire"}),
         driver[q].status # "finished",
         UNCHANGED <<stream, conn, received, lost, unreadable>>,
         engine'.req = {q}, engine'.pc \in {"fail", "account"}, engine.req = {},
         engine'.pc = "fail" => driver' = Failed(q),
         engine'.pc = "account" => \E d \in AfterToken(q) : driver' = [driver EXCEPT ![q] = d]
  PROVE  OnTheWay'
<1>1. driver' = Failed(q) \/ \E d \in AfterToken(q) : driver' = [driver EXCEPT ![q] = d]
  OBVIOUS
<1>2. q \in DOMAIN stream /\ q \notin unreadable /\ driver[q].tokens \in Nat
  BY DEF Inv, ClosingFits, Types, ActiveTypes, DriverTypes, DriverState
<1>3. \A r \in Request : r # q => driver'[r] = driver[r]
  BY <1>1, TokenEffect DEF Inv, Types
<1>4. \A r \in DOMAIN stream : r # q /\ OnItsWay(r) => OnItsWay(r)'
  <2>1. TAKE r \in DOMAIN stream
  <2>2. HAVE r # q /\ OnItsWay(r)
  <2>3. Answer(r)' = Answer(r) /\ Delivered(r)' = Delivered(r)
    BY <1>3, <2>2 DEF Answer, Delivered, Inv, Types, StreamTypes
  <2>4. ~Behind(r) /\ ~Finishing(r) /\ ~Behind(r)' /\ ~Finishing(r)'
    BY <2>2 DEF Behind, Finishing
  <2> QED
    BY <2>2, <2>3, <2>4 DEF OnItsWay, Behind, Finishing
<1>5. OnItsWay(q) => Delivered(q)' = Tokens(driver[q].tokens)
  BY <1>2 DEF OnItsWay, Behind, Finishing, Answer, Delivered
<1>6. OnItsWay(q) => OnItsWay(q)'
  <2>1. HAVE OnItsWay(q)
  <2>2. CASE engine'.pc = "fail"
    <3>1. driver'[q].status = "failed" /\ driver'[q].tokens = driver[q].tokens
      BY <2>2, TokenEffect DEF Inv, Types
    <3>2. Answer(q)' = Tokens(driver[q].tokens)
      BY <1>2, <3>1 DEF Answer
    <3> QED
      BY <1>5, <2>1, <2>2, <3>2 DEF OnItsWay
  <2>3. CASE engine'.pc = "account"
    <3>1. PICK d \in AfterToken(q) : driver' = [driver EXCEPT ![q] = d]
      BY <2>3
    <3>2. driver'[q] = d /\ d.tokens = driver[q].tokens + 1
      BY <3>1 DEF AfterToken, Inv, Types, DriverTypes
    <3>3. driver'[q].tokens - 1 = driver[q].tokens
      BY <1>2, <3>2
    <3> QED
      BY <1>5, <2>1, <2>3, <3>3 DEF OnItsWay
  <2> QED
    BY <2>2, <2>3
<1>7. \A r \in unreadable' : driver'[r].tokens > 0
  BY <1>2, <1>3 DEF OnTheWay, Inv, Types, DriverTypes
<1>8. \A r \in Request \ DOMAIN stream' : received'[r] = <<>>
  BY DEF OnTheWay
<1> QED
  BY <1>4, <1>6, <1>7, <1>8 DEF OnTheWay

LEMMA StepDecodeWay ==
  ASSUME Inv, OnTheWay, StepDecode
  PROVE  OnTheWay'
<1> DEFINE r == Head(engine.batch)
<1>1. engine.pc = "round" /\ engine.batch # <<>> /\ engine.req = {}
  BY DEF StepDecode, At, Inv, HandsFit
<1>2. Range(engine.batch) = {r} /\ r \in Request
  BY <1>1, BatchIs DEF Inv, Types
<1>3. r \in DOMAIN active /\ driver[r].status = "active"
  BY <1>2 DEF Inv, NoRequestLost, InHand, DriversFit
<1>4. PICK pc \in {"fail", "account"} :
        /\ engine' = [engine EXCEPT !.batch = Tail(@), !.req = {r}, !.count = 1, !.pc = pc]
        /\ pc = "fail" => driver' = Failed(r)
        /\ pc = "account" => \E d \in AfterToken(r) : driver' = [driver EXCEPT ![r] = d]
  BY DEF StepDecode
<1>5. UNCHANGED <<stream, conn, received, lost, unreadable>>
  BY DEF StepDecode, clientVars, noteVars
<1> HIDE DEF r
<1>6. engine'.req = {r} /\ engine'.pc = pc
  BY <1>4 DEF Inv, Types, EngineTypes, EngineState
<1> QED
  BY <1>1, <1>2, <1>3, <1>4, <1>5, <1>6, TokenWay DEF Behind, Finishing

LEMMA PrefillWay ==
  ASSUME Inv, OnTheWay, Prefill
  PROVE  OnTheWay'
<1>1. PICK r \in engine.candidate : PrefillOf(r)
  BY DEF Prefill
<1>2. engine.pc = "round" /\ engine.req = {} /\ UNCHANGED <<stream, conn, received, lost, unreadable>>
  BY DEF Prefill, At, clientVars, noteVars, Inv, HandsFit
<1>3. r \in Request /\ r \in DOMAIN active /\ driver[r].status = "none"
  BY DEF Inv, Types, EngineTypes, EngineState, AtMostOne, NoRequestLost, InHand, DriversFit
<1>4. PICK pc \in {"fail", "account"} :
        /\ engine' = [engine EXCEPT !.candidate = {}, !.req = {r}, !.count = PromptLength[r] + 1,
                                    !.pc = pc]
        /\ pc = "fail" => driver' = Failed(r)
        /\ pc = "account" => \E d \in AfterToken(r) : driver' = [driver EXCEPT ![r] = d]
  BY <1>1 DEF PrefillOf
<1>5. engine'.req = {r} /\ engine'.pc = pc
  BY <1>4 DEF Inv, Types, EngineTypes, EngineState
<1> QED
  BY <1>2, <1>3, <1>4, <1>5, TokenWay DEF Behind, Finishing

\* A chunk for a connected client that is not lost is appended to its answer.
LEMMA PushWay ==
  ASSUME Inv, engine.pc \in {"emit", "finish"}, NEW q \in DOMAIN stream, engine.req = {q},
         NEW chunk \in Chunk, Push(q, chunk), UNCHANGED <<received, conn>>
  PROVE  /\ \A r \in DOMAIN stream : r # q => Delivered(r)' = Delivered(r)
         /\ q \notin lost' /\ conn[q] # "dropped" =>
              /\ q \notin lost
              /\ Delivered(q)' = Append(Delivered(q), chunk)
<1>1. q \in DOMAIN active /\ q \in Request
  BY DEF Inv, NoRequestLost, InHand, Types, StreamTypes
<1>2. /\ \A r \in DOMAIN stream : r # q => stream'[r] = stream[r]
      /\ ~stream[q].closed /\ q \notin lost' =>
           q \notin lost /\ stream'[q].chunks = Append(stream[q].chunks, chunk)
  BY PushEffect DEF Inv, Types
<1>3. conn[q] # "dropped" => ~stream[q].closed
  BY <1>1 DEF Inv, ClosingFits
<1>4. received[q] \in Seq(Chunk) /\ stream[q].chunks \in Seq(Chunk)
  BY <1>1 DEF Inv, Types, ClientTypes, StreamTypes, StreamState
<1>5. received[q] \o Append(stream[q].chunks, chunk)
        = Append(received[q] \o stream[q].chunks, chunk)
  BY <1>4, PushingAppends
<1> QED
  BY <1>2, <1>3, <1>5 DEF Delivered

LEMMA EmitTokenWay ==
  ASSUME Inv, OnTheWay, EmitToken
  PROVE  OnTheWay'
<1>0. engine.pc = "emit"
  BY DEF EmitToken, At
<1>2. PICK q \in Request : q = Current /\ engine.req = {q}
  BY <1>0, CurrentIs DEF Inv, Types, HandsFit
<1>1. /\ engine.pc = "emit" /\ Push(q, TokenChunk(driver[q].tokens))
      /\ UNCHANGED <<driver, conn, received, unreadable>>
  BY <1>2 DEF EmitToken, At, clientVars
<1>3. q \in DOMAIN active /\ q \in DOMAIN stream /\ q \notin unreadable
  BY <1>1, <1>2 DEF Inv, NoRequestLost, InHand, Types, ActiveTypes, ClosingFits
<1>4. /\ driver[q].tokens \in Nat \ {0} /\ driver[q].status \in {"active", "finished"}
      /\ TokenChunk(driver[q].tokens) \in Chunk
  BY <1>1, <1>2 DEF Inv, Types, DriverTypes, DriverState, DriversFit, TokenChunk, Chunk
<1>5. /\ DOMAIN stream' = DOMAIN stream
      /\ \A r \in DOMAIN stream : r # q => (r \in lost' <=> r \in lost)
  BY <1>1, <1>3, <1>4, PushEffect DEF Inv, Types
<1>6. /\ \A r \in DOMAIN stream : r # q => Delivered(r)' = Delivered(r)
      /\ q \notin lost' /\ conn[q] # "dropped" =>
           /\ q \notin lost
           /\ Delivered(q)' = Append(Delivered(q), TokenChunk(driver[q].tokens))
  BY <1>1, <1>2, <1>3, <1>4, PushWay
<1>7. \A r : Answer(r)' = Answer(r)
  BY <1>1 DEF Answer
<1>8. /\ engine'.req = engine.req
      /\ driver[q].status = "finished" =>
           engine'.pc = "finish" /\ engine'.out = Ending(driver[q].tokens)
      /\ driver[q].status # "finished" => engine'.pc = "requeue"
  BY <1>2 DEF EmitToken, Inv, Types, EngineTypes, EngineState
<1>9. \A r \in DOMAIN stream : r # q /\ OnItsWay(r) => OnItsWay(r)'
  BY <1>2, <1>6, <1>7, <1>8 DEF OnItsWay
<1>10. ASSUME q \notin lost', conn[q] # "dropped"
       PROVE  OnItsWay(q)'
  <2>1. Delivered(q) = Tokens(driver[q].tokens - 1)
    BY <1>1, <1>2, <1>3, <1>6, <1>10 DEF OnTheWay, OnItsWay
  <2>2. Delivered(q)' = Tokens(driver[q].tokens)
    BY <1>4, <1>6, <1>10, <2>1, OneMoreToken
  <2>3. CASE driver[q].status = "finished"
    <3>1. Answer(q) = Tokens(driver[q].tokens) \o Ending(driver[q].tokens)
      BY <1>3, <2>3 DEF Answer
    <3>2. engine'.pc = "finish" /\ engine'.out = Ending(driver[q].tokens)
      BY <1>8, <2>3
    <3> QED
      BY <1>2, <1>7, <1>8, <2>2, <3>1, <3>2 DEF OnItsWay
  <2>4. CASE driver[q].status # "finished"
    <3>1. Answer(q) = Tokens(driver[q].tokens)
      BY <1>3, <2>4 DEF Answer
    <3> QED
      BY <1>7, <1>8, <2>2, <2>4, <3>1 DEF OnItsWay
  <2> QED
    BY <2>3, <2>4
<1> QED
  BY <1>1, <1>5, <1>9, <1>10 DEF OnTheWay

\* An error after a token was made: the client keeps the tokens before it.
LEMMA EmitFailsWay ==
  ASSUME Inv, OnTheWay, EmitFails
  PROVE  OnTheWay'
<1>1. engine.pc = "emit"
  BY DEF EmitFails, At
<1>2. PICK q \in Request : q = Current /\ engine.req = {q}
  BY <1>1, CurrentIs DEF Inv, Types, HandsFit
<1>3. /\ engine'.pc = "fail" /\ engine'.req = engine.req /\ unreadable' = unreadable \cup {q}
      /\ UNCHANGED <<driver, stream, conn, received, lost>>
  BY <1>2 DEF EmitFails, EngineGoto, clientVars, Inv, Types, EngineTypes, EngineState
<1>4. driver[q].tokens > 0
  BY <1>1, <1>2 DEF Inv, DriversFit
<1>5. \A r : Delivered(r)' = Delivered(r) /\ (r # q => Answer(r)' = Answer(r))
  BY <1>3 DEF Delivered, Answer
<1>6. Answer(q)' = Tokens(driver[q].tokens - 1)
  BY <1>3 DEF Answer
<1>7. ASSUME NEW r \in DOMAIN stream, OnItsWay(r)
      PROVE  OnItsWay(r)'
  <2>1. CASE r = q
    BY <1>1, <1>2, <1>3, <1>5, <1>6, <1>7, <2>1 DEF OnItsWay
  <2>2. CASE r # q
    BY <1>2, <1>3, <1>5, <1>7, <2>2 DEF OnItsWay
  <2> QED
    BY <2>1, <2>2
<1> QED
  BY <1>3, <1>4, <1>7 DEF OnTheWay

LEMMA EmitFinishWay ==
  ASSUME Inv, OnTheWay, EmitFinish
  PROVE  OnTheWay'
<1>1. engine.pc = "finish" /\ engine.out # <<>>
  BY DEF EmitFinish, At
<1>2. PICK q \in Request : q = Current /\ engine.req = {q}
  BY <1>1, CurrentIs DEF Inv, Types, HandsFit
<1>3. /\ Push(q, Head(engine.out)) /\ UNCHANGED <<driver, conn, received, unreadable>>
      /\ engine' = [engine EXCEPT !.out = Tail(@)]
  BY <1>2 DEF EmitFinish, clientVars
<1>4. q \in DOMAIN stream
  BY <1>2 DEF Inv, NoRequestLost, InHand, Types, ActiveTypes
<1>5. engine.out \in Seq(Chunk) /\ Head(engine.out) \in Chunk
  BY <1>1, HeadTailProperties DEF Inv, Types, EngineTypes, EngineState
<1>6. engine'.pc = engine.pc /\ engine'.req = engine.req /\ engine'.out = Tail(engine.out)
  BY <1>3 DEF Inv, Types, EngineTypes, EngineState
<1>7. /\ DOMAIN stream' = DOMAIN stream
      /\ \A r \in DOMAIN stream : r # q => (r \in lost' <=> r \in lost)
  BY <1>3, <1>4, <1>5, PushEffect DEF Inv, Types
<1>8. /\ \A r \in DOMAIN stream : r # q => Delivered(r)' = Delivered(r)
      /\ q \notin lost' /\ conn[q] # "dropped" =>
           q \notin lost /\ Delivered(q)' = Append(Delivered(q), Head(engine.out))
  BY <1>1, <1>2, <1>3, <1>4, <1>5, PushWay
<1>9. \A r : Answer(r)' = Answer(r)
  BY <1>3 DEF Answer
<1>10. \A r \in DOMAIN stream : r # q /\ OnItsWay(r) => OnItsWay(r)'
  BY <1>2, <1>6, <1>8, <1>9 DEF OnItsWay
<1>11. ASSUME q \notin lost', conn[q] # "dropped"
       PROVE  OnItsWay(q)'
  <2>1. Delivered(q) \o engine.out = Answer(q)
    BY <1>1, <1>2, <1>4, <1>8, <1>11 DEF OnTheWay, OnItsWay
  <2>2. Delivered(q) \in Seq(Chunk)
    <3>1. received[q] \in Seq(Chunk) /\ stream[q].chunks \in Seq(Chunk)
      BY <1>4 DEF Inv, Types, ClientTypes, StreamTypes, StreamState
    <3> QED
      BY <3>1, ConcatProperties DEF Delivered
  <2>3. Append(Delivered(q), Head(engine.out)) \o Tail(engine.out) = Delivered(q) \o engine.out
    BY <1>1, <1>5, <2>2, TakingKeepsDelivered
  <2> QED
    BY <1>1, <1>2, <1>6, <1>8, <1>9, <1>11, <2>1, <2>3 DEF OnItsWay
<1> QED
  BY <1>3, <1>7, <1>10, <1>11 DEF OnTheWay

LEMMA CloseStreamWay ==
  ASSUME Inv, OnTheWay, CloseStream
  PROVE  OnTheWay'
<1>1. engine.pc = "fail" \/ (engine.pc = "finish" /\ engine.out = <<>>)
  BY DEF CloseStream, At
<1>2. PICK q \in Request : q = Current /\ engine.req = {q}
  BY <1>1, CurrentIs DEF Inv, Types, HandsFit
<1>3. q \in DOMAIN stream
  BY <1>2 DEF Inv, NoRequestLost, InHand, Types, ActiveTypes
<1>4. /\ Closed(q) /\ engine'.pc = "retire" /\ engine'.req = engine.req
      /\ UNCHANGED <<driver, conn, received, lost, unreadable>>
  BY <1>2 DEF CloseStream, EngineGoto, clientVars, noteVars, Inv, Types, EngineTypes, EngineState
<1>5. /\ DOMAIN stream' = DOMAIN stream
      /\ \A r \in DOMAIN stream : stream'[r].chunks = stream[r].chunks
  BY <1>3, <1>4, CloseEffect DEF Inv, Types
<1>6. \A r \in DOMAIN stream : Delivered(r)' = Delivered(r) /\ Answer(r)' = Answer(r)
  BY <1>4, <1>5 DEF Delivered, Answer
<1>7. \A r \in DOMAIN stream : Delivered(r) \o <<>> = Delivered(r)
  <2>1. TAKE r \in DOMAIN stream
  <2>2. received[r] \in Seq(Chunk) /\ stream[r].chunks \in Seq(Chunk)
    BY DEF Inv, Types, ClientTypes, StreamTypes, StreamState
  <2>3. Delivered(r) \in Seq(Chunk)
    BY <2>2, ConcatProperties DEF Delivered
  <2> QED
    BY <2>3, ConcatEmptySeq
<1>8. ASSUME NEW r \in DOMAIN stream, OnItsWay(r)
      PROVE  OnItsWay(r)'
  BY <1>1, <1>2, <1>4, <1>6, <1>7, <1>8 DEF OnItsWay
<1> QED
  BY <1>4, <1>5, <1>8 DEF OnTheWay
-----------------------------------------------------------------------------
\* The steps together.
LEMMA InitWay == ServeInit => OnTheWay
  BY NoDomain DEF ServeInit, OnTheWay

LEMMA StutterWay == ASSUME OnTheWay, UNCHANGED serveVars PROVE OnTheWay'
  BY DEF serveVars, OnTheWay, OnItsWay, Delivered, Answer

LEMMA NextWay == Inv /\ OnTheWay /\ [ServeNext]_serveVars => OnTheWay'
<1> SUFFICES ASSUME Inv, OnTheWay, [ServeNext]_serveVars PROVE OnTheWay'
  OBVIOUS
<1>1. CASE UNCHANGED serveVars
  BY <1>1, StutterWay
<1>2. CASE Http
  BY <1>2, ArriveWay, DeliverWay, EndOfStreamWay, DropWay DEF Http
<1>3. CASE Engine
  BY <1>3, BookkeepingWay, StepRaisesWay, StepDecodeWay, PrefillWay, EmitTokenWay, EmitFailsWay,
     EmitFinishWay, CloseStreamWay DEF Engine
<1> QED
  BY <1>1, <1>2, <1>3 DEF ServeNext

\* A stream that was read to its end had the whole answer in it.
LEMMA EndIsAnswer ==
  ASSUME Inv, OnTheWay
  PROVE  AnswerComplete
<1> SUFFICES ASSUME NEW r \in DOMAIN conn, conn[r] = "ended", r \notin lost
             PROVE  received[r] = LET n == driver[r].tokens IN
                       IF r \in unreadable THEN Front(Tokens(n))
                       ELSE IF driver[r].status = "finished" THEN Tokens(n) \o Ending(n)
                       ELSE Tokens(n)
  BY DEF AnswerComplete, Tokens
<1>1. /\ r \in DOMAIN stream /\ r \in Request /\ stream[r].closed /\ stream[r].chunks = <<>>
      /\ received[r] \in Seq(Chunk) /\ driver[r].tokens \in Nat
  BY DEF Inv, Types, ClientTypes, StreamTypes, ClosingFits, DriverTypes, DriverState
<1>2. r \in engine.req => engine.pc = "retire"
  BY <1>1 DEF Inv, ClosingFits, NoRequestLost, InHand
<1>3. Delivered(r) = Answer(r)
  BY <1>1, <1>2 DEF OnTheWay, OnItsWay
<1>4. Delivered(r) = received[r]
  BY <1>1, ConcatEmptySeq DEF Delivered
<1>5. r \in unreadable => Front(Tokens(driver[r].tokens)) = Tokens(driver[r].tokens - 1)
  BY <1>1, FrontOfTokens DEF OnTheWay
<1> QED
  BY <1>3, <1>4, <1>5 DEF Answer

\* Whatever the clients read, leave unread or abandon, and whichever calls of the
\* engine fail: a client that read its stream to the end and for which no chunk met
\* a full stream has every token in order and the ending that belongs to them.
THEOREM AnswersComplete == ServeSpec => []AnswerComplete
<1>1. ServeInit => Inv /\ OnTheWay
  BY InitInv, InitWay
<1>2. Inv /\ OnTheWay /\ [ServeNext]_serveVars => (Inv /\ OnTheWay)'
  BY NextInv, NextWay
<1>3. Inv /\ OnTheWay => AnswerComplete
  BY EndIsAnswer
<1> QED
  BY <1>1, <1>2, <1>3, PTL DEF ServeSpec
-----------------------------------------------------------------------------
(* The token account, for every capacity, prompt and number of requests.      *)

\* The sum of a table's values, as FoldFunction computes it: element by element.
Total(f) == FoldFunction(+, 0, f)
Picked(s) == CHOOSE x \in s : TRUE
AddsUp(g, f, S) ==
  g = [s \in SUBSET S |-> IF s = {} THEN 0 ELSE f[Picked(s)] + g[s \ {Picked(s)}]]
-----------------------------------------------------------------------------
\* A set of naturals that is not empty has a least element.
LEMMA LeastNatural ==
  ASSUME NEW Bad \in SUBSET Nat, Bad # {}
  PROVE  \E n \in Bad : \A m \in Bad : n <= m
<1>1. PICK n \in Bad : \A m \in Bad : ~(<<m, n>> \in OpToRel(<, Nat))
  BY WFMin, NatLessThanWellFounded
<1>2. \A m \in Bad : ~(m < n)
  BY <1>1 DEF OpToRel
<1> QED
  BY <1>2

\* What the fold picks is there, and what is left is smaller.
LEMMA PickedIn == \A s : s # {} => Picked(s) \in s
  BY DEF Picked

LEMMA SmallerSet ==
  ASSUME NEW S, IsFiniteSet(S), NEW s \in SUBSET S, NEW x \in s
  PROVE  /\ IsFiniteSet(s) /\ Cardinality(s) \in Nat \ {0}
         /\ s \ {x} \in SUBSET S /\ Cardinality(s \ {x}) = Cardinality(s) - 1
<1>1. IsFiniteSet(s)
  BY FS_Subset
<1> QED
  BY <1>1, FS_CardinalityType, FS_RemoveElement, FS_EmptySet

\* The recursion of the fold is well founded: the sums of all subsets exist.
LEMMA SumsExist ==
  ASSUME NEW f, NEW S, IsFiniteSet(S)
  PROVE  \E g : AddsUp(g, f, S)
<1> DEFINE Level(n) == {s \in SUBSET S : Cardinality(s) <= n}
           UpTo(g, n) == \A s \in Level(n) :
                           g[s] = IF s = {} THEN 0 ELSE f[Picked(s)] + g[s \ {Picked(s)}]
           Bad == {n \in Nat : ~ \E g : UpTo(g, n)}
<1>1. ASSUME NEW s \in SUBSET S, s # {}
      PROVE  /\ Picked(s) \in s /\ s \ {Picked(s)} \in SUBSET S /\ Cardinality(s) \in Nat \ {0}
             /\ Cardinality(s \ {Picked(s)}) = Cardinality(s) - 1
  BY <1>1, PickedIn, SmallerSet
<1>2. Cardinality({}) = 0 /\ \A s \in SUBSET S : Cardinality(s) \in Nat
  BY FS_EmptySet, FS_Subset, FS_CardinalityType
<1>3. 0 \notin Bad
  <2>1. ASSUME NEW s \in SUBSET S, Cardinality(s) <= 0, s # {}
        PROVE  FALSE
    <3>1. Cardinality(s) \in Nat \ {0}
      BY <1>1, <2>1
    <3> QED
      BY <2>1, <3>1, SMT
  <2>2. UpTo([s \in SUBSET S |-> 0], 0)
    BY <2>1
  <2> QED
    BY <2>2
<1>4. ASSUME NEW n \in Nat, n + 1 \in Bad
      PROVE  n \in Bad
  <2> SUFFICES ASSUME NEW g, UpTo(g, n) PROVE FALSE
    BY <1>4
  <2> DEFINE h == [s \in SUBSET S |-> IF Cardinality(s) <= n THEN g[s]
                                      ELSE f[Picked(s)] + g[s \ {Picked(s)}]]
  <2>1. ASSUME NEW s \in Level(n + 1)
        PROVE  h[s] = IF s = {} THEN 0 ELSE f[Picked(s)] + h[s \ {Picked(s)}]
    <3>1. CASE s = {}
      BY <1>2, <3>1
    <3>2. CASE s # {}
      <4>1. /\ Cardinality(s \ {Picked(s)}) <= n /\ s \ {Picked(s)} \in SUBSET S
        BY <1>1, <2>1, <3>2
      <4>2. h[s \ {Picked(s)}] = g[s \ {Picked(s)}]
        BY <4>1
      <4>3. h[s] = f[Picked(s)] + g[s \ {Picked(s)}]
        <5>1. CASE Cardinality(s) <= n
          BY <3>2, <5>1
        <5>2. CASE ~(Cardinality(s) <= n)
          BY <5>2
        <5> QED
          BY <5>1, <5>2
      <4> QED
        BY <3>2, <4>2, <4>3
    <3> QED
      BY <3>1, <3>2
  <2>2. UpTo(h, n + 1)
    BY <2>1
  <2> HIDE DEF h
  <2> QED
    BY <1>4, <2>2
<1>5. Bad = {}
  <2> SUFFICES ASSUME Bad # {} PROVE FALSE
    OBVIOUS
  <2>1. PICK n \in Bad : \A m \in Bad : n <= m
    BY LeastNatural
  <2>3. n \in Nat /\ n # 0
    BY <1>3
  <2> HIDE DEF Bad
  <2>2. n - 1 \in Nat /\ n = (n - 1) + 1 /\ ~(n <= n - 1)
    BY <2>3
  <2> QED
    BY <1>4, <2>1, <2>2
<1>6. PICK g : UpTo(g, Cardinality(S))
  BY <1>2, <1>5
<1>7. Level(Cardinality(S)) = SUBSET S
  BY FS_Subset
<1> DEFINE h == [s \in SUBSET S |-> g[s]]
<1>8. AddsUp(h, f, S)
  <2>1. ASSUME NEW s \in SUBSET S
        PROVE  h[s] = IF s = {} THEN 0 ELSE f[Picked(s)] + h[s \ {Picked(s)}]
    <3>1. g[s] = IF s = {} THEN 0 ELSE f[Picked(s)] + g[s \ {Picked(s)}]
      BY <1>6, <1>7
    <3> QED
      BY <3>1
  <2> HIDE DEF Level, UpTo
  <2> QED
    BY <2>1 DEF AddsUp
<1> QED
  BY <1>8

\* The fold is one of these sums.
LEMMA TotalAddsUp ==
  ASSUME NEW f, IsFiniteSet(DOMAIN f)
  PROVE  \E g : AddsUp(g, f, DOMAIN f) /\ Total(f) = g[DOMAIN f]
<1> DEFINE g == CHOOSE g : AddsUp(g, f, DOMAIN f)
<1>1. AddsUp(g, f, DOMAIN f)
  BY SumsExist
<1>2. Total(f) = g[DOMAIN f]
  BY DEF Total, FoldFunction, FoldFunctionOnSet, MapThenFoldSet, AddsUp, Picked
<1> QED
  BY <1>1, <1>2

\* Sums, one element at a time.
LEMMA AddsUpStep ==
  ASSUME NEW f, NEW S, NEW g, AddsUp(g, f, S)
  PROVE  /\ g[{}] = 0
         /\ \A s \in SUBSET S : s # {} => g[s] = f[Picked(s)] + g[s \ {Picked(s)}]
<1>1. \A t \in SUBSET S : g[t] = IF t = {} THEN 0 ELSE f[Picked(t)] + g[t \ {Picked(t)}]
  BY DEF AddsUp
<1> QED
  BY <1>1

\* Sums of naturals are naturals.
LEMMA SumIsNatural ==
  ASSUME NEW S, IsFiniteSet(S), NEW f, \A x \in S : f[x] \in Nat, NEW g, AddsUp(g, f, S)
  PROVE  \A s \in SUBSET S : g[s] \in Nat
<1>0. \A s \in SUBSET S : s # {} => g[s] = f[Picked(s)] + g[s \ {Picked(s)}]
  BY AddsUpStep
<1> DEFINE Bad == {n \in Nat : \E s \in SUBSET S : Cardinality(s) = n /\ g[s] \notin Nat}
<1>1. \A s \in SUBSET S : Cardinality(s) \in Nat
  BY FS_Subset, FS_CardinalityType
<1>2. Bad = {}
  <2> SUFFICES ASSUME Bad # {} PROVE FALSE
    OBVIOUS
  <2>1. PICK n \in Bad : \A m \in Bad : n <= m
    BY LeastNatural
  <2>2. PICK s \in SUBSET S : Cardinality(s) = n /\ g[s] \notin Nat
    OBVIOUS
  <2>3. s # {}
    BY <2>2 DEF AddsUp
  <2>4. /\ Picked(s) \in s /\ s \ {Picked(s)} \in SUBSET S /\ Cardinality(s) \in Nat \ {0}
        /\ Cardinality(s \ {Picked(s)}) = Cardinality(s) - 1
    BY <2>3, PickedIn, SmallerSet
  <2>5. n - 1 \in Nat /\ ~(n <= n - 1)
    BY <2>2, <2>4
  <2>6. g[s \ {Picked(s)}] \in Nat
    BY <2>1, <2>2, <2>4, <2>5
  <2>7. g[s] = f[Picked(s)] + g[s \ {Picked(s)}] /\ f[Picked(s)] \in Nat
    BY <1>0, <2>3, <2>4
  <2> QED
    BY <2>2, <2>6, <2>7
<1> QED
  BY <1>1, <1>2

\* The order in which the fold takes the elements does not matter.
LEMMA SumTakesAny ==
  ASSUME NEW S, IsFiniteSet(S), NEW f, \A x \in S : f[x] \in Nat, NEW g, AddsUp(g, f, S)
  PROVE  \A s \in SUBSET S : \A x \in s : g[s] = f[x] + g[s \ {x}]
<1>0. \A s \in SUBSET S : s # {} => g[s] = f[Picked(s)] + g[s \ {Picked(s)}]
  BY AddsUpStep
<1> DEFINE Bad == {n \in Nat : \E s \in SUBSET S : Cardinality(s) = n
                                   /\ \E x \in s : g[s] # f[x] + g[s \ {x}]}
<1>1. \A s \in SUBSET S : Cardinality(s) \in Nat
  BY FS_Subset, FS_CardinalityType
<1>2. \A s \in SUBSET S : g[s] \in Nat
  BY SumIsNatural
<1>3. Bad = {}
  <2> SUFFICES ASSUME Bad # {} PROVE FALSE
    OBVIOUS
  <2>1. PICK n \in Bad : \A m \in Bad : n <= m
    BY LeastNatural
  <2>2. PICK s \in SUBSET S : Cardinality(s) = n /\ \E x \in s : g[s] # f[x] + g[s \ {x}]
    OBVIOUS
  <2>3. PICK x \in s : g[s] # f[x] + g[s \ {x}]
    BY <2>2
  <2> DEFINE c == Picked(s)
  <2>4. c \in s
    BY <2>3, PickedIn
  <2>5. g[s] = f[c] + g[s \ {c}]
    BY <1>0, <2>3
  <2>6. x # c
    BY <2>3, <2>5
  <2>7. /\ s \ {c} \in SUBSET S /\ s \ {x} \in SUBSET S /\ Cardinality(s) \in Nat \ {0}
        /\ Cardinality(s \ {c}) = Cardinality(s) - 1 /\ Cardinality(s \ {x}) = Cardinality(s) - 1
    BY <2>3, <2>4, SmallerSet
  <2>8. n - 1 \in Nat /\ ~(n <= n - 1) /\ x \in s \ {c} /\ c \in s \ {x}
    BY <2>2, <2>3, <2>4, <2>6, <2>7
  <2>9. g[s \ {c}] = f[x] + g[(s \ {c}) \ {x}]
    BY <2>1, <2>2, <2>7, <2>8
  <2>10. g[s \ {x}] = f[c] + g[(s \ {x}) \ {c}]
    BY <2>1, <2>2, <2>7, <2>8
  <2>11. (s \ {c}) \ {x} = (s \ {x}) \ {c}
    OBVIOUS
  <2>12. /\ f[x] \in Nat /\ f[c] \in Nat /\ g[s \ {c}] \in Nat /\ g[s \ {x}] \in Nat
         /\ g[(s \ {x}) \ {c}] \in Nat
    BY <1>2, <2>3, <2>4, <2>7
  <2> HIDE DEF c, Bad
  <2> QED
    BY <2>3, <2>5, <2>9, <2>10, <2>11, <2>12
<1>4. ASSUME NEW s \in SUBSET S, NEW x \in s
      PROVE  g[s] = f[x] + g[s \ {x}]
  BY <1>1, <1>3
<1> QED
  BY <1>4

\* Sums of tables that agree on a set agree.
LEMMA SumsAgree ==
  ASSUME NEW S, IsFiniteSet(S), NEW f, NEW g, AddsUp(g, f, S),
         NEW S2, NEW f2, NEW g2, AddsUp(g2, f2, S2)
  PROVE  \A s \in (SUBSET S) \cap (SUBSET S2) : (\A x \in s : f[x] = f2[x]) => g[s] = g2[s]
<1>0. \A s \in SUBSET S : s # {} => g[s] = f[Picked(s)] + g[s \ {Picked(s)}]
  BY AddsUpStep
<1>9. \A s \in SUBSET S2 : s # {} => g2[s] = f2[Picked(s)] + g2[s \ {Picked(s)}]
  BY AddsUpStep
<1> DEFINE Bad == {n \in Nat : \E s \in (SUBSET S) \cap (SUBSET S2) :
                     Cardinality(s) = n /\ (\A x \in s : f[x] = f2[x]) /\ g[s] # g2[s]}
<1>1. \A s \in SUBSET S : Cardinality(s) \in Nat
  BY FS_Subset, FS_CardinalityType
<1>2. Bad = {}
  <2> SUFFICES ASSUME Bad # {} PROVE FALSE
    OBVIOUS
  <2>1. PICK n \in Bad : \A m \in Bad : n <= m
    BY LeastNatural
  <2>2. PICK s \in (SUBSET S) \cap (SUBSET S2) :
          Cardinality(s) = n /\ (\A x \in s : f[x] = f2[x]) /\ g[s] # g2[s]
    OBVIOUS
  <2>3. s # {}
    <3>1. g[{}] = 0 /\ g2[{}] = 0
      BY DEF AddsUp
    <3> QED
      BY <2>2, <3>1
  <2> DEFINE c == Picked(s)
  <2>4. /\ c \in s /\ s \ {c} \in (SUBSET S) \cap (SUBSET S2) /\ Cardinality(s) \in Nat \ {0}
        /\ Cardinality(s \ {c}) = Cardinality(s) - 1
    BY <2>3, PickedIn, SmallerSet
  <2>5. n - 1 \in Nat /\ ~(n <= n - 1)
    BY <2>2, <2>4
  <2>6. g[s] = f[c] + g[s \ {c}] /\ g2[s] = f2[c] + g2[s \ {c}]
    <3>1. s \in SUBSET S /\ s \in SUBSET S2
      OBVIOUS
    <3> QED
      BY <1>0, <1>9, <2>3, <3>1
  <2>7. \A x \in s \ {c} : f[x] = f2[x]
    BY <2>2
  <2>8. g[s \ {c}] = g2[s \ {c}]
    BY <2>1, <2>2, <2>4, <2>5, <2>7
  <2> QED
    BY <2>2, <2>4, <2>6, <2>8
<1>3. ASSUME NEW s \in (SUBSET S) \cap (SUBSET S2), \A x \in s : f[x] = f2[x]
      PROVE  g[s] = g2[s]
  BY <1>1, <1>2, <1>3
<1> QED
  BY <1>3

\* A table's total is the value of any entry and the total of the others.
LEMMA TotalIsNatural ==
  ASSUME NEW f, IsFiniteSet(DOMAIN f), \A x \in DOMAIN f : f[x] \in Nat
  PROVE  Total(f) \in Nat /\ (DOMAIN f = {} => Total(f) = 0)
<1>1. PICK g : AddsUp(g, f, DOMAIN f) /\ Total(f) = g[DOMAIN f]
  BY TotalAddsUp
<1> QED
  BY <1>1, SumIsNatural, AddsUpStep

LEMMA TotalWithout ==
  ASSUME NEW f, IsFiniteSet(DOMAIN f), \A x \in DOMAIN f : f[x] \in Nat,
         NEW x \in DOMAIN f, NEW h, DOMAIN h = DOMAIN f \ {x}, \A y \in DOMAIN h : h[y] = f[y]
  PROVE  Total(f) = f[x] + Total(h)
<1>1. PICK g : AddsUp(g, f, DOMAIN f) /\ Total(f) = g[DOMAIN f]
  BY TotalAddsUp
<1>2. IsFiniteSet(DOMAIN h)
  BY FS_Subset
<1>3. PICK k : AddsUp(k, h, DOMAIN h) /\ Total(h) = k[DOMAIN h]
  BY <1>2, TotalAddsUp
<1>4. g[DOMAIN f] = f[x] + g[DOMAIN f \ {x}]
  BY <1>1, SumTakesAny
<1>5. g[DOMAIN h] = k[DOMAIN h]
  <2>1. DOMAIN h \in (SUBSET DOMAIN f) \cap (SUBSET DOMAIN h)
    OBVIOUS
  <2> QED
    BY <1>1, <1>3, <2>1, SumsAgree
<1> QED
  BY <1>1, <1>3, <1>4, <1>5
-----------------------------------------------------------------------------
\* A table of zeros adds up to zero.
LEMMA TotalOfZeros ==
  ASSUME NEW f, IsFiniteSet(DOMAIN f), \A x \in DOMAIN f : f[x] = 0
  PROVE  Total(f) = 0
<1>1. PICK g : AddsUp(g, f, DOMAIN f) /\ Total(f) = g[DOMAIN f]
  BY TotalAddsUp
<1> DEFINE z == [s \in SUBSET DOMAIN f |-> 0]
<1>2. AddsUp(z, f, DOMAIN f)
  <2>1. ASSUME NEW s \in SUBSET DOMAIN f
        PROVE  z[s] = IF s = {} THEN 0 ELSE f[Picked(s)] + z[s \ {Picked(s)}]
    <3>1. s # {} => f[Picked(s)] = 0 /\ z[s \ {Picked(s)}] = 0
      BY PickedIn
    <3> QED
      BY <3>1
  <2> HIDE DEF z
  <2>2. z = [s \in SUBSET DOMAIN f |-> z[s]]
    BY DEF z
  <2> QED
    BY <2>1, <2>2 DEF AddsUp
<1>3. g[DOMAIN f] = z[DOMAIN f]
  <2>1. DOMAIN f \in (SUBSET DOMAIN f) \cap (SUBSET DOMAIN f)
    OBVIOUS
  <2> HIDE DEF z
  <2> QED
    BY <1>1, <1>2, <2>1, SumsAgree
<1> QED
  BY <1>1, <1>3
-----------------------------------------------------------------------------
\* At most one request is between its prompt and its end: a round with decodes puts
\* its prompt back, so the batches never hold two.
OneAtATime ==
  \A r, s \in DOMAIN active :
    driver[r].status # "none" /\ driver[s].status # "none" => r = s

\* The engine thread starts a prompt only when no other request has a driver.
StartsAlone ==
  /\ IsFiniteSet(DOMAIN active)
  /\ OneAtATime
  /\ engine.candidate # {} /\ ~engine.decoded =>
       \A r \in DOMAIN active : driver[r].status = "none"
  /\ \A r \in unreadable : driver[r].status # "none"
  /\ \A r \in DOMAIN active : active[r] > 0 => driver[r].status # "none"

\* Every step keeps StartsAlone.
LEMMA InitAlone == ServeInit => StartsAlone
  BY NoDomain, FS_EmptySet DEF ServeInit, StartsAlone, OneAtATime, Idle

LEMMA ArriveAlone ==
  ASSUME Inv, StartsAlone, NEW r \in Request, Arrive(r)
  PROVE  StartsAlone'
<1>1. /\ DOMAIN active' = DOMAIN active \cup {r} /\ active'[r] = 0 /\ driver[r] = NoDriver
      /\ \A q \in DOMAIN active : q # r => active'[q] = active[q]
      /\ UNCHANGED <<driver, unreadable>>
  BY DEF Arrive, Put, noteVars, Inv, DriversFit
<1>2. engine'.candidate = engine.candidate /\ engine'.decoded = engine.decoded
  BY DEF Arrive, Woken, Inv, Types, EngineTypes, EngineState
<1>3. IsFiniteSet(DOMAIN active')
  BY <1>1, FS_AddElement DEF StartsAlone
<1> QED
  BY <1>1, <1>2, <1>3 DEF StartsAlone, OneAtATime, NoDriver

LEMMA HttpAlone ==
  ASSUME Inv, StartsAlone, NEW r \in Request, Deliver(r) \/ EndOfStream(r) \/ Drop(r)
  PROVE  StartsAlone'
  BY DEF Deliver, EndOfStream, Drop, StartsAlone, OneAtATime, noteVars

\* pop_next_batch leaves no decode in the queue when it takes none.
LEMMA NoDecodeLeft ==
  ASSUME NEW candidate, PopNextBatch(<<>>, candidate), IsFiniteSet(DOMAIN queue)
  PROVE  Waiting("decode") = {}
<1>1. IsFiniteSet(Waiting("decode")) /\ Cardinality(Waiting("decode")) \in Nat
  BY FS_Subset, FS_CardinalityType DEF Waiting
<1>2. PICK S \in SUBSET Waiting("decode") :
        /\ Cardinality(S) = Smaller(MaxBatch, Cardinality(Waiting("decode")))
        /\ <<>> \in SetToSeqs(S)
  BY DEF PopNextBatch, kSubset
<1>3. 1 .. Cardinality(S) = {}
  <2>1. <<>> \in [1 .. Cardinality(S) -> S]
    BY <1>2 DEF SetToSeqs
  <2> QED
    BY <2>1
<1>4. Cardinality(S) \in Nat
  BY <1>1, <1>2, FS_Subset, FS_CardinalityType
<1>5. Cardinality(S) = 0
  BY <1>3, <1>4
<1>6. Cardinality(Waiting("decode")) = 0
  BY <1>1, <1>2, <1>5, QueueAssumption DEF Smaller
<1> QED
  BY <1>1, <1>6, FS_EmptySet

LEMMA PopBatchAlone ==
  ASSUME Inv, StartsAlone, PopBatch
  PROVE  StartsAlone'
<1>1. PICK decodes \in {<<>>} \cup {<<r>> : r \in Waiting("decode")},
           candidate \in {{}} \cup {{r} : r \in Admissible} :
        /\ PopNextBatch(decodes, candidate)
        /\ engine' = [Idle EXCEPT !.pc = "round", !.batch = decodes,
                                  !.candidate = candidate, !.decoded = (decodes # <<>>)]
  BY DEF PopBatch
<1>2. engine.pc = "loop" /\ UNCHANGED <<active, driver, unreadable>>
  BY DEF PopBatch, At, noteVars
<1>3. engine'.decoded = (decodes # <<>>)
  BY <1>1 DEF Idle
<1>4. DOMAIN active = DOMAIN queue
  BY <1>2, NoDomain DEF Inv, NoRequestLost, HandsFit, InHand
<1>5. ASSUME decodes = <<>>, NEW r \in DOMAIN active
      PROVE  driver[r].status = "none"
  <2>1. Waiting("decode") = {}
    BY <1>1, <1>4, <1>5, NoDecodeLeft DEF StartsAlone
  <2>2. queue[r].phase # "decode"
    BY <1>4, <2>1 DEF Waiting
  <2> QED
    BY <1>4, <2>2 DEF Inv, NoRequestLost
<1> QED
  BY <1>2, <1>3, <1>5 DEF StartsAlone, OneAtATime

LEMMA StepDecodeAlone ==
  ASSUME Inv, StartsAlone, StepDecode
  PROVE  StartsAlone'
<1>1. engine.batch # <<>> /\ UNCHANGED <<active, unreadable>>
  BY DEF StepDecode, noteVars
<1>2. PICK r \in Request : r = Head(engine.batch) /\ Range(engine.batch) = {r}
  BY <1>1, BatchIs DEF Inv, Types
<1>3. r \in DOMAIN active /\ driver[r].status = "active"
  BY <1>2 DEF Inv, NoRequestLost, InHand, DriversFit
<1>4. engine'.candidate = engine.candidate /\ engine'.decoded = engine.decoded
  <2>1. PICK pc \in {"fail", "account"} :
          engine' = [engine EXCEPT !.batch = Tail(@), !.req = {r}, !.count = 1, !.pc = pc]
    BY <1>2 DEF StepDecode
  <2> QED
    BY <2>1 DEF Inv, Types, EngineTypes, EngineState
<1>5. driver' = Failed(r) \/ \E d \in AfterToken(r) : driver' = [driver EXCEPT ![r] = d]
  BY <1>2 DEF StepDecode
<1>6. /\ \A q \in Request : q # r => driver'[q] = driver[q]
      /\ driver'[r].status # "none"
  BY <1>5, TokenEffect DEF Inv, Types
<1>7. engine.candidate = {} \/ engine.decoded
  BY <1>3 DEF StartsAlone
<1>8. DOMAIN active \subseteq Request /\ unreadable \subseteq Request
  BY DEF Inv, Types, ActiveTypes, StreamTypes, DriverTypes
<1> QED
  BY <1>1, <1>3, <1>4, <1>6, <1>7, <1>8 DEF StartsAlone, OneAtATime

LEMMA PrefillAlone ==
  ASSUME Inv, StartsAlone, Prefill
  PROVE  StartsAlone'
<1>1. ~engine.decoded /\ UNCHANGED <<active, unreadable>>
  BY DEF Prefill, noteVars
<1>2. PICK r \in engine.candidate : PrefillOf(r)
  BY DEF Prefill
<1>3. r \in Request /\ r \in DOMAIN active /\ \A q \in DOMAIN active : driver[q].status = "none"
  BY <1>1, <1>2 DEF StartsAlone, Inv, Types, EngineTypes, EngineState, AtMostOne, NoRequestLost, InHand
<1>4. engine'.candidate = {}
  <2>1. PICK pc \in {"fail", "account"} :
          engine' = [engine EXCEPT !.candidate = {}, !.req = {r}, !.count = PromptLength[r] + 1,
                                   !.pc = pc]
    BY <1>2 DEF PrefillOf
  <2> QED
    BY <2>1 DEF Inv, Types, EngineTypes, EngineState
<1>5. driver' = Failed(r) \/ \E d \in AfterToken(r) : driver' = [driver EXCEPT ![r] = d]
  BY <1>2 DEF PrefillOf
<1>6. /\ \A q \in Request : q # r => driver'[q] = driver[q]
      /\ driver'[r].status # "none"
  BY <1>3, <1>5, TokenEffect DEF Inv, Types
<1>7. DOMAIN active \subseteq Request /\ unreadable \subseteq Request
  BY DEF Inv, Types, ActiveTypes, StreamTypes, DriverTypes
<1> QED
  BY <1>1, <1>3, <1>4, <1>6, <1>7 DEF StartsAlone, OneAtATime

LEMMA AccountAlone ==
  ASSUME Inv, StartsAlone, Account
  PROVE  StartsAlone'
<1>1. engine.pc = "account"
  BY DEF Account, At
<1>2. PICK r \in Request : r = Current /\ engine.req = {r}
  BY <1>1, CurrentIs DEF Inv, Types, HandsFit
<1>3. driver[r].status # "none"
  BY <1>1, <1>2 DEF Inv, DriversFit
<1>4. /\ UNCHANGED <<driver, unreadable>> /\ DOMAIN active' = DOMAIN active
      /\ \A q \in DOMAIN active : q # r => active'[q] = active[q]
      /\ engine'.candidate = engine.candidate /\ engine'.decoded = engine.decoded
  BY <1>2 DEF Account, EngineGoto, noteVars, Inv, Types, EngineTypes, EngineState
<1> QED
  BY <1>3, <1>4 DEF StartsAlone, OneAtATime

LEMMA RetireAlone ==
  ASSUME Inv, StartsAlone, Retire
  PROVE  StartsAlone'
<1>1. /\ DOMAIN active' \subseteq DOMAIN active /\ \A q \in DOMAIN active' : active'[q] = active[q]
      /\ UNCHANGED <<driver, unreadable>>
      /\ engine'.candidate = engine.candidate /\ engine'.decoded = engine.decoded
  BY DEF Retire, Restrict, noteVars, Inv, Types, EngineTypes, EngineState
<1>2. IsFiniteSet(DOMAIN active')
  BY <1>1, FS_Subset DEF StartsAlone
<1> QED
  BY <1>1, <1>2 DEF StartsAlone, OneAtATime

LEMMA EmitFailsAlone ==
  ASSUME Inv, StartsAlone, EmitFails
  PROVE  StartsAlone'
<1>1. engine.pc = "emit"
  BY DEF EmitFails, At
<1>2. PICK r \in Request : r = Current /\ engine.req = {r}
  BY <1>1, CurrentIs DEF Inv, Types, HandsFit
<1>3. driver[r].status # "none"
  BY <1>1, <1>2 DEF Inv, DriversFit
<1>4. /\ UNCHANGED <<driver, active>> /\ unreadable' = unreadable \cup {r}
      /\ engine'.candidate = engine.candidate /\ engine'.decoded = engine.decoded
  BY <1>2 DEF EmitFails, EngineGoto, Inv, Types, EngineTypes, EngineState
<1> QED
  BY <1>3, <1>4 DEF StartsAlone, OneAtATime

LEMMA OtherStepsAlone ==
  ASSUME Inv, StartsAlone,
         WaitForWork \/ Postpone \/ EndRound \/ EmitToken \/ EmitFinish \/ CloseStream \/ Requeue
  PROVE  StartsAlone'
<1>1. UNCHANGED <<active, driver, unreadable>>
  BY DEF WaitForWork, Postpone, EndRound, EmitToken, EmitFinish, CloseStream, Requeue, noteVars
<1>2. \/ engine'.candidate = {}
      \/ engine'.candidate = engine.candidate /\ engine'.decoded = engine.decoded
  <2>1. engine \in EngineState
    BY DEF Inv, Types, EngineTypes
  <2>2. CASE WaitForWork \/ CloseStream \/ Requeue
    BY <2>1, <2>2 DEF WaitForWork, CloseStream, Requeue, EngineGoto, EngineState
  <2>3. CASE Postpone \/ EndRound
    BY <2>3 DEF Postpone, EndRound, Idle
  <2>4. CASE EmitToken \/ EmitFinish
    BY <2>1, <2>4 DEF EmitToken, EmitFinish, EngineState
  <2> QED
    BY <2>2, <2>3, <2>4
<1> QED
  BY <1>1, <1>2 DEF StartsAlone, OneAtATime

LEMMA StepRaisesAlone ==
  ASSUME Inv, StartsAlone, StepRaises
  PROVE  StartsAlone'
  BY StepRaisesIs DEF StartsAlone, OneAtATime

LEMMA NextAlone == Inv /\ StartsAlone /\ [ServeNext]_serveVars => StartsAlone'
<1> SUFFICES ASSUME Inv, StartsAlone, [ServeNext]_serveVars PROVE StartsAlone'
  OBVIOUS
<1>1. CASE UNCHANGED serveVars
  BY <1>1 DEF serveVars, StartsAlone, OneAtATime
<1>2. CASE Http
  BY <1>2, ArriveAlone, HttpAlone DEF Http
<1>3. CASE Engine
  BY <1>3, PopBatchAlone, StepDecodeAlone, PrefillAlone, AccountAlone, RetireAlone,
     EmitFailsAlone, StepRaisesAlone, OtherStepsAlone DEF Engine
<1> QED
  BY <1>1, <1>2, <1>3 DEF ServeNext

\* However requests arrive and whatever the batch size and the watermarks: no
\* prompt is started while another request is between its prompt and its end.  This
\* is how the loop keeps its account, and why it never batches decodes.
LEMMA OneRequestAtATime == ServeSpec => []OneAtATime
<1>1. ServeInit => Inv /\ StartsAlone
  BY InitInv, InitAlone
<1>2. Inv /\ StartsAlone /\ [ServeNext]_serveVars => (Inv /\ StartsAlone)'
  BY NextInv, NextAlone
<1>3. StartsAlone => OneAtATime
  BY DEF StartsAlone
<1> QED
  BY <1>1, <1>2, <1>3, PTL DEF ServeSpec
-----------------------------------------------------------------------------
\* AccountingExact, with the sum by its name.
LEMMA ChargedIs ==
  AccountingExact <=>
    /\ allocated <= Total(active)
    /\ Total(active) <= TokenCapacity => allocated = Total(active)
    /\ congested => allocated > LowWatermark
  BY DEF AccountingExact, Total

LEMMA ChargedIsNext ==
  AccountingExact' <=>
    /\ allocated' <= Total(active')
    /\ Total(active') <= TokenCapacity => allocated' = Total(active')
    /\ congested' => allocated' > LowWatermark
<1> DEFINE Exact == /\ allocated <= Total(active)
                    /\ Total(active) <= TokenCapacity => allocated = Total(active)
                    /\ congested => allocated > LowWatermark
<1>1. AccountingExact <=> Exact
  BY ChargedIs
<1>2. Exact' <=> /\ allocated' <= Total(active')
                 /\ Total(active') <= TokenCapacity => allocated' = Total(active')
                 /\ congested' => allocated' > LowWatermark
  OBVIOUS
<1> HIDE DEF Exact
<1>3. AccountingExact' <=> Exact'
  BY <1>1, PTL
<1> QED
  BY <1>2, <1>3

\* The numbers the account is compared with.
LEMMA Watermarks == LowWatermark \in Nat /\ HighWatermark \in Nat
  BY QueueAssumption DEF LowWatermark, HighWatermark

LEMMA NoCharge ==
  ASSUME Inv, StartsAlone
  PROVE  Total(active) \in Nat /\ IsFiniteSet(DOMAIN active) /\ \A x \in DOMAIN active : active[x] \in Nat
  BY TotalIsNatural DEF Inv, Types, ActiveTypes, StartsAlone

\* The three steps that change the account or the charges, and the others.
LEMMA ArriveAccount ==
  ASSUME Inv, StartsAlone, StartsAlone', AccountingExact, NEW r \in Request, Arrive(r)
  PROVE  AccountingExact'
<1>1. /\ DOMAIN active' = DOMAIN active \cup {r} /\ active'[r] = 0 /\ r \notin DOMAIN active
      /\ \A q \in DOMAIN active : active'[q] = active[q]
      /\ UNCHANGED <<allocated, congested>>
  BY DEF Arrive, Put, Inv, Types, ActiveTypes
<1>2. IsFiniteSet(DOMAIN active') /\ \A q \in DOMAIN active' : active'[q] \in Nat
  BY <1>1, NoCharge DEF StartsAlone
<1>3. Total(active') = 0 + Total(active)
  BY <1>1, <1>2, TotalWithout
<1> QED
  BY <1>1, <1>3, NoCharge, ChargedIs, ChargedIsNext

LEMMA AccountAccount ==
  ASSUME Inv, StartsAlone, AccountingExact, Account, LowWatermark < HighWatermark
  PROVE  AccountingExact'
<1>1. engine.pc = "account"
  BY DEF Account, At
<1>2. PICK r \in Request : r = Current /\ engine.req = {r}
  BY <1>1, CurrentIs DEF Inv, Types, HandsFit
<1>3. r \in DOMAIN active /\ engine.count \in Nat
  BY <1>2 DEF Inv, NoRequestLost, InHand, Types, EngineTypes, EngineState
<1>4. active' = [active EXCEPT ![r] = @ + engine.count] /\ ReserveTokens(engine.count)
  BY <1>2 DEF Account
<1> DEFINE h == [q \in DOMAIN active \ {r} |-> active[q]]
<1>5. Total(active) = active[r] + Total(h)
  BY <1>3, NoCharge, TotalWithout
<1>6. /\ DOMAIN active' = DOMAIN active /\ active'[r] = active[r] + engine.count
      /\ \A q \in DOMAIN h : h[q] = active'[q]
      /\ \A q \in DOMAIN active : active'[q] \in Nat
  BY <1>3, <1>4, NoCharge
<1>7. Total(active') = active'[r] + Total(h)
  BY <1>3, <1>6, NoCharge, TotalWithout
<1>8. Total(h) \in Nat
  <2>1. IsFiniteSet(DOMAIN h) /\ \A q \in DOMAIN h : h[q] \in Nat
    BY NoCharge, FS_Subset
  <2> QED
    BY <2>1, TotalIsNatural
<1> HIDE DEF h
<1>9. Total(active') = Total(active) + engine.count /\ active[r] \in Nat
  BY <1>3, <1>5, <1>6, <1>7, <1>8, NoCharge
<1>10. /\ allocated \in Nat /\ Total(active) \in Nat /\ TokenCapacity \in Nat
       /\ LowWatermark \in Nat /\ HighWatermark \in Nat
  BY NoCharge, Watermarks, QueueAssumption DEF Inv, Types, QueueTypes
<1>11. /\ allocated <= Total(active)
       /\ Total(active) <= TokenCapacity => allocated = Total(active)
       /\ congested => allocated > LowWatermark
  BY ChargedIs
<1>12. /\ allocated' <= Total(active')
       /\ Total(active') <= TokenCapacity => allocated' = Total(active')
  BY <1>3, <1>4, <1>9, <1>10, <1>11 DEF ReserveTokens
<1>13. congested' => allocated' > LowWatermark
  <2>1. CASE engine.count > 0 /\ allocated + engine.count <= TokenCapacity
    <3>1. allocated' = allocated + engine.count
      BY <1>4, <2>1 DEF ReserveTokens
    <3>2. congested' => congested \/ allocated' >= HighWatermark
      BY <1>4 DEF ReserveTokens
    <3> QED
      BY <1>3, <1>10, <1>11, <3>1, <3>2
  <2>2. CASE ~(engine.count > 0 /\ allocated + engine.count <= TokenCapacity)
    <3>1. allocated' = allocated /\ (congested' => congested)
      BY <1>4, <2>2 DEF ReserveTokens
    <3> QED
      BY <1>11, <3>1
  <2> QED
    BY <2>1, <2>2
<1> QED
  BY <1>12, <1>13, ChargedIsNext

LEMMA RetireAccount ==
  ASSUME Inv, StartsAlone, AccountingExact, Retire
  PROVE  AccountingExact'
<1>1. engine.pc = "retire"
  BY DEF Retire, At
<1>2. PICK r \in Request : r = Current /\ engine.req = {r}
  BY <1>1, CurrentIs DEF Inv, Types, HandsFit
<1>3. r \in DOMAIN active /\ driver[r].status # "none"
  BY <1>1, <1>2 DEF Inv, NoRequestLost, InHand, DriversFit, StartsAlone
<1>4. /\ DOMAIN active' = DOMAIN active \ {r} /\ \A q \in DOMAIN active' : active'[q] = active[q]
      /\ ReleaseTokens(active[r])
  BY <1>2 DEF Retire, Restrict
<1>5. Total(active) = active[r] + Total(active')
  BY <1>3, <1>4, NoCharge, TotalWithout
<1>6. Total(active') = 0
  <2>1. \A q \in DOMAIN active' : active'[q] = 0
    <3>1. ASSUME NEW q \in DOMAIN active' PROVE active'[q] = 0
      <4>1. q \in DOMAIN active /\ q # r /\ active[q] \in Nat /\ ~(active[q] > 0)
        BY <1>3, <1>4, NoCharge DEF StartsAlone, OneAtATime
      <4> QED
        BY <1>4, <4>1
    <3> QED
      BY <3>1
  <2>2. IsFiniteSet(DOMAIN active')
    BY <1>4, NoCharge, FS_Subset
  <2> QED
    BY <2>1, <2>2, TotalOfZeros
<1>7. allocated \in Nat /\ active[r] \in Nat /\ LowWatermark \in Nat
  BY <1>3, NoCharge, Watermarks, QueueAssumption DEF Inv, Types, QueueTypes
<1>8. allocated <= active[r] /\ (congested => allocated > LowWatermark)
  BY <1>5, <1>6, <1>7, ChargedIs
<1>9. allocated' = 0
  BY <1>4, <1>7, <1>8 DEF ReleaseTokens, Larger
<1>10. ~congested'
  <2>1. congested' => congested /\ ~(active[r] > 0 /\ 0 <= LowWatermark)
    BY <1>4, <1>9 DEF ReleaseTokens
  <2> QED
    BY <1>7, <1>8, <2>1
<1>11. 0 <= 0 /\ allocated' = Total(active')
  BY <1>6, <1>9
<1> QED
  BY <1>6, <1>9, <1>10, <1>11, ChargedIsNext

LEMMA OtherStepsAccount ==
  ASSUME AccountingExact, UNCHANGED <<allocated, congested, active>>
  PROVE  AccountingExact'
  BY ChargedIs, ChargedIsNext

LEMMA NextAccount ==
  ASSUME LowWatermark < HighWatermark
  PROVE  Inv /\ StartsAlone /\ AccountingExact /\ [ServeNext]_serveVars => AccountingExact'
<1> SUFFICES ASSUME Inv, StartsAlone, AccountingExact, [ServeNext]_serveVars
             PROVE  AccountingExact'
  OBVIOUS
<1>1. StartsAlone'
  BY NextAlone
<1>2. CASE UNCHANGED serveVars
  BY <1>2, OtherStepsAccount DEF serveVars, queueVars
<1>3. CASE Http
  <2>1. PICK r \in Request : Arrive(r) \/ Deliver(r) \/ EndOfStream(r) \/ Drop(r)
    BY <1>3 DEF Http
  <2>2. CASE Arrive(r)
    BY <1>1, <2>2, ArriveAccount
  <2>3. CASE Deliver(r) \/ EndOfStream(r) \/ Drop(r)
    BY <2>3, OtherStepsAccount DEF Deliver, EndOfStream, Drop, queueVars
  <2> QED
    BY <2>1, <2>2, <2>3
<1>4. CASE Account
  BY <1>4, AccountAccount
<1>5. CASE Retire
  BY <1>5, RetireAccount
<1>6. CASE PopBatch
  BY <1>6, OtherStepsAccount DEF PopBatch, PopNextBatch
<1>7. CASE \/ WaitForWork \/ StepDecode \/ Postpone \/ Prefill \/ StepRaises \/ EndRound \/ EmitToken \/ EmitFails
           \/ EmitFinish \/ CloseStream \/ Requeue
  BY <1>7, OtherStepsAccount DEF WaitForWork, StepDecode, Postpone, Prefill, StepRaises, EndRound, EmitToken,
     EmitFails, EmitFinish, CloseStream, Requeue, queueVars
<1> QED
  BY <1>2, <1>3, <1>4, <1>5, <1>6, <1>7 DEF ServeNext, Engine

\* For every prompt, also one longer than the capacity, whose charge is refused: the
\* account is the sum of what the registered requests were charged whenever that
\* fits, and admission is closed only above the low watermark.  The watermarks must
\* differ, as they do for every capacity of five tokens or more.
THEOREM AccountIsExact ==
  ASSUME LowWatermark < HighWatermark
  PROVE  ServeSpec => []AccountingExact
<1>1. ServeInit => Inv /\ StartsAlone /\ AccountingExact
  <2> SUFFICES ASSUME ServeInit PROVE AccountingExact
    BY InitInv, InitAlone
  <2>1. Total(active) = 0
    BY NoDomain, FS_EmptySet, TotalIsNatural DEF ServeInit
  <2> QED
    BY <2>1, ChargedIs, QueueAssumption DEF ServeInit, QueueInit
<1>2. Inv /\ StartsAlone /\ AccountingExact /\ [ServeNext]_serveVars
        => (Inv /\ StartsAlone /\ AccountingExact)'
  BY NextInv, NextAlone, NextAccount
<1> QED
  BY <1>1, <1>2, PTL DEF ServeSpec

\* Five tokens of capacity are enough for the watermarks to differ.
LEMMA WatermarksDiffer == TokenCapacity >= 5 => LowWatermark < HighWatermark
  BY QueueAssumption DEF LowWatermark, HighWatermark
=============================================================================
