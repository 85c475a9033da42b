--------------------------- MODULE CaptureSession ---------------------------
(***************************************************************************)
(* compile_fx of src/python/llmopt_backend/__init__.py with an artifact    *)
(* directory: each call captures one FX graph, binds its static tensors to *)
(* the archive that all graphs of a process share, and writes both into a  *)
(* directory of its own for the compiler.                                  *)
(*                                                                         *)
(* The calls of one process are threads that share a session and its lock; *)
(* several processes may share the artifact directory and know each other  *)
(* only through it, and a process may die between any two steps.  A file   *)
(* is a name and an archive (an inode): linking makes a second name,       *)
(* os.replace gives a name another archive.  A tensor is its identity:     *)
(* storage that is freed and used again is outside this model.             *)
(***************************************************************************)
EXTENDS Naturals, Sequences, Tables

CONSTANTS
  Call,       \* the calls of compile_fx
  ProcessOf,  \* the process of each call
  Statics,    \* of each call, the key and tensor of its static FX nodes in order
  Together    \* the sets of calls that are made in one behaviour

ASSUME StaticsAssumption ==
  \A c \in Call : Statics[c] \in Seq({Statics[c][i] : i \in DOMAIN Statics[c]})

VARIABLES
  root,      \* the number of the archive named weights.llmopt in the root, 0: none
  archives,  \* the archives written: who sealed it, and the tensor under each key
  linked,    \* of each graph directory: the archive linked into it, 0: none
  graphs,    \* of each graph directory: its graph.llmopt
  session,   \* the entry of _capture_sessions in each process
  ticket,    \* _compile_counter of each process
  calls      \* each call's step, directory and error

captureVars == <<root, archives, linked, graphs, session, ticket, calls>>
diskVars == <<root, archives, linked, graphs>>

NoGraph == [of |-> {}, bindings |-> <<>>]
NewSession == [open |-> TRUE, sealed |-> FALSE, keyOf |-> <<>>]
NoSession == [NewSession EXCEPT !.open = FALSE]

CaptureInit ==
  /\ root = 0
  /\ archives = <<>>
  /\ linked = <<>> /\ graphs = <<>>
  /\ session = [p \in {ProcessOf[c] : c \in Call} |-> NoSession]
  /\ ticket = [p \in {ProcessOf[c] : c \in Call} |-> 0]
  /\ \E made \in Together :
       calls = [c \in Call |-> [pc |-> IF c \in made THEN "start" ELSE "dead",
                               dir |-> 0, bindings |-> <<>>, error |-> "none"]]

Goto(c, pc) == calls' = [calls EXCEPT ![c].pc = pc]
Raise(c, error) == calls' = [calls EXCEPT ![c].pc = "failed", ![c].error = error]
-----------------------------------------------------------------------------
(* What a graph says of its static tensors. *)

\* The first node with the tensor of node i: its key is used for both.
FirstUse(c, i) ==
  CHOOSE j \in 1 .. i :
    /\ Statics[c][j].tensor = Statics[c][i].tensor
    /\ \A k \in 1 .. j - 1 : Statics[c][k].tensor # Statics[c][i].tensor

CapturedKey(c, i) == Statics[c][FirstUse(c, i)].key

\* CapturedFx.tensors: a later tensor under the same key takes its place.
CapturedTensors(c) ==
  [key \in {CapturedKey(c, i) : i \in DOMAIN Statics[c]} |->
     LET last == CHOOSE i \in DOMAIN Statics[c] :
                   /\ FirstUse(c, i) = i /\ Statics[c][i].key = key
                   /\ \A j \in DOMAIN Statics[c] :
                        FirstUse(c, j) = j /\ Statics[c][j].key = key => j <= i
     IN  Statics[c][last].tensor]

Tensors(holds) == {holds[key] : key \in DOMAIN holds}

\* _key_by_identity after sealing: any key whose tensor it is.
KeyOf(holds) == [t \in Tensors(holds) |-> CHOOSE key \in DOMAIN holds : holds[key] = t]
-----------------------------------------------------------------------------
\* The next number of this process whose directory it is the one to create.
NextDirectory(c) ==
  LET p == ProcessOf[c]  d == ticket[p] IN
  /\ calls[c].pc = "start"
  /\ ticket' = [ticket EXCEPT ![p] = d + 1]
  /\ IF d \in DOMAIN linked
     THEN UNCHANGED <<linked, graphs, calls>>
     ELSE /\ linked' = Put(linked, d, 0)
          /\ graphs' = Put(graphs, d, NoGraph)
          /\ calls' = [calls EXCEPT ![c].pc = "lookup", ![c].dir = d]
  /\ UNCHANGED <<root, archives, session>>

\* Mutant of LookupSession: two threads may both find no session.
LookupSessionUnlocked(c) ==
  /\ calls[c].pc = "lookup"
  /\ session' = [session EXCEPT ![ProcessOf[c]] = NewSession]
  /\ Goto(c, "bind")
  /\ UNCHANGED <<diskVars, ticket>>

LookupSession(c) ==
  /\ calls[c].pc = "lookup"
  /\ session' = [session EXCEPT ![ProcessOf[c]] = IF @.open THEN @ ELSE NewSession]
  /\ Goto(c, "bind")
  /\ UNCHANGED <<diskVars, ticket>>

Locked(p) ==
  \E c \in Call : ProcessOf[c] = p /\ calls[c].pc \in {"sealing", "sealed"}

\* A graph without static tensors needs no archive; another takes the session's
\* lock, and the first one seals it unless the root has an archive already.
EnterBind(c) ==
  /\ calls[c].pc = "bind"
  /\ IF Statics[c] = <<>> THEN Goto(c, "write")
     ELSE /\ ~Locked(ProcessOf[c])
          /\ IF session[ProcessOf[c]].sealed THEN Goto(c, "sealed")
             ELSE IF root # 0 THEN Raise(c, "archive exists") ELSE Goto(c, "sealing")
  /\ UNCHANGED <<diskVars, session, ticket>>

\* write_archive: a temporary file, synced, takes the root's name at once.
Seal(c) ==
  LET holds == CapturedTensors(c) IN
  /\ calls[c].pc = "sealing"
  /\ archives' = Append(archives, [by |-> c, holds |-> holds])
  /\ root' = Len(archives')
  /\ session' = [session EXCEPT ![ProcessOf[c]].sealed = TRUE,
                                ![ProcessOf[c]].keyOf = KeyOf(holds)]
  /\ Goto(c, "sealed")
  /\ UNCHANGED <<linked, graphs, ticket>>

\* The temporary file is removed and the session stays unsealed.
SealFails(c) ==
  /\ calls[c].pc = "sealing"
  /\ Raise(c, "write")
  /\ UNCHANGED <<diskVars, session, ticket>>

\* Mutant of Rebind: the graph keeps the keys it was captured with.
RebindNot(c) == [i \in DOMAIN Statics[c] |-> CapturedKey(c, i)]

\* Each binding takes the key the session knows its tensor by.
Rebind(c) ==
  [i \in DOMAIN Statics[c] |->
     session[ProcessOf[c]].keyOf[CapturedTensors(c)[CapturedKey(c, i)]]]

LinkArchive(c) ==
  /\ calls[c].pc = "sealed"
  /\ IF Tensors(CapturedTensors(c)) \ DOMAIN session[ProcessOf[c]].keyOf # {}
     THEN Raise(c, "storage") /\ UNCHANGED linked
     ELSE IF linked[calls[c].dir] # 0
          THEN Raise(c, "graph archive exists") /\ UNCHANGED linked
          ELSE /\ linked' = [linked EXCEPT ![calls[c].dir] = root]
               /\ calls' = [calls EXCEPT ![c].pc = "write", ![c].bindings = Rebind(c)]
  /\ UNCHANGED <<root, archives, graphs, session, ticket>>

WriteGraph(c) ==
  /\ calls[c].pc = "write"
  /\ graphs' = [graphs EXCEPT ![calls[c].dir] = [of |-> {c}, bindings |-> calls[c].bindings]]
  /\ Goto(c, "compile")
  /\ UNCHANGED <<root, archives, linked, session, ticket>>

\* The compiler reads the directory's graph and archive, or fails.
Compile(c) ==
  /\ calls[c].pc = "compile"
  /\ Goto(c, "done") \/ Raise(c, "compiler")
  /\ UNCHANGED <<diskVars, session, ticket>>

Dies(p) ==
  /\ \E c \in Call : ProcessOf[c] = p /\ calls[c].pc \notin {"done", "failed", "dead"}
  /\ calls' = [c \in Call |->
       IF ProcessOf[c] = p /\ calls[c].pc \notin {"done", "failed"}
       THEN [calls[c] EXCEPT !.pc = "dead"] ELSE calls[c]]
  /\ UNCHANGED <<diskVars, session, ticket>>

CaptureNext ==
  \/ \E c \in Call : NextDirectory(c)
  \/ \E c \in Call : LookupSession(c)
  \/ \E c \in Call : EnterBind(c)
  \/ \E c \in Call : Seal(c)
  \/ \E c \in Call : SealFails(c)
  \/ \E c \in Call : LinkArchive(c)
  \/ \E c \in Call : WriteGraph(c)
  \/ \E c \in Call : Compile(c)
  \/ \E p \in {ProcessOf[c] : c \in Call} : Dies(p)
-----------------------------------------------------------------------------
\* _static_tensor_key drops the name of the root module, so two models in one
\* graph can give two tensors the same key.
KeysDistinct(c) ==
  \A i, j \in DOMAIN Statics[c] :
    Statics[c][i].key = Statics[c][j].key => Statics[c][i].tensor = Statics[c][j].tensor

SealedBy(c) == {i \in DOMAIN archives : ProcessOf[archives[i].by] = ProcessOf[c]}

\* A graph that was compiled finds in its directory its own graph file, and
\* under the key of each static node, aliases and tied weights included, the
\* tensor it was captured with, as long as the tensors of one graph have keys
\* of their own and one process alone has sealed the root (two that race both
\* pass the exists() check of _seal).
GraphWeightsRight ==
  (\A c, d \in Call : SealedBy(c) = {} \/ SealedBy(c) = SealedBy(d) \/ SealedBy(d) = {}) =>
    \A c \in Call : calls[c].pc = "done" /\ KeysDistinct(c) =>
      LET d == calls[c].dir IN
      /\ graphs[d].of = {c}
      /\ \A i \in DOMAIN Statics[c] :
           /\ linked[d] # 0
           /\ LET holds == archives[linked[d]].holds  key == graphs[d].bindings[i] IN
              key \in DOMAIN holds /\ holds[key] = Statics[c][i].tensor

\* A call is refused for what was there before it only when that is so: the
\* root's archive by another process, a tensor that the process's own sealing
\* graph did not have; its own directory never holds an archive, and a process
\* seals once, however its threads interleave.
RefusalsExplained ==
  \A c \in Call :
    /\ calls[c].error = "archive exists" =>
         \E i \in DOMAIN archives : ProcessOf[archives[i].by] # ProcessOf[c]
    /\ calls[c].error = "storage" =>
         \E i \in SealedBy(c) :
           Tensors(CapturedTensors(c)) \ Tensors(archives[i].holds) # {}
    /\ calls[c].error # "graph archive exists"
    /\ \A i, j \in SealedBy(c) : i = j
=============================================================================
