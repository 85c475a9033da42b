--------------------------- MODULE ProgramsProofs ---------------------------
(***************************************************************************)
(* What the Python programs of Programs promise, for any number of         *)
(* processes, conversations, runs and jobs: an inductive invariant of each *)
(* program, and from them the properties of a behaviour of one program.    *)
(***************************************************************************)
EXTENDS Programs, WellFoundedInduction, FiniteSetTheorems, SequenceTheorems, TLAPS

(* Captures: what a graph finds of its weights, and why a call is refused, however *)
(* the calls of a process interleave and whenever a process dies.                   *)

\* The records that the variables hold.
Processes == {ProcessOf[c] : c \in Call}
Steps == {"start", "lookup", "bind", "sealing", "sealed", "write", "compile", "done", "failed", "dead"}
Archive == {[by |-> c, holds |-> CapturedTensors(c)] : c \in Call}
KeyMaps == {<<>>} \cup {KeyOf(CapturedTensors(c)) : c \in Call}

\* The graph's bindings under the keys of such a map.
BoundBy(c, keyOf) == [i \in DOMAIN Statics[c] |-> keyOf[CapturedTensors(c)[CapturedKey(c, i)]]]
Bindings == {<<>>} \cup {BoundBy(c, keyOf) : c \in Call, keyOf \in KeyMaps}
SessionRecord == [open : BOOLEAN, sealed : BOOLEAN, keyOf : KeyMaps]
Refusals == {"archive exists", "storage", "graph archive exists"}
CallRecord == [pc : Steps, dir : Nat, bindings : Bindings,
               error : {"none", "write", "compiler"} \cup Refusals]
GraphRecord == [of : SUBSET Call, bindings : Bindings]

\* The types of the files, the sessions and the calls.
CaptureTypes ==
  /\ archives \in Seq(Archive) /\ root = Len(archives)
  /\ linked \in [DOMAIN linked -> {0} \cup DOMAIN archives]
  /\ graphs \in [DOMAIN linked -> GraphRecord]
  /\ session \in [Processes -> SessionRecord]
  /\ ticket \in [Processes -> Nat]
  /\ calls \in [Call -> CallRecord]

\* A session is sealed as soon as its process has written an archive, and it has
\* written one alone, whose keys are the session's.
SessionsSealed ==
  /\ \A p \in Processes : session[p].sealed => session[p].open
  /\ \A p \in Processes : session[p].sealed => \E i \in DOMAIN archives : ProcessOf[archives[i].by] = p
  /\ \A i \in DOMAIN archives :
       /\ session[ProcessOf[archives[i].by]].sealed
       /\ session[ProcessOf[archives[i].by]].keyOf = KeyOf(archives[i].holds)
  /\ \A i, j \in DOMAIN archives : ProcessOf[archives[i].by] = ProcessOf[archives[j].by] => i = j

\* A call has a session from its lookup on, and the session's lock while it seals or
\* has found it sealed.
CallsFit ==
  /\ \A c \in Call : calls[c].pc \in {"bind", "sealing", "sealed", "write", "compile", "done"} =>
       session[ProcessOf[c]].open
  /\ \A c \in Call : calls[c].pc = "sealing" => ~session[ProcessOf[c]].sealed
  /\ \A c \in Call : calls[c].pc = "sealed" => session[ProcessOf[c]].sealed
  /\ \A c, d \in Call :
       ProcessOf[c] = ProcessOf[d] /\ {calls[c].pc, calls[d].pc} \subseteq {"sealing", "sealed"} => c = d

\* From the time it has created its directory a call alone uses it.
HasDirectory(c) == calls[c].pc \in {"lookup", "bind", "sealing", "sealed", "write", "compile", "done"}

OwnDirectories ==
  /\ \A c \in Call : HasDirectory(c) => calls[c].dir \in DOMAIN linked
  /\ \A c, d \in Call : HasDirectory(c) /\ HasDirectory(d) /\ calls[c].dir = calls[d].dir => c = d

\* The archive is linked when the bindings are made, by the keys of the one archive of
\* the process; the graph is written with those bindings.
Linked(c) ==
  /\ linked[calls[c].dir] # 0
  /\ \E k \in SealedBy(c) :
       /\ Tensors(CapturedTensors(c)) \subseteq Tensors(archives[k].holds)
       /\ calls[c].bindings = BoundBy(c, KeyOf(archives[k].holds))

DirectoryFits(c) ==
  /\ calls[c].pc \in {"lookup", "bind", "sealing", "sealed"} => linked[calls[c].dir] = 0
  /\ calls[c].pc \in {"write", "compile", "done"} /\ Statics[c] # <<>> => Linked(c)
  /\ calls[c].pc \in {"compile", "done"} =>
       graphs[calls[c].dir] = [of |-> {c}, bindings |-> calls[c].bindings]

\* What a refused call was refused for.
Explained(c) ==
  /\ calls[c].error = "archive exists" =>
       \E i \in DOMAIN archives : ProcessOf[archives[i].by] # ProcessOf[c]
  /\ calls[c].error = "storage" =>
       \E i \in SealedBy(c) : Tensors(CapturedTensors(c)) \ Tensors(archives[i].holds) # {}
  /\ calls[c].error # "graph archive exists"

\* The invariant of compile_fx.
CaptureInv ==
  /\ CaptureTypes /\ SessionsSealed /\ CallsFit /\ OwnDirectories
  /\ \A c \in Call : DirectoryFits(c) /\ Explained(c)
-----------------------------------------------------------------------------
(* What a graph says of its tensors. *)

\* A set of numbers up to n that is not empty has a first and a last element.
LEMMA FirstAndLast ==
  ASSUME NEW n \in Nat, NEW S \in SUBSET (1 .. n), S # {}
  PROVE  (\E i \in S : \A j \in S : i <= j) /\ (\E i \in S : \A j \in S : j <= i)
<1>1. ASSUME NEW T \in SUBSET Nat, T # {} PROVE \E i \in T : \A j \in T : i <= j
  <2>1. PICK i \in T : \A j \in T : ~(<<j, i>> \in OpToRel(<, Nat))
    BY <1>1, WFMin, NatLessThanWellFounded
  <2>2. \A j \in T : ~(j < i)
    BY <2>1 DEF OpToRel
  <2> QED
    BY <2>2
<1>2. \E i \in S : \A j \in S : i <= j
  BY <1>1
<1>3. \E i \in S : \A j \in S : j <= i
  <2> DEFINE T == {n - i : i \in S}
  <2>1. T \in SUBSET Nat /\ T # {}
    <3>1. \A i \in S : n - i \in Nat
      OBVIOUS
    <3> QED
      BY <3>1
  <2>2. PICK k \in T : \A j \in T : k <= j
    BY <1>1, <2>1
  <2>3. PICK i \in S : k = n - i
    BY <2>2
  <2>4. \A j \in S : n - i <= n - j
    BY <2>2, <2>3
  <2> QED
    BY <2>3, <2>4
<1> QED
  BY <1>2, <1>3

\* Static nodes are numbered from 1.
LEMMA NodesNumbered ==
  ASSUME NEW c \in Call
  PROVE  \E n \in Nat : DOMAIN Statics[c] = 1 .. n
<1> DEFINE S == {Statics[c][i] : i \in DOMAIN Statics[c]}
<1>1. Statics[c] \in Seq(S)
  BY StaticsAssumption
<1> HIDE DEF S
<1> QED
  BY <1>1, LenProperties

\* The first use of a tensor is one, and the first use of itself.
LEMMA FirstUseIs ==
  ASSUME NEW c \in Call, NEW i \in DOMAIN Statics[c]
  PROVE  LET j == FirstUse(c, i) IN
         /\ j \in DOMAIN Statics[c] /\ Statics[c][j].tensor = Statics[c][i].tensor
         /\ FirstUse(c, j) = j
<1>1. PICK n \in Nat : DOMAIN Statics[c] = 1 .. n
  BY NodesNumbered
<1> DEFINE First(j, k) == /\ Statics[c][j].tensor = Statics[c][k].tensor
                          /\ \A m \in 1 .. j - 1 : Statics[c][m].tensor # Statics[c][k].tensor
<1>2. \E j \in 1 .. i : First(j, i)
  <2> DEFINE S == {j \in 1 .. i : Statics[c][j].tensor = Statics[c][i].tensor}
  <2>1. S \in SUBSET (1 .. n) /\ S # {}
    BY <1>1
  <2> HIDE DEF S
  <2>2. PICK j \in S : \A m \in S : j <= m
    BY <1>1, <2>1, FirstAndLast
  <2>3. j \in 1 .. i /\ Statics[c][j].tensor = Statics[c][i].tensor
    BY <2>2 DEF S
  <2>4. ASSUME NEW m \in 1 .. j - 1 PROVE Statics[c][m].tensor # Statics[c][i].tensor
    <3>1. m \notin S
      BY <1>1, <2>2, <2>3
    <3> QED
      BY <1>1, <2>3, <3>1 DEF S
  <2> QED
    BY <2>3, <2>4
<1> DEFINE j == FirstUse(c, i)
<1>3. j \in 1 .. i /\ First(j, i)
  BY <1>2 DEF FirstUse
<1> HIDE DEF j
<1>4. \A k \in 1 .. j : First(k, j) => k = j
  BY <1>1, <1>3
<1>5. First(j, j) /\ j \in 1 .. j
  BY <1>1, <1>3
<1>6. FirstUse(c, j) = j
  <2>1. FirstUse(c, j) \in 1 .. j /\ First(FirstUse(c, j), j)
    BY <1>5 DEF FirstUse
  <2> QED
    BY <1>4, <2>1
<1> QED
  BY <1>1, <1>3, <1>6 DEF j

\* A graph whose tensors have keys of their own finds each under its captured key.
LEMMA CapturedRight ==
  ASSUME NEW c \in Call, KeysDistinct(c), NEW i \in DOMAIN Statics[c]
  PROVE  /\ CapturedKey(c, i) \in DOMAIN CapturedTensors(c)
         /\ CapturedTensors(c)[CapturedKey(c, i)] = Statics[c][i].tensor
<1>1. PICK n \in Nat : DOMAIN Statics[c] = 1 .. n
  BY NodesNumbered
<1> DEFINE j == FirstUse(c, i)
           key == CapturedKey(c, i)
           S == {k \in DOMAIN Statics[c] : FirstUse(c, k) = k /\ Statics[c][k].key = key}
           Latest(k) == /\ FirstUse(c, k) = k /\ Statics[c][k].key = key
                        /\ \A m \in DOMAIN Statics[c] :
                             FirstUse(c, m) = m /\ Statics[c][m].key = key => m <= k
           last == CHOOSE k \in DOMAIN Statics[c] : Latest(k)
<1>2. /\ j \in DOMAIN Statics[c] /\ Statics[c][j].tensor = Statics[c][i].tensor
      /\ FirstUse(c, j) = j /\ Statics[c][j].key = key
  BY FirstUseIs DEF CapturedKey
<1>3. PICK k \in S : \A m \in S : m <= k
  <2>1. S \in SUBSET (1 .. n) /\ S # {}
    BY <1>1, <1>2
  <2> HIDE DEF S
  <2> QED
    BY <2>1, FirstAndLast
<1>4. k \in DOMAIN Statics[c] /\ Latest(k)
  BY <1>3
<1>5. last \in DOMAIN Statics[c] /\ Latest(last)
  BY <1>4
<1>6. key \in DOMAIN CapturedTensors(c) /\ CapturedTensors(c)[key] = Statics[c][last].tensor
  BY DEF CapturedTensors
<1> HIDE DEF last
<1>7. Statics[c][last].tensor = Statics[c][j].tensor
  BY <1>2, <1>5 DEF KeysDistinct
<1> QED
  BY <1>2, <1>6, <1>7

\* A tensor's key is one that it lies under.
LEMMA KeyOfRight ==
  ASSUME NEW holds, NEW t \in Tensors(holds)
  PROVE  /\ DOMAIN KeyOf(holds) = Tensors(holds)
         /\ KeyOf(holds)[t] \in DOMAIN holds /\ holds[KeyOf(holds)[t]] = t
  BY DEF KeyOf, Tensors
-----------------------------------------------------------------------------
(* The invariant. *)

\* Before the first call nothing is written.
LEMMA CaptureInvStarts == CaptureInit => CaptureInv
<1> SUFFICES ASSUME CaptureInit PROVE CaptureInv
  OBVIOUS
<1>1. PICK made \in Together :
        calls = [c \in Call |-> [pc |-> IF c \in made THEN "start" ELSE "dead",
                                 dir |-> 0, bindings |-> <<>>, error |-> "none"]]
  BY DEF CaptureInit
<1>2. \A c \in Call : calls[c].pc \in {"start", "dead"} /\ calls[c].error = "none"
  BY <1>1
<1>3. CaptureTypes
  <2>1. calls \in [Call -> CallRecord]
    BY <1>1 DEF CallRecord, Steps, Bindings
  <2>2. session \in [Processes -> SessionRecord]
    BY DEF CaptureInit, Processes, SessionRecord, NoSession, NewSession, KeyMaps
  <2>3. archives \in Seq(Archive) /\ root = Len(archives)
    BY EmptySeq DEF CaptureInit
  <2>4. ticket \in [Processes -> Nat]
    BY DEF CaptureInit, Processes
  <2>5. linked \in [DOMAIN linked -> {0} \cup DOMAIN archives] /\ graphs \in [DOMAIN linked -> GraphRecord]
    BY DEF CaptureInit
  <2> QED
    BY <2>1, <2>2, <2>3, <2>4, <2>5 DEF CaptureTypes
<1>4. SessionsSealed
  <2>1. \A p \in Processes : ~session[p].sealed
    BY DEF CaptureInit, Processes, NoSession, NewSession
  <2>2. DOMAIN archives = {}
    BY DEF CaptureInit
  <2> QED
    BY <2>1, <2>2 DEF SessionsSealed
<1>5. CallsFit /\ OwnDirectories
  BY <1>2 DEF CallsFit, OwnDirectories, HasDirectory
<1>6. \A c \in Call : DirectoryFits(c) /\ Explained(c)
  BY <1>2 DEF DirectoryFits, Explained
<1> QED
  BY <1>3, <1>4, <1>5, <1>6 DEF CaptureInv

\* What the records are.
LEMMA CaptureIs ==
  ASSUME CaptureTypes
  PROVE  /\ \A c \in Call : /\ calls[c] \in CallRecord /\ calls[c].pc \in Steps /\ calls[c].dir \in Nat
                            /\ ProcessOf[c] \in Processes
         /\ \A p \in Processes : session[p] \in SessionRecord
         /\ Len(archives) \in Nat /\ DOMAIN archives = 1 .. Len(archives)
         /\ \A i \in DOMAIN archives : archives[i].by \in Call
  BY LenProperties DEF CaptureTypes, CallRecord, Processes, Archive

\* A step of one call: to another pc, or to a refusal.
LEMMA GotoIs ==
  ASSUME CaptureTypes, NEW c \in Call, NEW pc \in Steps, Goto(c, pc)
  PROVE  /\ calls' \in [Call -> CallRecord] /\ \A d \in Call \ {c} : calls'[d] = calls[d]
         /\ calls'[c].pc = pc /\ calls'[c].dir = calls[c].dir
         /\ calls'[c].bindings = calls[c].bindings /\ calls'[c].error = calls[c].error
  BY DEF CaptureTypes, Goto, CallRecord

\* The same of a refusal.
LEMMA RaiseIs ==
  ASSUME CaptureTypes, NEW c \in Call, NEW error \in {"write", "compiler"} \cup Refusals, Raise(c, error)
  PROVE  /\ calls' \in [Call -> CallRecord] /\ \A d \in Call \ {c} : calls'[d] = calls[d]
         /\ calls'[c].pc = "failed" /\ calls'[c].dir = calls[c].dir
         /\ calls'[c].bindings = calls[c].bindings /\ calls'[c].error = error
  BY DEF CaptureTypes, Raise, CallRecord, Steps

\* A step of one call that moves nothing but the call.
LEMMA CallMoves ==
  ASSUME CaptureInv, NEW c \in Call, UNCHANGED <<diskVars, session, ticket>>,
         calls' \in [Call -> CallRecord], \A d \in Call \ {c} : calls'[d] = calls[d],
         HasDirectory(c)' => HasDirectory(c) /\ calls'[c].dir = calls[c].dir,
         CallsFit', DirectoryFits(c)', Explained(c)'
  PROVE  CaptureInv'
<1>1. UNCHANGED <<root, archives, linked, graphs, session, ticket>>
  BY DEF diskVars
<1>2. CaptureTypes' /\ SessionsSealed'
  BY <1>1 DEF CaptureInv, CaptureTypes, SessionsSealed
<1>3. OwnDirectories'
  BY <1>1 DEF CaptureInv, OwnDirectories, HasDirectory
<1>4. ASSUME NEW d \in Call \ {c} PROVE DirectoryFits(d)' /\ Explained(d)'
  <2>1. DirectoryFits(d) /\ Explained(d)
    BY DEF CaptureInv
  <2> QED
    BY <1>1, <2>1 DEF DirectoryFits, Linked, SealedBy, Explained
<1> QED
  BY <1>2, <1>3, <1>4 DEF CaptureInv

\* A call that fails keeps nobody from anything.
LEMMA FailsKeeps ==
  ASSUME CaptureInv, NEW c \in Call, UNCHANGED <<diskVars, session, ticket>>,
         calls' \in [Call -> CallRecord], \A d \in Call \ {c} : calls'[d] = calls[d],
         calls'[c].pc = "failed", Explained(c)'
  PROVE  CaptureInv'
<1>1. ~HasDirectory(c)' /\ DirectoryFits(c)'
  BY DEF HasDirectory, DirectoryFits
<1>2. CallsFit'
  BY DEF CaptureInv, CallsFit
<1> QED
  BY <1>1, <1>2, CallMoves

\* A directory that a call creates was nobody's.
LEMMA NextDirectoryKeeps ==
  ASSUME CaptureInv, NEW c \in Call, NextDirectory(c)
  PROVE  CaptureInv'
<1> DEFINE p == ProcessOf[c]
           d == ticket[p]
<1>1. /\ CaptureTypes /\ p \in Processes /\ d \in Nat /\ ticket' \in [Processes -> Nat]
      /\ UNCHANGED <<root, archives, session>> /\ calls[c].pc = "start"
  BY CaptureIs DEF CaptureInv, CaptureTypes, NextDirectory
<1>2. CASE d \in DOMAIN linked
  <2>1. UNCHANGED <<linked, graphs, calls>>
    BY <1>2 DEF NextDirectory
  <2>2. ASSUME NEW e \in Call PROVE DirectoryFits(e)' /\ Explained(e)'
    <3>1. DirectoryFits(e) /\ Explained(e)
      BY DEF CaptureInv
    <3> QED
      BY <1>1, <2>1, <3>1 DEF DirectoryFits, Linked, SealedBy, Explained
  <2>3. CaptureTypes' /\ SessionsSealed' /\ CallsFit' /\ OwnDirectories'
    BY <1>1, <2>1 DEF CaptureInv, CaptureTypes, SessionsSealed, CallsFit, OwnDirectories, HasDirectory
  <2> QED
    BY <2>2, <2>3 DEF CaptureInv
<1>3. CASE d \notin DOMAIN linked
  <2>1. /\ linked' = Put(linked, d, 0) /\ graphs' = Put(graphs, d, NoGraph)
        /\ calls' = [calls EXCEPT ![c].pc = "lookup", ![c].dir = d]
    BY <1>3 DEF NextDirectory
  <2>2. /\ calls' \in [Call -> CallRecord] /\ \A e \in Call \ {c} : calls'[e] = calls[e]
        /\ calls'[c].pc = "lookup" /\ calls'[c].dir = d /\ calls'[c].error = calls[c].error
    BY <1>1, <2>1 DEF CaptureTypes, CallRecord, Steps
  <2>3. /\ DOMAIN linked' = DOMAIN linked \cup {d} /\ linked'[d] = 0
        /\ \A e \in DOMAIN linked : linked'[e] = linked[e]
        /\ linked' \in [DOMAIN linked' -> {0} \cup DOMAIN archives]
    BY <1>1, <1>3, <2>1 DEF Put, CaptureTypes
  <2>4. \A e \in DOMAIN linked : graphs'[e] = graphs[e]
    BY <1>1, <1>3, <2>1 DEF Put, CaptureTypes
  <2>5. graphs' \in [DOMAIN linked' -> GraphRecord]
    <3>1. NoGraph \in GraphRecord
      BY DEF NoGraph, GraphRecord, Bindings
    <3> QED
      BY <1>1, <1>3, <2>1, <2>3, <3>1 DEF Put, CaptureTypes
  <2>6. CaptureTypes'
    BY <1>1, <2>2, <2>3, <2>5 DEF CaptureTypes
  <2>7. SessionsSealed' /\ CallsFit'
    BY <1>1, <2>2 DEF CaptureInv, SessionsSealed, CallsFit
  <2>8. \A e \in Call \ {c} : HasDirectory(e)' => HasDirectory(e) /\ calls'[e].dir \in DOMAIN linked
    BY <2>2 DEF CaptureInv, OwnDirectories, HasDirectory
  <2>9. OwnDirectories'
    <3>1. \A e \in Call : HasDirectory(e)' => calls'[e].dir \in DOMAIN linked'
      BY <2>2, <2>3, <2>8
    <3>2. \A e \in Call \ {c} : HasDirectory(e)' => calls'[e].dir # d
      BY <1>3, <2>8
    <3>3. ASSUME NEW e \in Call, NEW f \in Call, HasDirectory(e)', HasDirectory(f)', calls'[e].dir = calls'[f].dir
          PROVE  e = f
      <4>1. CASE e # c /\ f # c
        BY <2>2, <2>8, <3>3, <4>1 DEF CaptureInv, OwnDirectories
      <4> QED
        BY <2>2, <3>2, <3>3, <4>1
    <3> QED
      BY <3>1, <3>3 DEF OwnDirectories
  <2>10. ASSUME NEW e \in Call PROVE DirectoryFits(e)' /\ Explained(e)'
    <3>1. DirectoryFits(e) /\ Explained(e)
      BY DEF CaptureInv
    <3>2. Explained(e)'
      BY <1>1, <2>2, <3>1 DEF Explained, SealedBy
    <3>3. CASE e = c
      BY <2>2, <2>3, <3>2, <3>3 DEF DirectoryFits
    <3>4. CASE e # c /\ HasDirectory(e)
      <4>1. calls'[e] = calls[e] /\ calls[e].dir \in DOMAIN linked
        BY <2>2, <3>4 DEF CaptureInv, OwnDirectories
      <4>2. linked'[calls[e].dir] = linked[calls[e].dir] /\ graphs'[calls[e].dir] = graphs[calls[e].dir]
        BY <2>3, <2>4, <4>1
      <4>3. SealedBy(e)' = SealedBy(e)
        BY <1>1 DEF SealedBy
      <4>4. Linked(e) => Linked(e)'
        BY <1>1, <4>1, <4>2, <4>3 DEF Linked
      <4> QED
        BY <3>1, <3>2, <4>1, <4>2, <4>4 DEF DirectoryFits
    <3>5. CASE e # c /\ ~HasDirectory(e)
      BY <2>2, <3>2, <3>5 DEF DirectoryFits, HasDirectory
    <3> QED
      BY <3>3, <3>4, <3>5
  <2> QED
    BY <2>6, <2>7, <2>9, <2>10 DEF CaptureInv
<1> QED
  BY <1>2, <1>3

\* A session that a call opens is new, and one that is there stays.
LEMMA LookupSessionKeeps ==
  ASSUME CaptureInv, NEW c \in Call, LookupSession(c)
  PROVE  CaptureInv'
<1> DEFINE p == ProcessOf[c]
<1>1. /\ CaptureTypes /\ p \in Processes /\ calls[c].pc = "lookup" /\ session[p] \in SessionRecord
      /\ UNCHANGED <<root, archives, linked, graphs, ticket>>
  BY CaptureIs DEF CaptureInv, LookupSession, diskVars
<1>2. /\ calls' \in [Call -> CallRecord] /\ \A d \in Call \ {c} : calls'[d] = calls[d]
      /\ calls'[c].pc = "bind" /\ calls'[c].dir = calls[c].dir /\ calls'[c].error = calls[c].error
  BY <1>1, GotoIs DEF LookupSession, Steps
<1>3. /\ session' \in [Processes -> SessionRecord] /\ session'[p].open
      /\ \A q \in Processes \ {p} : session'[q] = session[q]
      /\ session[p].open => session'[p] = session[p]
      /\ ~session[p].open => ~session'[p].sealed
  BY <1>1 DEF LookupSession, CaptureTypes, SessionRecord, NewSession, KeyMaps
<1>4. \A q \in Processes : /\ session'[q].sealed = session[q].sealed
                           /\ session[q].open => session'[q].open
                           /\ session[q].sealed => session'[q] = session[q]
  <2>1. ~session[p].open => session[p].sealed = FALSE /\ session'[p].sealed = FALSE
    BY <1>1, <1>3 DEF CaptureInv, SessionsSealed, SessionRecord, CaptureTypes
  <2> QED
    BY <1>1, <1>3, <2>1 DEF CaptureInv, SessionsSealed
<1>5. CaptureTypes'
  BY <1>1, <1>2, <1>3 DEF CaptureTypes
<1>6. SessionsSealed'
  <2>1. \A i \in DOMAIN archives : ProcessOf[archives[i].by] \in Processes
    BY <1>1, CaptureIs
  <2> QED
    BY <1>1, <1>4, <2>1 DEF CaptureInv, SessionsSealed
<1>7. CallsFit'
  <2>1. \A d \in Call : ProcessOf[d] \in Processes
    BY DEF Processes
  <2> QED
    BY <1>2, <1>3, <1>4, <2>1 DEF CaptureInv, CallsFit
<1>8. OwnDirectories'
  BY <1>1, <1>2 DEF CaptureInv, OwnDirectories, HasDirectory
<1>9. ASSUME NEW d \in Call PROVE DirectoryFits(d)' /\ Explained(d)'
  <2>1. DirectoryFits(d) /\ Explained(d)
    BY DEF CaptureInv
  <2>2. SealedBy(d)' = SealedBy(d)
    BY <1>1 DEF SealedBy
  <2>3. Explained(d)'
    BY <1>1, <1>2, <2>1, <2>2 DEF Explained
  <2>4. CASE d = c
    BY <1>1, <1>2, <2>1, <2>3, <2>4 DEF DirectoryFits
  <2>5. CASE d # c
    BY <1>1, <1>2, <2>1, <2>2, <2>3, <2>5 DEF DirectoryFits, Linked
  <2> QED
    BY <2>4, <2>5
<1> QED
  BY <1>5, <1>6, <1>7, <1>8, <1>9 DEF CaptureInv

\* A call seals only when the root has no archive and no other thread seals.
LEMMA EnterBindKeeps ==
  ASSUME CaptureInv, NEW c \in Call, EnterBind(c)
  PROVE  CaptureInv'
<1>1. /\ CaptureTypes /\ ProcessOf[c] \in Processes /\ calls[c].pc = "bind"
      /\ UNCHANGED <<diskVars, session, ticket>> /\ UNCHANGED <<root, archives, linked, graphs>>
      /\ DirectoryFits(c) /\ Explained(c)
  BY CaptureIs DEF CaptureInv, EnterBind, diskVars
<1>2. ASSUME NEW pc \in {"write", "sealed", "sealing"}, Goto(c, pc), CallsFit',
             pc = "write" => Statics[c] = <<>>
      PROVE  CaptureInv'
  <2>1. /\ calls' \in [Call -> CallRecord] /\ \A d \in Call \ {c} : calls'[d] = calls[d]
        /\ calls'[c].pc = pc /\ calls'[c].dir = calls[c].dir /\ calls'[c].error = calls[c].error
    BY <1>1, <1>2, GotoIs DEF Steps
  <2>2. HasDirectory(c)' => HasDirectory(c) /\ calls'[c].dir = calls[c].dir
    BY <1>1, <2>1 DEF HasDirectory
  <2>3. DirectoryFits(c)'
    BY <1>1, <1>2, <2>1 DEF DirectoryFits
  <2>4. Explained(c)'
    BY <1>1, <2>1 DEF Explained, SealedBy
  <2> QED
    BY <1>1, <1>2, <2>1, <2>2, <2>3, <2>4, CallMoves
<1>3. CASE Statics[c] = <<>>
  <2>1. Goto(c, "write") /\ "write" \in Steps
    BY <1>3 DEF EnterBind, Steps
  <2>2. /\ \A d \in Call \ {c} : calls'[d] = calls[d]
        /\ calls'[c].pc = "write"
    BY <1>1, <2>1, GotoIs
  <2>3. CallsFit'
    BY <1>1, <2>2 DEF CaptureInv, CallsFit
  <2> QED
    BY <1>2, <1>3, <2>1, <2>3
<1>4. CASE Statics[c] # <<>> /\ session[ProcessOf[c]].sealed
  <2>1. Goto(c, "sealed") /\ "sealed" \in Steps /\ ~Locked(ProcessOf[c])
    BY <1>4 DEF EnterBind, Steps
  <2>2. /\ \A d \in Call \ {c} : calls'[d] = calls[d]
        /\ calls'[c].pc = "sealed"
    BY <1>1, <2>1, GotoIs
  <2>3. CallsFit'
    BY <1>1, <1>4, <2>1, <2>2 DEF CaptureInv, CallsFit, Locked
  <2> QED
    BY <1>2, <2>1, <2>3
<1>5. CASE Statics[c] # <<>> /\ ~session[ProcessOf[c]].sealed /\ root = 0
  <2>1. Goto(c, "sealing") /\ "sealing" \in Steps /\ ~Locked(ProcessOf[c])
    BY <1>5 DEF EnterBind, Steps
  <2>2. /\ \A d \in Call \ {c} : calls'[d] = calls[d]
        /\ calls'[c].pc = "sealing"
    BY <1>1, <2>1, GotoIs
  <2>3. CallsFit'
    BY <1>1, <1>5, <2>1, <2>2 DEF CaptureInv, CallsFit, Locked
  <2> QED
    BY <1>2, <2>1, <2>3
<1>6. CASE Statics[c] # <<>> /\ ~session[ProcessOf[c]].sealed /\ root # 0
  <2>1. Raise(c, "archive exists")
    BY <1>6 DEF EnterBind
  <2>2. /\ calls' \in [Call -> CallRecord] /\ \A d \in Call \ {c} : calls'[d] = calls[d]
        /\ calls'[c].pc = "failed" /\ calls'[c].error = "archive exists"
    BY <1>1, <2>1, RaiseIs DEF Refusals
  <2>3. root \in DOMAIN archives
    BY <1>1, <1>6, CaptureIs DEF CaptureTypes
  <2>4. ProcessOf[archives[root].by] # ProcessOf[c]
    BY <1>6, <2>3 DEF CaptureInv, SessionsSealed
  <2>5. Explained(c)'
    BY <1>1, <2>2, <2>3, <2>4 DEF Explained
  <2> QED
    BY <1>1, <2>2, <2>5, FailsKeeps
<1> QED
  BY <1>3, <1>4, <1>5, <1>6

\* An archive that cannot be written leaves everything as it was.
LEMMA SealFailsKeeps ==
  ASSUME CaptureInv, NEW c \in Call, SealFails(c)
  PROVE  CaptureInv'
<1>1. CaptureTypes /\ UNCHANGED <<diskVars, session, ticket>> /\ Raise(c, "write")
  BY DEF CaptureInv, SealFails
<1>2. /\ calls' \in [Call -> CallRecord] /\ \A d \in Call \ {c} : calls'[d] = calls[d]
      /\ calls'[c].pc = "failed" /\ calls'[c].error = "write"
  BY <1>1, RaiseIs
<1>3. Explained(c)'
  BY <1>2 DEF Explained
<1> QED
  BY <1>1, <1>2, <1>3, FailsKeeps

\* The compiler reads the directory and changes nothing.
LEMMA CompileKeeps ==
  ASSUME CaptureInv, NEW c \in Call, Compile(c)
  PROVE  CaptureInv'
<1>1. /\ CaptureTypes /\ calls[c].pc = "compile" /\ UNCHANGED <<diskVars, session, ticket>>
      /\ UNCHANGED <<root, archives, linked, graphs>> /\ DirectoryFits(c) /\ Explained(c)
  BY DEF CaptureInv, Compile, diskVars
<1>2. CASE Goto(c, "done")
  <2>1. /\ calls' \in [Call -> CallRecord] /\ \A d \in Call \ {c} : calls'[d] = calls[d]
        /\ calls'[c].pc = "done" /\ calls'[c].dir = calls[c].dir
        /\ calls'[c].bindings = calls[c].bindings /\ calls'[c].error = calls[c].error
    BY <1>1, <1>2, GotoIs DEF Steps
  <2>2. CallsFit'
    BY <1>1, <2>1 DEF CaptureInv, CallsFit
  <2>3. HasDirectory(c)' => HasDirectory(c) /\ calls'[c].dir = calls[c].dir
    BY <1>1, <2>1 DEF HasDirectory
  <2>4. DirectoryFits(c)' /\ Explained(c)'
    <3>1. Linked(c) => Linked(c)'
      BY <1>1, <2>1 DEF Linked, SealedBy
    <3> QED
      BY <1>1, <2>1, <3>1 DEF DirectoryFits, Explained, SealedBy
  <2> QED
    BY <1>1, <2>1, <2>2, <2>3, <2>4, CallMoves
<1>3. CASE Raise(c, "compiler")
  <2>1. /\ calls' \in [Call -> CallRecord] /\ \A d \in Call \ {c} : calls'[d] = calls[d]
        /\ calls'[c].pc = "failed" /\ calls'[c].error = "compiler"
    BY <1>1, <1>3, RaiseIs
  <2>2. Explained(c)'
    BY <2>1 DEF Explained
  <2> QED
    BY <1>1, <2>1, <2>2, FailsKeeps
<1> QED
  BY <1>2, <1>3 DEF Compile

\* A process that dies leaves its files as they are.
LEMMA DiesKeeps ==
  ASSUME CaptureInv, NEW p, Dies(p)
  PROVE  CaptureInv'
<1>1. /\ CaptureTypes /\ UNCHANGED <<root, archives, linked, graphs, session, ticket>>
      /\ \A c \in Call : calls[c] \in CallRecord
  BY CaptureIs DEF CaptureInv, Dies, diskVars
<1>2. \A c \in Call : /\ calls'[c] \in CallRecord
                      /\ calls'[c].error = calls[c].error
                      /\ calls'[c] = calls[c] \/ calls'[c].pc = "dead"
  BY <1>1 DEF Dies, CallRecord, Steps
<1>3. calls' \in [Call -> CallRecord]
  BY <1>2 DEF Dies
<1>4. CaptureTypes' /\ SessionsSealed'
  BY <1>1, <1>3 DEF CaptureInv, CaptureTypes, SessionsSealed
<1>5. CallsFit'
  BY <1>1, <1>2 DEF CaptureInv, CallsFit
<1>6. OwnDirectories'
  BY <1>1, <1>2 DEF CaptureInv, OwnDirectories, HasDirectory
<1>7. ASSUME NEW c \in Call PROVE DirectoryFits(c)' /\ Explained(c)'
  <2>1. DirectoryFits(c) /\ Explained(c)
    BY DEF CaptureInv
  <2>2. Explained(c)'
    BY <1>1, <1>2, <2>1 DEF Explained, SealedBy
  <2>3. CASE calls'[c] = calls[c]
    BY <1>1, <2>1, <2>2, <2>3 DEF DirectoryFits, Linked, SealedBy
  <2>4. CASE calls'[c].pc = "dead"
    BY <2>2, <2>4 DEF DirectoryFits
  <2> QED
    BY <1>2, <2>2, <2>3, <2>4
<1> QED
  BY <1>4, <1>5, <1>6, <1>7 DEF CaptureInv

\* The one archive of a process, under whose keys its session binds from now on.
LEMMA SealKeeps ==
  ASSUME CaptureInv, NEW c \in Call, Seal(c)
  PROVE  CaptureInv'
<1> DEFINE p == ProcessOf[c]
           holds == CapturedTensors(c)
           n == Len(archives) + 1
<1>1. /\ CaptureTypes /\ p \in Processes /\ calls[c].pc = "sealing" /\ session[p] \in SessionRecord
      /\ UNCHANGED <<linked, graphs, ticket>> /\ ~session[p].sealed /\ session[p].open
  BY CaptureIs DEF CaptureInv, CallsFit, Seal
<1>2. /\ calls' \in [Call -> CallRecord] /\ \A d \in Call \ {c} : calls'[d] = calls[d]
      /\ calls'[c].pc = "sealed" /\ calls'[c].dir = calls[c].dir /\ calls'[c].error = calls[c].error
  BY <1>1, GotoIs DEF Seal, Steps
<1>3. /\ archives' \in Seq(Archive) /\ root' = Len(archives')
      /\ Len(archives) \in Nat /\ DOMAIN archives = 1 .. Len(archives)
      /\ DOMAIN archives' = 1 .. n /\ n \notin DOMAIN archives
      /\ archives'[n] = [by |-> c, holds |-> holds]
      /\ \A i \in DOMAIN archives : i \in DOMAIN archives' /\ archives'[i] = archives[i]
  <2> DEFINE a == [by |-> c, holds |-> holds]
  <2>1. a \in Archive
    BY DEF Archive
  <2>2. archives' = Append(archives, a) /\ archives \in Seq(Archive)
    BY <1>1 DEF Seal, CaptureTypes
  <2>3. root' = Len(archives')
    BY DEF Seal
  <2> HIDE DEF a
  <2>4. /\ archives' \in Seq(Archive) /\ Len(archives') = n /\ archives'[n] = a
        /\ \A i \in 1 .. Len(archives) : archives'[i] = archives[i]
    BY <2>1, <2>2, AppendProperties
  <2>5. DOMAIN archives' = 1 .. n
    BY <2>4, LenProperties
  <2> QED
    BY <1>1, <2>3, <2>4, <2>5, CaptureIs DEF a
<1> HIDE DEF n
<1>4. /\ session' \in [Processes -> SessionRecord] /\ session'[p].open /\ session'[p].sealed
      /\ session'[p].keyOf = KeyOf(holds)
      /\ \A q \in Processes \ {p} : session'[q] = session[q]
  <2>1. KeyOf(holds) \in KeyMaps
    BY DEF KeyMaps
  <2>2. session' = [session EXCEPT ![p].sealed = TRUE, ![p].keyOf = KeyOf(holds)]
    BY DEF Seal
  <2> QED
    BY <1>1, <2>1, <2>2 DEF CaptureTypes, SessionRecord
<1>5. /\ \A i \in DOMAIN archives : ProcessOf[archives[i].by] \in Processes /\ ProcessOf[archives[i].by] # p
      /\ DOMAIN archives' = DOMAIN archives \cup {n} /\ n \in DOMAIN archives'
  <2>1. n = Len(archives) + 1
    BY DEF n
  <2> QED
    BY <1>1, <1>3, <2>1, CaptureIs DEF CaptureInv, SessionsSealed
<1>6. CaptureTypes'
  <2>1. linked \in [DOMAIN linked -> {0} \cup DOMAIN archives']
    BY <1>1, <1>3 DEF CaptureTypes
  <2> QED
    BY <1>1, <1>2, <1>3, <1>4, <2>1 DEF CaptureTypes
<1>7. SessionsSealed'
  <2>1. \A q \in Processes : session'[q].sealed => session'[q].open
    BY <1>4 DEF CaptureInv, SessionsSealed
  <2>2. ASSUME NEW q \in Processes, session'[q].sealed
        PROVE  \E i \in DOMAIN archives' : ProcessOf[archives'[i].by] = q
    <3>1. CASE q = p
      BY <1>3, <1>5, <3>1
    <3>2. CASE q # p
      <4>1. PICK i \in DOMAIN archives : ProcessOf[archives[i].by] = q
        BY <1>4, <2>2, <3>2 DEF CaptureInv, SessionsSealed
      <4> QED
        BY <1>3, <4>1
    <3> QED
      BY <3>1, <3>2
  <2>3. ASSUME NEW i \in DOMAIN archives'
        PROVE  /\ session'[ProcessOf[archives'[i].by]].sealed
               /\ session'[ProcessOf[archives'[i].by]].keyOf = KeyOf(archives'[i].holds)
    <3>1. CASE i = n
      BY <1>3, <1>4, <3>1
    <3>2. CASE i \in DOMAIN archives
      BY <1>3, <1>4, <1>5, <3>2 DEF CaptureInv, SessionsSealed
    <3> QED
      BY <1>5, <3>1, <3>2
  <2>4. ASSUME NEW i \in DOMAIN archives', NEW j \in DOMAIN archives',
               ProcessOf[archives'[i].by] = ProcessOf[archives'[j].by]
        PROVE  i = j
    <3>1. CASE i \in DOMAIN archives /\ j \in DOMAIN archives
      BY <1>3, <2>4, <3>1 DEF CaptureInv, SessionsSealed
    <3>2. ProcessOf[archives'[n].by] = p
      BY <1>3
    <3>3. \A k \in DOMAIN archives : ProcessOf[archives'[k].by] # p
      BY <1>3, <1>5
    <3>4. i \in DOMAIN archives \cup {n} /\ j \in DOMAIN archives \cup {n}
      BY <1>5
    <3> QED
      BY <2>4, <3>1, <3>2, <3>3, <3>4
  <2> QED
    BY <2>1, <2>2, <2>3, <2>4 DEF SessionsSealed
<1>8. CallsFit'
  <2>1. \A d \in Call : ProcessOf[d] \in Processes
    BY DEF Processes
  <2>2. \A d \in Call : calls'[d].pc \in {"bind", "sealing", "sealed", "write", "compile", "done"} =>
          session'[ProcessOf[d]].open
    BY <1>2, <1>4, <2>1 DEF CaptureInv, CallsFit
  <2>3. \A d \in Call : calls'[d].pc = "sealing" => ~session'[ProcessOf[d]].sealed
    BY <1>1, <1>2, <1>4, <2>1 DEF CaptureInv, CallsFit
  <2>4. \A d \in Call : calls'[d].pc = "sealed" => session'[ProcessOf[d]].sealed
    BY <1>1, <1>2, <1>4, <2>1 DEF CaptureInv, CallsFit
  <2>5. \A d, e \in Call :
          ProcessOf[d] = ProcessOf[e] /\ {calls'[d].pc, calls'[e].pc} \subseteq {"sealing", "sealed"} => d = e
    BY <1>1, <1>2 DEF CaptureInv, CallsFit
  <2> QED
    BY <2>2, <2>3, <2>4, <2>5 DEF CallsFit
<1>9. OwnDirectories'
  BY <1>1, <1>2 DEF CaptureInv, OwnDirectories, HasDirectory
<1>10. ASSUME NEW d \in Call PROVE DirectoryFits(d)' /\ Explained(d)'
  <2>1. DirectoryFits(d) /\ Explained(d)
    BY DEF CaptureInv
  <2>2. SealedBy(d) \subseteq SealedBy(d)'
    BY <1>3 DEF SealedBy
  <2>3. \A i \in SealedBy(d) : i \in DOMAIN archives /\ archives'[i] = archives[i]
    BY <1>3 DEF SealedBy
  <2>4. \A i \in DOMAIN archives : i \in DOMAIN archives' /\ archives'[i] = archives[i]
    BY <1>3
  <2>5. Explained(d)'
    <3>1. calls'[d].error = calls[d].error
      BY <1>2
    <3> QED
      BY <2>1, <2>2, <2>3, <2>4, <3>1 DEF Explained
  <2>6. CASE d = c
    BY <1>1, <1>2, <2>1, <2>5, <2>6 DEF DirectoryFits
  <2>7. CASE d # c
    <3>1. calls'[d] = calls[d] /\ linked' = linked /\ graphs' = graphs
      BY <1>1, <1>2, <2>7
    <3>2. Linked(d) => Linked(d)'
      BY <2>2, <2>3, <3>1 DEF Linked
    <3> QED
      BY <2>1, <2>5, <3>1, <3>2 DEF DirectoryFits
  <2> QED
    BY <2>6, <2>7
<1> QED
  BY <1>6, <1>7, <1>8, <1>9, <1>10 DEF CaptureInv

\* The archive goes into the directory and the bindings take its keys.
LEMMA LinkArchiveKeeps ==
  ASSUME CaptureInv, NEW c \in Call, LinkArchive(c)
  PROVE  CaptureInv'
<1> DEFINE p == ProcessOf[c]
           d == calls[c].dir
           own == Tensors(CapturedTensors(c))
<1>1. /\ CaptureTypes /\ p \in Processes /\ calls[c].pc = "sealed" /\ session[p].sealed
      /\ UNCHANGED <<root, archives, graphs, session, ticket>>
      /\ DirectoryFits(c) /\ Explained(c)
  BY CaptureIs DEF CaptureInv, CallsFit, LinkArchive
<1>2. PICK k \in DOMAIN archives : ProcessOf[archives[k].by] = p
  BY <1>1 DEF CaptureInv, SessionsSealed
<1>3. k \in SealedBy(c) /\ session[p].keyOf = KeyOf(archives[k].holds)
  BY <1>2 DEF SealedBy, CaptureInv, SessionsSealed
<1>4. DOMAIN session[p].keyOf = Tensors(archives[k].holds)
  BY <1>3 DEF KeyOf
<1>5. d \in DOMAIN linked /\ linked[d] = 0
  BY <1>1 DEF CaptureInv, OwnDirectories, HasDirectory, DirectoryFits
<1>6. CASE own \ DOMAIN session[p].keyOf # {}
  <2>1. Raise(c, "storage") /\ UNCHANGED linked
    BY <1>6 DEF LinkArchive
  <2>2. UNCHANGED <<diskVars, session, ticket>>
    BY <1>1, <2>1 DEF diskVars
  <2>3. /\ calls' \in [Call -> CallRecord] /\ \A e \in Call \ {c} : calls'[e] = calls[e]
        /\ calls'[c].pc = "failed" /\ calls'[c].error = "storage"
    BY <1>1, <2>1, RaiseIs DEF Refusals
  <2>4. Explained(c)'
    <3>1. SealedBy(c)' = SealedBy(c) /\ archives' = archives
      BY <1>1 DEF SealedBy
    <3> QED
      BY <1>3, <1>4, <1>6, <2>3, <3>1 DEF Explained
  <2> QED
    BY <2>2, <2>3, <2>4, FailsKeeps
<1>7. CASE own \ DOMAIN session[p].keyOf = {}
  <2>1. /\ linked' = [linked EXCEPT ![d] = root]
        /\ calls' = [calls EXCEPT ![c].pc = "write", ![c].bindings = Rebind(c)]
    BY <1>5, <1>7 DEF LinkArchive
  <2>2. Rebind(c) = BoundBy(c, KeyOf(archives[k].holds)) /\ Rebind(c) \in Bindings
    <3>1. Rebind(c) = BoundBy(c, KeyOf(archives[k].holds))
      BY <1>3 DEF Rebind, BoundBy
    <3>2. KeyOf(archives[k].holds) \in KeyMaps
      <4>1. archives[k] \in Archive
        BY <1>1, <1>2, ElementOfSeq, CaptureIs DEF CaptureTypes
      <4> QED
        BY <4>1 DEF Archive, KeyMaps
    <3> QED
      BY <3>1, <3>2 DEF Bindings
  <2>3. /\ calls' \in [Call -> CallRecord] /\ \A e \in Call \ {c} : calls'[e] = calls[e]
        /\ calls'[c].pc = "write" /\ calls'[c].dir = d /\ calls'[c].error = calls[c].error
        /\ calls'[c].bindings = Rebind(c)
    <3> HIDE DEF d
    <3>1. calls'[c] = [calls[c] EXCEPT !.pc = "write", !.bindings = Rebind(c)]
      BY <1>1, <2>1 DEF CaptureTypes
    <3>2. \A e \in Call \ {c} : calls'[e] = calls[e]
      BY <1>1, <2>1 DEF CaptureTypes
    <3>3. calls'[c] \in CallRecord
      BY <1>1, <2>2, <3>1, CaptureIs DEF CallRecord, Steps
    <3> QED
      BY <1>1, <2>1, <3>1, <3>2, <3>3, CaptureIs DEF d, CaptureTypes, CallRecord
  <2>4. root # 0 /\ root \in DOMAIN archives
    BY <1>1, <1>2, CaptureIs DEF CaptureTypes
  <2>5. /\ linked' \in [DOMAIN linked -> {0} \cup DOMAIN archives] /\ linked'[d] = root
        /\ \A e \in DOMAIN linked \ {d} : linked'[e] = linked[e]
        /\ DOMAIN linked' = DOMAIN linked
    BY <1>1, <1>5, <2>1, <2>4 DEF CaptureTypes
  <2>6. CaptureTypes' /\ SessionsSealed'
    BY <1>1, <2>3, <2>5 DEF CaptureInv, CaptureTypes, SessionsSealed
  <2>7. CallsFit'
    BY <1>1, <2>3 DEF CaptureInv, CallsFit
  <2>8. OwnDirectories'
    BY <1>1, <2>3, <2>5 DEF CaptureInv, OwnDirectories, HasDirectory
  <2>9. ASSUME NEW e \in Call PROVE DirectoryFits(e)' /\ Explained(e)'
    <3>1. DirectoryFits(e) /\ Explained(e)
      BY DEF CaptureInv
    <3>2. SealedBy(e)' = SealedBy(e) /\ archives' = archives /\ graphs' = graphs
      BY <1>1 DEF SealedBy
    <3>3. Explained(e)'
      <4>1. calls'[e].error = calls[e].error
        BY <2>3
      <4> QED
        BY <3>1, <3>2, <4>1 DEF Explained
    <3>4. CASE e = c
      <4>1. Linked(c)'
        BY <1>3, <1>4, <1>7, <2>2, <2>3, <2>4, <2>5, <3>2, <3>4 DEF Linked
      <4> QED
        BY <2>3, <3>3, <3>4, <4>1 DEF DirectoryFits
    <3>5. CASE e # c /\ HasDirectory(e)
      <4>1. calls'[e] = calls[e] /\ calls[e].dir \in DOMAIN linked /\ calls[e].dir # d
        BY <1>1, <2>3, <3>5 DEF CaptureInv, OwnDirectories, HasDirectory
      <4>2. linked'[calls[e].dir] = linked[calls[e].dir]
        BY <2>5, <4>1
      <4>3. Linked(e) => Linked(e)'
        BY <3>2, <4>1, <4>2 DEF Linked
      <4> QED
        BY <3>1, <3>2, <3>3, <4>1, <4>2, <4>3 DEF DirectoryFits
    <3>6. CASE e # c /\ ~HasDirectory(e)
      BY <2>3, <3>3, <3>6 DEF DirectoryFits, HasDirectory
    <3> QED
      BY <3>4, <3>5, <3>6
  <2> QED
    BY <2>6, <2>7, <2>8, <2>9 DEF CaptureInv
<1> QED
  BY <1>6, <1>7

\* The graph file goes into the call's own directory.
LEMMA WriteGraphKeeps ==
  ASSUME CaptureInv, NEW c \in Call, WriteGraph(c)
  PROVE  CaptureInv'
<1> DEFINE d == calls[c].dir
           graph == [of |-> {c}, bindings |-> calls[c].bindings]
<1>1. /\ CaptureTypes /\ calls[c] \in CallRecord /\ calls[c].pc = "write"
      /\ UNCHANGED <<root, archives, linked, session, ticket>>
      /\ graphs' = [graphs EXCEPT ![d] = graph]
      /\ DirectoryFits(c) /\ Explained(c)
  BY CaptureIs DEF CaptureInv, WriteGraph
<1>2. /\ calls' \in [Call -> CallRecord] /\ \A e \in Call \ {c} : calls'[e] = calls[e]
      /\ calls'[c].pc = "compile" /\ calls'[c].dir = d
      /\ calls'[c].bindings = calls[c].bindings /\ calls'[c].error = calls[c].error
  BY <1>1, GotoIs DEF WriteGraph, Steps
<1>3. d \in DOMAIN linked
  BY <1>1 DEF CaptureInv, OwnDirectories, HasDirectory
<1>4. graph \in GraphRecord
  BY <1>1 DEF GraphRecord, CallRecord
<1> HIDE DEF d, graph
<1>5. /\ graphs' \in [DOMAIN linked -> GraphRecord] /\ graphs'[d] = graph
      /\ \A e \in DOMAIN linked \ {d} : graphs'[e] = graphs[e]
  BY <1>1, <1>3, <1>4 DEF CaptureTypes
<1>6. CaptureTypes' /\ SessionsSealed'
  BY <1>1, <1>2, <1>5 DEF CaptureInv, CaptureTypes, SessionsSealed
<1>7. CallsFit'
  BY <1>1, <1>2 DEF CaptureInv, CallsFit
<1>8. OwnDirectories'
  BY <1>1, <1>2 DEF CaptureInv, OwnDirectories, HasDirectory, d
<1>9. ASSUME NEW e \in Call PROVE DirectoryFits(e)' /\ Explained(e)'
  <2>1. DirectoryFits(e) /\ Explained(e)
    BY DEF CaptureInv
  <2>2. SealedBy(e)' = SealedBy(e) /\ archives' = archives /\ linked' = linked
    BY <1>1 DEF SealedBy
  <2>3. Explained(e)'
    <3>1. calls'[e].error = calls[e].error
      BY <1>2
    <3> QED
      BY <2>1, <2>2, <3>1 DEF Explained
  <2>4. /\ calls'[e].dir = calls[e].dir /\ calls'[e].bindings = calls[e].bindings
    BY <1>2 DEF d
  <2>5. Linked(e) => Linked(e)'
    BY <2>2, <2>4 DEF Linked
  <2>6. CASE e = c
    BY <1>1, <1>2, <1>5, <2>1, <2>3, <2>4, <2>5, <2>6 DEF DirectoryFits, graph, d
  <2>7. CASE e # c /\ HasDirectory(e)
    <3>1. calls'[e] = calls[e] /\ calls[e].dir \in DOMAIN linked /\ calls[e].dir # d
      BY <1>1, <1>2, <2>7 DEF CaptureInv, OwnDirectories, HasDirectory, d
    <3>2. graphs'[calls[e].dir] = graphs[calls[e].dir]
      BY <1>5, <3>1
    <3> QED
      BY <2>1, <2>2, <2>3, <2>5, <3>1, <3>2 DEF DirectoryFits
  <2>8. CASE e # c /\ ~HasDirectory(e)
    BY <1>2, <2>3, <2>8 DEF DirectoryFits, HasDirectory
  <2> QED
    BY <2>6, <2>7, <2>8
<1> QED
  BY <1>6, <1>7, <1>8, <1>9 DEF CaptureInv

\* Every step of a call, or the death of a process, keeps the invariant.
LEMMA CaptureInvStays == CaptureInv /\ (CaptureNext \/ UNCHANGED captureVars) => CaptureInv'
<1>1. ASSUME CaptureInv, CaptureNext PROVE CaptureInv'
  BY <1>1, NextDirectoryKeeps, LookupSessionKeeps, EnterBindKeeps, SealKeeps, SealFailsKeeps,
     LinkArchiveKeeps, WriteGraphKeeps, CompileKeeps, DiesKeeps DEF CaptureNext
<1>2. ASSUME CaptureInv, UNCHANGED captureVars PROVE CaptureInv'
  <2>1. UNCHANGED <<root, archives, linked, graphs, session, ticket, calls>>
    BY <1>2 DEF captureVars
  <2>2. CaptureTypes' /\ SessionsSealed'
    BY <1>2, <2>1 DEF CaptureInv, CaptureTypes, SessionsSealed
  <2>3. CallsFit' /\ OwnDirectories'
    BY <1>2, <2>1 DEF CaptureInv, CallsFit, OwnDirectories, HasDirectory
  <2>4. ASSUME NEW c \in Call PROVE DirectoryFits(c)' /\ Explained(c)'
    <3>1. DirectoryFits(c) /\ Explained(c)
      BY <1>2 DEF CaptureInv
    <3>2. SealedBy(c)' = SealedBy(c)
      BY <2>1 DEF SealedBy
    <3> QED
      BY <2>1, <3>1, <3>2 DEF DirectoryFits, Linked, Explained
  <2> QED
    BY <2>2, <2>3, <2>4 DEF CaptureInv
<1> QED
  BY <1>1, <1>2

\* What the invariant says of refusals and of the archives of a process.
LEMMA RefusalsAreExplained == CaptureInv => RefusalsExplained
<1> SUFFICES ASSUME CaptureInv, NEW c \in Call
             PROVE  Explained(c) /\ \A i, j \in SealedBy(c) : i = j
  BY DEF Explained, RefusalsExplained
<1> QED
  BY DEF CaptureInv, SessionsSealed, SealedBy

\* The archive linked into the directory of a compiled graph is the one that its
\* process has sealed, where one process alone has.
LEMMA WeightsAreRight == CaptureInv => GraphWeightsRight
<1> SUFFICES ASSUME CaptureInv,
                    \A c, d \in Call : SealedBy(c) = {} \/ SealedBy(c) = SealedBy(d) \/ SealedBy(d) = {},
                    NEW c \in Call, calls[c].pc = "done", KeysDistinct(c)
             PROVE  LET d == calls[c].dir IN
                    /\ graphs[d].of = {c}
                    /\ \A i \in DOMAIN Statics[c] :
                         /\ linked[d] # 0
                         /\ LET holds == archives[linked[d]].holds  key == graphs[d].bindings[i] IN
                            key \in DOMAIN holds /\ holds[key] = Statics[c][i].tensor
  BY DEF GraphWeightsRight
<1> DEFINE d == calls[c].dir
           l == linked[d]
<1>1. /\ CaptureTypes /\ d \in DOMAIN linked
      /\ graphs[d] = [of |-> {c}, bindings |-> calls[c].bindings]
      /\ Statics[c] # <<>> => Linked(c)
  BY DEF CaptureInv, OwnDirectories, HasDirectory, DirectoryFits
<1>2. ASSUME NEW i \in DOMAIN Statics[c]
      PROVE  /\ l # 0
             /\ graphs[d].bindings[i] \in DOMAIN archives[l].holds
             /\ archives[l].holds[graphs[d].bindings[i]] = Statics[c][i].tensor
  <2>1. Linked(c)
    <3>1. Statics[c] # <<>>
      BY <1>2, EmptySeq
    <3> QED
      BY <1>1, <3>1
  <2>2. PICK k \in SealedBy(c) :
          /\ Tensors(CapturedTensors(c)) \subseteq Tensors(archives[k].holds)
          /\ calls[c].bindings = BoundBy(c, KeyOf(archives[k].holds))
    BY <2>1 DEF Linked
  <2>3. l \in DOMAIN archives /\ l # 0
    BY <1>1, <2>1 DEF Linked, CaptureTypes
  <2>4. l = k
    <3>1. archives[l].by \in Call /\ l \in SealedBy(archives[l].by)
      BY <1>1, <2>3, CaptureIs DEF SealedBy
    <3>2. l \in SealedBy(c)
      BY <2>2, <3>1
    <3> QED
      BY <2>2, <3>2 DEF CaptureInv, SessionsSealed, SealedBy
  <2> DEFINE key == CapturedKey(c, i)
             t == CapturedTensors(c)[key]
  <2>5. key \in DOMAIN CapturedTensors(c) /\ t = Statics[c][i].tensor
    BY <1>2, CapturedRight
  <2>6. t \in Tensors(archives[k].holds)
    BY <2>2, <2>5 DEF Tensors
  <2>7. graphs[d].bindings[i] = KeyOf(archives[k].holds)[t]
    BY <1>1, <1>2, <2>2 DEF BoundBy
  <2> HIDE DEF key, t
  <2>8. /\ KeyOf(archives[k].holds)[t] \in DOMAIN archives[k].holds
        /\ archives[k].holds[KeyOf(archives[k].holds)[t]] = t
    BY <2>6, KeyOfRight
  <2> QED
    BY <2>3, <2>4, <2>5, <2>7, <2>8
<1> QED
  BY <1>1, <1>2
-----------------------------------------------------------------------------
(* Benchmarks that drive llama.cpp. *)

HostSteps == {"start", "locked", "ready", "spawned", "measuring", "stopping", "terminating", "created",
              "written"} \cup Gone

\* The types of a benchmark's record and of what lies on the machine.
HostTypes ==
  /\ symlinked \in BOOLEAN
  /\ benchmarks \in [Benchmark -> [pc : HostSteps, campaigns : Nat]]
  /\ lock \subseteq Benchmark /\ temporaries \subseteq Benchmark
  /\ receipt \in [of : SUBSET Benchmark, results : Nat]

\* Where a benchmark has the lock, and where a llama-cli of its own may be alive.
Holder(b) == benchmarks[b].pc \notin Gone \cup {"start"}
Starting == {"spawned", "measuring", "stopping", "terminating"}
Reporting == {"created", "written"}

\* The lock belongs to the one benchmark that is past it and has not ended.
LockHeld ==
  /\ lock = {} \/ \E b \in Benchmark : lock = {b}
  /\ \A b \in Benchmark : Holder(b) <=> lock = {b}

\* A benchmark has no llama-cli but that of its next campaign, and this one only
\* while it is started or measured, or since the benchmark was ended there.
LlamasKnown ==
  \A l \in llamas :
    l.of \in Benchmark /\ l = Llama(l.of) /\ benchmarks[l.of].pc \in Starting \cup {"cut", "dead"}

\* Started under its own name, a llama-cli that is left over would have been seen.
OneAlive ==
  ~symlinked => \A b \in Benchmark :
    /\ benchmarks[b].pc \in {"ready"} \cup Reporting => llamas = {}
    /\ benchmarks[b].pc \in Starting => llamas = {Llama(b)}

\* Receipts are written after the last campaign, and a temporary is cleaned up.
ReceiptsWhole ==
  /\ \A b \in Benchmark : benchmarks[b].pc \in Reporting => benchmarks[b].campaigns = 2 * Campaigns
  /\ receipt.of # {} => receipt.results = 2 * Campaigns
  /\ \A b \in temporaries \cap Handling : benchmarks[b].pc \in Reporting \cup {"cut", "dead"}

\* The invariant of the benchmarks that drive llama.cpp.
HostInv == HostTypes /\ LockHeld /\ LlamasKnown /\ OneAlive /\ ReceiptsWhole

\* Before the first benchmark nothing holds the lock and no llama-cli is alive.
LEMMA HostInvStarts == HostInit => HostInv
  BY HostAssumption DEF HostInit, HostInv, HostTypes, LockHeld, Holder, LlamasKnown, OneAlive, ReceiptsWhole,
     Reporting, HostSteps, Gone, Starting

\* The lock stays where it is when no holder comes or goes.
LEMMA LockStays ==
  ASSUME LockHeld, NEW b \in Benchmark, lock' = lock, Holder(b)' <=> Holder(b),
         \A c \in Benchmark \ {b} : benchmarks'[c] = benchmarks[c]
  PROVE  LockHeld'
  BY DEF LockHeld, Holder

\* A benchmark that ends has not got it any more, and had it or not before.
LEMMA LockGiven ==
  ASSUME LockHeld, NEW b \in Benchmark, lock' = lock \ {b}, benchmarks'[b].pc \in Gone,
         \A c \in Benchmark \ {b} : benchmarks'[c] = benchmarks[c]
  PROVE  LockHeld'
<1>1. ~Holder(b)'
  BY DEF Holder
<1>2. CASE lock = {b}
  <2>1. lock' = {}
    BY <1>2
  <2>2. \A c \in Benchmark : ~Holder(c)'
    BY <1>1, <1>2 DEF LockHeld, Holder
  <2> QED
    BY <2>1, <2>2 DEF LockHeld
<1>3. CASE lock # {b}
  <2>1. lock' = lock /\ ~Holder(b)
    BY <1>3 DEF LockHeld
  <2> QED
    BY <1>1, <2>1, LockStays
<1> QED
  BY <1>2, <1>3

\* The lock is taken where nobody has it.
LEMMA AcquireLockKeeps ==
  ASSUME HostInv, NEW b \in Benchmark, AcquireLock(b)
  PROVE  HostInv'
<1>1. /\ HostTypes' /\ symlinked' = symlinked
      /\ \A c \in Benchmark \ {b} : benchmarks'[c] = benchmarks[c]
  BY DEF HostInv, HostTypes, LockHeld, LlamasKnown, AcquireLock, GoOn, HostSteps, Gone
<1>2. LockHeld'
  <2>1. CASE lock = {}
    <3>1. lock' = {b} /\ Holder(b)' /\ \A c \in Benchmark : ~Holder(c)
      BY <2>1 DEF HostInv, HostTypes, LockHeld, Holder, AcquireLock, GoOn, Gone
    <3>2. \A c \in Benchmark \ {b} : ~Holder(c)'
      BY <1>1, <3>1 DEF Holder
    <3> QED
      BY <3>1, <3>2 DEF LockHeld
  <2>2. CASE lock # {}
    BY <1>1, <2>2, LockStays DEF HostInv, HostTypes, Holder, AcquireLock, GoOn, Gone
  <2> QED
    BY <2>1, <2>2
<1>3. LlamasKnown'
  BY <1>1 DEF HostInv, HostTypes, LlamasKnown, AcquireLock, GoOn, Gone, Reporting, Starting, Llama
<1>4. OneAlive'
  BY <1>1 DEF HostInv, HostTypes, LockHeld, Holder, LlamasKnown, OneAlive,
     AcquireLock, GoOn, Gone, Reporting, Starting, Llama
<1>5. ReceiptsWhole'
  BY <1>1 DEF HostInv, HostTypes, ReceiptsWhole, AcquireLock, GoOn, Gone, Reporting
<1> QED
  BY <1>1, <1>2, <1>3, <1>4, <1>5 DEF HostInv

\* A holder that finds a llama-cli under its name goes no further.
LEMMA FindRunningKeeps ==
  ASSUME HostInv, NEW b \in Benchmark, FindRunning(b)
  PROVE  HostInv'
<1>1. /\ HostTypes' /\ symlinked' = symlinked
      /\ \A c \in Benchmark \ {b} : benchmarks'[c] = benchmarks[c]
  BY DEF HostInv, HostTypes, LockHeld, LlamasKnown, FindRunning, GoOn, HostSteps, Gone
<1>2. LockHeld'
  <2>1. CASE benchmarks'[b].pc = "ready"
    BY <1>1, <2>1, LockStays DEF HostInv, HostTypes, Holder, FindRunning, GoOn, Gone
  <2>2. CASE benchmarks'[b].pc # "ready"
    BY <1>1, <2>2, LockGiven DEF HostInv, HostTypes, FindRunning, GoOn, Gone
  <2> QED
    BY <2>1, <2>2
<1>3. LlamasKnown'
  BY <1>1 DEF HostInv, HostTypes, LlamasKnown, FindRunning, GoOn, Gone, Reporting, Starting, Llama
<1>4. OneAlive'
  BY <1>1 DEF HostInv, HostTypes, LockHeld, Holder, LlamasKnown, OneAlive,
     FindRunning, GoOn, Gone, Reporting, Starting, Llama
<1>5. ReceiptsWhole'
  BY <1>1 DEF HostInv, HostTypes, ReceiptsWhole, FindRunning, GoOn, Gone, Reporting
<1> QED
  BY <1>1, <1>2, <1>3, <1>4, <1>5 DEF HostInv

\* Nothing is alive under its own name when a llama-cli is spawned.
LEMMA SpawnKeeps ==
  ASSUME HostInv, NEW b \in Benchmark, Spawn(b)
  PROVE  HostInv'
<1>1. /\ HostTypes' /\ symlinked' = symlinked
      /\ \A c \in Benchmark \ {b} : benchmarks'[c] = benchmarks[c]
  BY DEF HostInv, HostTypes, LockHeld, LlamasKnown, Spawn, GoOn, HostSteps, Gone
<1>2. LockHeld'
  BY <1>1 DEF HostInv, HostTypes, LockHeld, Holder, Spawn, GoOn, Gone
<1>3. LlamasKnown'
  BY <1>1 DEF HostInv, HostTypes, LlamasKnown, Spawn, GoOn, Gone, Reporting, Starting, Llama
<1>4. OneAlive'
  <2>1. Llama(b)' = Llama(b) /\ llamas' = llamas \cup {Llama(b)} /\ benchmarks'[b].pc = "spawned"
    BY DEF HostInv, HostTypes, Spawn, GoOn, Llama
  <2>2. \A c \in Benchmark \ {b} : benchmarks[c].pc \in Gone \cup {"start"}
    BY DEF HostInv, HostTypes, LockHeld, Holder, Spawn, Gone
  <2>3. ~symlinked => llamas' = {Llama(b)}
    BY <2>1 DEF HostInv, OneAlive, Spawn, Reporting
  <2> QED
    BY <1>1, <2>1, <2>2, <2>3 DEF OneAlive, Gone, Reporting, Starting
<1>5. ReceiptsWhole'
  BY <1>1 DEF HostInv, HostTypes, ReceiptsWhole, Spawn, GoOn, Gone, Reporting
<1> QED
  BY <1>1, <1>2, <1>3, <1>4, <1>5 DEF HostInv

\* From spawned to measured: the same llama-cli.
LEMMA ActivateKeeps ==
  ASSUME HostInv, NEW b \in Benchmark, Activate(b)
  PROVE  HostInv'
<1>1. /\ HostTypes' /\ symlinked' = symlinked
      /\ \A c \in Benchmark \ {b} : benchmarks'[c] = benchmarks[c]
  BY DEF HostInv, HostTypes, LockHeld, LlamasKnown, Activate, GoOn, HostSteps, Gone
<1>2. LockHeld'
  BY <1>1 DEF HostInv, HostTypes, LockHeld, Holder, Activate, GoOn, Gone
<1>3. LlamasKnown'
  BY <1>1 DEF HostInv, HostTypes, LlamasKnown, Activate, GoOn, Gone, Reporting, Starting, Llama
<1>4. OneAlive'
  BY <1>1 DEF HostInv, HostTypes, LockHeld, Holder, LlamasKnown, OneAlive,
     Activate, GoOn, Gone, Reporting, Starting, Llama
<1>5. ReceiptsWhole'
  BY <1>1 DEF HostInv, HostTypes, ReceiptsWhole, Activate, GoOn, Gone, Reporting
<1> QED
  BY <1>1, <1>2, <1>3, <1>4, <1>5 DEF HostInv

\* A measured llama-cli that exits leaves none behind.
LEMMA ExitsKeeps ==
  ASSUME HostInv, NEW b \in Benchmark, Exits(b)
  PROVE  HostInv'
<1>1. /\ HostTypes' /\ symlinked' = symlinked
      /\ \A c \in Benchmark \ {b} : benchmarks'[c] = benchmarks[c]
  BY DEF HostInv, HostTypes, LockHeld, LlamasKnown, Exits, GoOn, HostSteps, Gone
<1>2. LockHeld'
  <2>1. CASE benchmarks'[b].pc = "ready"
    BY <1>1, <2>1, LockStays DEF HostInv, HostTypes, Holder, Exits, GoOn, Gone
  <2>2. CASE benchmarks'[b].pc # "ready"
    BY <1>1, <2>2, LockGiven DEF HostInv, HostTypes, Exits, GoOn, Gone
  <2> QED
    BY <2>1, <2>2
<1>3. LlamasKnown'
  BY <1>1 DEF HostInv, HostTypes, LlamasKnown, Exits, GoOn, Gone, Reporting, Starting, Llama
<1>4. OneAlive'
  BY <1>1 DEF HostInv, HostTypes, LockHeld, Holder, LlamasKnown, OneAlive,
     Exits, GoOn, Gone, Reporting, Starting, Llama
<1>5. ReceiptsWhole'
  BY <1>1 DEF HostInv, HostTypes, ReceiptsWhole, Exits, GoOn, Gone, Reporting
<1> QED
  BY <1>1, <1>2, <1>3, <1>4, <1>5 DEF HostInv

\* A campaign that takes too long goes on to terminate its llama-cli.
LEMMA CampaignTimesOutKeeps ==
  ASSUME HostInv, NEW b \in Benchmark, CampaignTimesOut(b)
  PROVE  HostInv'
<1>1. /\ HostTypes' /\ symlinked' = symlinked
      /\ \A c \in Benchmark \ {b} : benchmarks'[c] = benchmarks[c]
  BY DEF HostInv, HostTypes, LockHeld, LlamasKnown, CampaignTimesOut, GoOn, HostSteps, Gone
<1>2. LockHeld'
  BY <1>1 DEF HostInv, HostTypes, LockHeld, Holder, CampaignTimesOut, GoOn, Gone
<1>3. LlamasKnown'
  BY <1>1 DEF HostInv, HostTypes, LlamasKnown, CampaignTimesOut, GoOn, Gone, Reporting, Starting, Llama
<1>4. OneAlive'
  BY <1>1 DEF HostInv, HostTypes, LockHeld, Holder, LlamasKnown, OneAlive,
     CampaignTimesOut, GoOn, Gone, Reporting, Starting, Llama
<1>5. ReceiptsWhole'
  BY <1>1 DEF HostInv, HostTypes, ReceiptsWhole, CampaignTimesOut, GoOn, Gone, Reporting
<1> QED
  BY <1>1, <1>2, <1>3, <1>4, <1>5 DEF HostInv

\* A terminated llama-cli is waited for before its benchmark fails.
LEMMA ReapedKeeps ==
  ASSUME HostInv, NEW b \in Benchmark, Reaped(b)
  PROVE  HostInv'
<1>1. /\ HostTypes' /\ symlinked' = symlinked
      /\ \A c \in Benchmark \ {b} : benchmarks'[c] = benchmarks[c]
  BY DEF HostInv, HostTypes, LockHeld, LlamasKnown, Reaped, GoOn, HostSteps, Gone
<1>2. LockHeld'
  BY <1>1 DEF HostInv, HostTypes, LockHeld, Holder, Reaped, GoOn, Gone
<1>3. LlamasKnown'
  BY <1>1 DEF HostInv, HostTypes, LlamasKnown, Reaped, GoOn, Gone, Reporting, Starting, Llama
<1>4. OneAlive'
  BY <1>1 DEF HostInv, HostTypes, LockHeld, Holder, LlamasKnown, OneAlive,
     Reaped, GoOn, Gone, Reporting, Starting, Llama
<1>5. ReceiptsWhole'
  BY <1>1 DEF HostInv, HostTypes, ReceiptsWhole, Reaped, GoOn, Gone, Reporting
<1> QED
  BY <1>1, <1>2, <1>3, <1>4, <1>5 DEF HostInv

\* The temporary receipt is created after the last campaign.
LEMMA CreateTemporaryKeeps ==
  ASSUME HostInv, NEW b \in Benchmark, CreateTemporary(b)
  PROVE  HostInv'
<1>1. /\ HostTypes' /\ symlinked' = symlinked
      /\ \A c \in Benchmark \ {b} : benchmarks'[c] = benchmarks[c]
  BY DEF HostInv, HostTypes, LockHeld, LlamasKnown, CreateTemporary, GoOn, HostSteps, Gone
<1>2. LockHeld'
  <2>1. CASE benchmarks'[b].pc = "created"
    BY <1>1, <2>1, LockStays DEF HostInv, HostTypes, Holder, CreateTemporary, GoOn, Gone
  <2>2. CASE benchmarks'[b].pc # "created"
    BY <1>1, <2>2, LockGiven DEF HostInv, HostTypes, CreateTemporary, GoOn, Gone
  <2> QED
    BY <2>1, <2>2
<1>3. LlamasKnown'
  BY <1>1 DEF HostInv, HostTypes, LlamasKnown, CreateTemporary, GoOn, Gone, Reporting, Starting, Llama
<1>4. OneAlive'
  BY <1>1 DEF HostInv, HostTypes, LockHeld, Holder, LlamasKnown, OneAlive,
     CreateTemporary, GoOn, Gone, Reporting, Starting, Llama
<1>5. ReceiptsWhole'
  BY <1>1 DEF HostInv, HostTypes, ReceiptsWhole, CreateTemporary, GoOn, Gone, Reporting
<1> QED
  BY <1>1, <1>2, <1>3, <1>4, <1>5 DEF HostInv

\* From created to written: the same temporary.
LEMMA WriteTemporaryKeeps ==
  ASSUME HostInv, NEW b \in Benchmark, WriteTemporary(b)
  PROVE  HostInv'
<1>1. /\ HostTypes' /\ symlinked' = symlinked
      /\ \A c \in Benchmark \ {b} : benchmarks'[c] = benchmarks[c]
  BY DEF HostInv, HostTypes, LockHeld, LlamasKnown, WriteTemporary, GoOn, HostSteps, Gone
<1>2. LockHeld'
  BY <1>1 DEF HostInv, HostTypes, LockHeld, Holder, WriteTemporary, GoOn, Gone
<1>3. LlamasKnown'
  BY <1>1 DEF HostInv, HostTypes, LlamasKnown, WriteTemporary, GoOn, Gone, Reporting, Starting, Llama
<1>4. OneAlive'
  BY <1>1 DEF HostInv, HostTypes, LockHeld, Holder, LlamasKnown, OneAlive,
     WriteTemporary, GoOn, Gone, Reporting, Starting, Llama
<1>5. ReceiptsWhole'
  BY <1>1 DEF HostInv, HostTypes, ReceiptsWhole, WriteTemporary, GoOn, Gone, Reporting
<1> QED
  BY <1>1, <1>2, <1>3, <1>4, <1>5 DEF HostInv

\* The receipt takes the temporary's place, and the lock is given back.
LEMMA ReplaceReceiptKeeps ==
  ASSUME HostInv, NEW b \in Benchmark, ReplaceReceipt(b)
  PROVE  HostInv'
<1>1. /\ HostTypes' /\ symlinked' = symlinked
      /\ \A c \in Benchmark \ {b} : benchmarks'[c] = benchmarks[c]
  BY DEF HostInv, HostTypes, LockHeld, LlamasKnown, ReplaceReceipt, GoOn, HostSteps, Gone
<1>2. LockHeld'
  BY <1>1 DEF HostInv, HostTypes, LockHeld, Holder, ReplaceReceipt, GoOn, Gone
<1>3. LlamasKnown'
  BY <1>1 DEF HostInv, HostTypes, LlamasKnown, ReplaceReceipt, GoOn, Gone, Reporting, Starting, Llama
<1>4. OneAlive'
  BY <1>1 DEF HostInv, HostTypes, LockHeld, Holder, LlamasKnown, OneAlive,
     ReplaceReceipt, GoOn, Gone, Reporting, Starting, Llama
<1>5. ReceiptsWhole'
  BY <1>1 DEF HostInv, HostTypes, ReceiptsWhole, ReplaceReceipt, GoOn, Gone, Reporting
<1> QED
  BY <1>1, <1>2, <1>3, <1>4, <1>5 DEF HostInv

\* An interrupted benchmark terminates its llama-cli, is cut off, or cleans up.
LEMMA InterruptedKeeps ==
  ASSUME HostInv, NEW b \in Benchmark, Interrupted(b)
  PROVE  HostInv'
<1>1. /\ HostTypes' /\ symlinked' = symlinked
      /\ \A c \in Benchmark \ {b} : benchmarks'[c] = benchmarks[c]
  BY DEF HostInv, HostTypes, LockHeld, LlamasKnown, Interrupted, GoOn, HostSteps, Gone
<1>2. LockHeld'
  <2>1. CASE benchmarks'[b].pc \in {"stopping", "terminating"}
    BY <1>1, <2>1, LockStays DEF HostInv, HostTypes, Holder, Interrupted, GoOn, Gone
  <2>2. CASE benchmarks'[b].pc \notin {"stopping", "terminating"}
    BY <1>1, <2>2, LockGiven DEF HostInv, HostTypes, Interrupted, GoOn, Gone
  <2> QED
    BY <2>1, <2>2
<1>3. LlamasKnown'
  BY <1>1 DEF HostInv, HostTypes, LlamasKnown, Interrupted, GoOn, Gone, Reporting, Starting, Llama
<1>4. OneAlive'
  BY <1>1 DEF HostInv, HostTypes, LockHeld, Holder, LlamasKnown, OneAlive,
     Interrupted, GoOn, Gone, Reporting, Starting, Llama
<1>5. ReceiptsWhole'
  <2>1. CASE benchmarks'[b].pc \in {"terminating", "cut"}
    BY <1>1, <2>1 DEF HostInv, HostTypes, ReceiptsWhole, Interrupted, GoOn, Gone, Reporting
  <2>2. CASE benchmarks'[b].pc \notin {"terminating", "cut"}
    <3>1. benchmarks'[b].pc = "failed" /\ temporaries' = temporaries \ ({b} \cap Handling)
      BY <2>2 DEF HostInv, HostTypes, Interrupted, GoOn
    <3>2. receipt' = receipt
      BY DEF Interrupted
    <3>3. \A c \in temporaries' \cap Handling : c \in Benchmark \ {b} /\ c \in temporaries
      BY <3>1 DEF HostInv, HostTypes
    <3>4. \A c \in temporaries' \cap Handling : benchmarks'[c].pc \in Reporting \cup {"cut", "dead"}
      BY <1>1, <3>3 DEF HostInv, ReceiptsWhole
    <3>5. \A c \in Benchmark :
            benchmarks'[c].pc \in Reporting => benchmarks'[c].campaigns = 2 * Campaigns
      BY <1>1, <3>1 DEF HostInv, ReceiptsWhole, Reporting
    <3> QED
      BY <3>2, <3>4, <3>5 DEF HostInv, ReceiptsWhole
  <2> QED
    BY <2>1, <2>2
<1> QED
  BY <1>1, <1>2, <1>3, <1>4, <1>5 DEF HostInv

\* A benchmark that is told to end does as much through its handler.
LEMMA TerminatedKeeps ==
  ASSUME HostInv, NEW b \in Benchmark, Terminated(b)
  PROVE  HostInv'
<1>1. /\ HostTypes' /\ symlinked' = symlinked
      /\ \A c \in Benchmark \ {b} : benchmarks'[c] = benchmarks[c]
  BY DEF HostInv, HostTypes, LockHeld, LlamasKnown, Terminated, GoOn, HostSteps, Gone
<1>2. LockHeld'
  <2>1. CASE benchmarks'[b].pc \in {"stopping", "terminating"}
    BY <1>1, <2>1, LockStays DEF HostInv, HostTypes, Holder, Terminated, GoOn, Gone
  <2>2. CASE benchmarks'[b].pc \notin {"stopping", "terminating"}
    BY <1>1, <2>2, LockGiven DEF HostInv, HostTypes, Terminated, GoOn, Gone
  <2> QED
    BY <2>1, <2>2
<1>3. LlamasKnown'
  BY <1>1 DEF HostInv, HostTypes, LlamasKnown, Terminated, GoOn, Gone, Reporting, Starting, Llama
<1>4. OneAlive'
  BY <1>1 DEF HostInv, HostTypes, LockHeld, Holder, LlamasKnown, OneAlive,
     Terminated, GoOn, Gone, Reporting, Starting, Llama
<1>5. ReceiptsWhole'
  BY <1>1 DEF HostInv, HostTypes, ReceiptsWhole, Terminated, GoOn, Gone, Reporting
<1> QED
  BY <1>1, <1>2, <1>3, <1>4, <1>5 DEF HostInv

\* A benchmark that is killed leaves its llama-cli and its temporary.
LEMMA KilledKeeps ==
  ASSUME HostInv, NEW b \in Benchmark, Killed(b)
  PROVE  HostInv'
<1>1. /\ HostTypes' /\ symlinked' = symlinked
      /\ \A c \in Benchmark \ {b} : benchmarks'[c] = benchmarks[c]
  BY DEF HostInv, HostTypes, LockHeld, LlamasKnown, Killed, GoOn, HostSteps, Gone
<1>2. LockHeld'
  BY <1>1 DEF HostInv, HostTypes, LockHeld, Holder, Killed, GoOn, Gone
<1>3. LlamasKnown'
  BY <1>1 DEF HostInv, HostTypes, LlamasKnown, Killed, GoOn, Gone, Reporting, Starting, Llama
<1>4. OneAlive'
  BY <1>1 DEF HostInv, HostTypes, LockHeld, Holder, LlamasKnown, OneAlive,
     Killed, GoOn, Gone, Reporting, Starting, Llama
<1>5. ReceiptsWhole'
  BY <1>1 DEF HostInv, HostTypes, ReceiptsWhole, Killed, GoOn, Gone, Reporting
<1> QED
  BY <1>1, <1>2, <1>3, <1>4, <1>5 DEF HostInv

\* A llama-cli without a benchmark ends some day.
LEMMA OrphanExitsKeeps ==
  ASSUME HostInv, NEW l \in llamas, OrphanExits(l)
  PROVE  HostInv'
<1>1. OneAlive'
  BY DEF HostInv, HostTypes, LlamasKnown, OneAlive, OrphanExits, Gone, Reporting, Starting, Llama
<1> QED
  BY <1>1 DEF HostInv, HostTypes, LockHeld, Holder, LlamasKnown, ReceiptsWhole, OrphanExits, Llama, Reporting

\* Every step of a benchmark, or of a llama-cli, keeps the invariant.
LEMMA HostInvStays == HostInv /\ (HostNext \/ UNCHANGED hostVars) => HostInv'
<1>1. ASSUME HostInv, UNCHANGED hostVars PROVE HostInv'
  BY <1>1 DEF hostVars, HostInv, HostTypes, LockHeld, Holder, LlamasKnown, OneAlive, ReceiptsWhole, Llama, Reporting
<1> QED
  BY <1>1, AcquireLockKeeps, FindRunningKeeps, SpawnKeeps, ActivateKeeps, ExitsKeeps,
     CampaignTimesOutKeeps, ReapedKeeps, CreateTemporaryKeeps, WriteTemporaryKeeps, ReplaceReceiptKeeps,
     InterruptedKeeps, TerminatedKeeps, KilledKeeps, OrphanExitsKeeps DEF HostNext

\* The invariant says what a measurement rests on.
LEMMA AloneWhenMeasured == HostInv => MeasuredAlone
<1> SUFFICES ASSUME HostInv PROVE MeasuredAlone
  OBVIOUS
<1>1. \A l \in llamas : benchmarks[l.of].pc \notin {"done", "failed"} /\ l = Llama(l.of)
  BY DEF HostInv, LlamasKnown, Starting
<1>2. \A b \in temporaries :
        benchmarks[b].pc \in {"created", "written", "cut", "dead"} \/ b \notin Handling
  BY DEF HostInv, HostTypes, ReceiptsWhole, Reporting
<1> QED
  BY <1>1, <1>2 DEF HostInv, OneAlive, ReceiptsWhole, Starting, MeasuredAlone

-----------------------------------------------------------------------------
(* Benchmarks that start a server. *)

BenchSteps == {"start", "probed", "spawned", "waiting", "measuring", "giving up", "stopping", "stopped"}
                \cup Over
ServerStates == {"none", "starting", "bound", "exited"}
Answerer == Bench \cup {"refused"}

\* The types of the benches and their servers.
ServerTypes ==
  /\ apart \in BOOLEAN
  /\ benches \in [Bench -> [pc : BenchSteps, phases : Seq(Answerer)]]
  /\ servers \in [Bench -> ServerStates]

\* A bench in progress, and all who have answered it.
InProgress(b) == benches[b].pc \notin Over \cup {"start"}
AnsweredBy(b) == {benches[b].phases[i] : i \in DOMAIN benches[b].phases}

\* A bench starts its server once, asks it for answers only after that, and does not
\* end with it, unless it is killed.
ServerFits(b) ==
  /\ benches[b].pc \in {"start", "probed"} => servers[b] = "none"
  /\ benches[b].pc \in {"start", "probed", "spawned", "waiting"} => benches[b].phases = <<>>
  /\ benches[b].pc \in {"failed", "stopped", "done"} => servers[b] \in {"none", "exited"}

\* The port belongs to one server, and only benches that are killed leave theirs on it.
OnePort == \A b, c \in Bound : b = c

\* Benches that are kept apart are in progress one at a time.
OneBench == apart => \A b, c \in Bench : InProgress(b) /\ InProgress(c) => b = c

\* Answers of others' servers are those of benches that were killed.
AnswersOwn(b) ==
  /\ apart => \A d \in AnsweredBy(b) \ {b, "refused"} : benches[d].pc = "dead"
  /\ b \in AnsweredBy(b) => servers[b] \in {"bound", "exited"}
  /\ \A i, j \in DOMAIN benches[b].phases :
       i < j /\ benches[b].phases[i] = b /\ benches[b].phases[j] # b => servers[b] = "exited"

\* The invariant of the server benchmarks.
ServerInv ==
  ServerTypes /\ OnePort /\ OneBench /\ \A b \in Bench : ServerFits(b) /\ AnswersOwn(b)

\* Before the first bench no server is there.
LEMMA ServerInvStarts == ServerInit => ServerInv
  BY DEF ServerInit, ServerInv, ServerTypes, OnePort, OneBench, Bound, InProgress, ServerFits, AnswersOwn,
     AnsweredBy, BenchSteps, ServerStates, Over

\* A step of one bench: its answers stay, its own server may end, no other's changes.
LEMMA BenchMoves ==
  ASSUME ServerInv, NEW b \in Bench, ServerTypes', apart' = apart,
         \A c \in Bench \ {b} : benches'[c] = benches[c] /\ servers'[c] = servers[c],
         benches'[b].phases = benches[b].phases,
         servers'[b] = servers[b] \/ (servers[b] \notin {"bound", "exited"} /\ b \notin AnsweredBy(b))
                     \/ servers'[b] = "exited",
         servers'[b] = "bound" => Bound \subseteq {b},
         apart /\ InProgress(b)' => InProgress(b) \/ \A c \in Bench \ {b} : ~InProgress(c),
         benches[b].pc = "dead" => benches'[b].pc = "dead",
         ServerFits(b)'
  PROVE  ServerInv'
<1>1. OnePort'
  BY DEF ServerInv, ServerTypes, OnePort, Bound, ServerStates
<1>2. OneBench'
  BY DEF ServerInv, OneBench, InProgress
<1>3. \A c \in Bench : ServerFits(c)'
  BY DEF ServerInv, ServerFits
<1>4. ASSUME NEW c \in Bench PROVE AnswersOwn(c)'
  <2>1. benches'[c].phases = benches[c].phases /\ AnsweredBy(c)' = AnsweredBy(c)
    BY DEF AnsweredBy
  <2>2. \A d \in Bench : benches[d].pc = "dead" => benches'[d].pc = "dead"
    OBVIOUS
  <2>3. AnsweredBy(c) \subseteq Answerer
    BY DEF ServerInv, ServerTypes, AnsweredBy
  <2>4. AnswersOwn(c)
    BY DEF ServerInv
  <2>5. c \in AnsweredBy(c) => servers'[c] \in {"bound", "exited"}
    BY <2>4 DEF AnswersOwn
  <2>6. servers[c] = "exited" /\ c \in AnsweredBy(c) => servers'[c] = "exited"
    OBVIOUS
  <2>7. \A i \in DOMAIN benches[c].phases : benches[c].phases[i] = c => c \in AnsweredBy(c)
    BY DEF AnsweredBy
  <2>8. apart' => \A d \in AnsweredBy(c) \ {c, "refused"} : benches'[d].pc = "dead"
    BY <2>2, <2>3, <2>4 DEF AnswersOwn, Answerer
  <2> QED
    BY <2>1, <2>4, <2>5, <2>6, <2>7, <2>8 DEF AnswersOwn
<1> QED
  BY <1>1, <1>2, <1>3, <1>4 DEF ServerInv

\* A bench goes on only when the port is free.
LEMMA ProbePortKeeps ==
  ASSUME ServerInv, NEW b \in Bench, ProbePort(b)
  PROVE  ServerInv'
<1>1. /\ ServerTypes' /\ ServerFits(b)' /\ benches'[b].phases = benches[b].phases
      /\ \A c \in Bench \ {b} : benches'[c] = benches[c]
  BY DEF ServerInv, ServerTypes, ServerFits, ProbePort, Proceed, BenchSteps, ServerStates, Over
<1>2. apart => \A c \in Bench \ {b} : ~InProgress(c)
  BY DEF ProbePort, InProgress
<1>3. servers' = servers /\ apart' = apart /\ benches[b].pc = "start"
  BY DEF ProbePort
<1>4. servers[b] = "none"
  BY <1>3 DEF ServerInv, ServerFits
<1> QED
  BY <1>1, <1>2, <1>3, <1>4, BenchMoves

\* A server is started, but has no port yet.
LEMMA StartServerKeeps ==
  ASSUME ServerInv, NEW b \in Bench, StartServer(b)
  PROVE  ServerInv'
<1>1. /\ ServerTypes' /\ ServerFits(b)' /\ benches'[b].phases = benches[b].phases
      /\ \A c \in Bench \ {b} : benches'[c] = benches[c] /\ servers'[c] = servers[c]
      /\ servers'[b] = "starting" /\ apart' = apart /\ benches[b].pc = "probed"
  BY DEF ServerInv, ServerTypes, ServerFits, StartServer, Proceed, BenchSteps, ServerStates, Over
<1>2. servers[b] = "none" /\ b \notin AnsweredBy(b) /\ InProgress(b)
  BY <1>1 DEF ServerInv, ServerFits, AnsweredBy, InProgress, Over
<1> QED
  BY <1>1, <1>2, BenchMoves

\* One server at most gets the port.
LEMMA ListenKeeps ==
  ASSUME ServerInv, NEW b \in Bench, Listen(b)
  PROVE  ServerInv'
<1>1. /\ ServerTypes' /\ benches' = benches /\ apart' = apart
      /\ \A c \in Bench \ {b} : servers'[c] = servers[c]
      /\ servers[b] = "starting" /\ servers'[b] \in {"bound", "exited"}
      /\ (servers'[b] = "bound" => Bound = {})
  BY DEF ServerInv, ServerTypes, Listen, ServerStates
<1>2. b \notin AnsweredBy(b)
  BY <1>1 DEF ServerInv, AnswersOwn
<1>3. ServerFits(b)'
  BY <1>1 DEF ServerInv, ServerFits
<1>4. InProgress(b)' = InProgress(b)
  BY <1>1 DEF InProgress
<1> QED
  BY <1>1, <1>2, <1>3, <1>4, BenchMoves

\* A server that exits gives its port back.
LEMMA ServerExitsKeeps ==
  ASSUME ServerInv, NEW b \in Bench, ServerExits(b)
  PROVE  ServerInv'
<1>1. /\ ServerTypes' /\ benches' = benches /\ apart' = apart
      /\ \A c \in Bench \ {b} : servers'[c] = servers[c]
      /\ servers[b] \in {"starting", "bound"} /\ servers'[b] = "exited"
  BY DEF ServerInv, ServerTypes, ServerExits, ServerStates
<1>2. ServerFits(b)'
  BY <1>1 DEF ServerInv, ServerFits
<1>3. InProgress(b)' = InProgress(b)
  BY <1>1 DEF InProgress
<1> QED
  BY <1>1, <1>2, <1>3, BenchMoves

\* Steps of a bench in progress that leave the servers as they are, or stop its own.
LEMMA GoingOnKeeps ==
  ASSUME ServerInv, NEW b \in Bench,
         \/ EnterTry(b) \/ Ready(b) \/ NotReady(b) \/ LeaveTry(b) \/ StopServer(b)
         \/ WriteReports(b) \/ BenchInterrupted(b) \/ BenchKilled(b)
  PROVE  ServerInv'
<1>1. /\ ServerTypes' /\ ServerFits(b)' /\ apart' = apart
      /\ benches'[b].phases = benches[b].phases
      /\ \A c \in Bench \ {b} : benches'[c] = benches[c] /\ servers'[c] = servers[c]
      /\ servers'[b] = servers[b] \/ servers'[b] = "exited"
      /\ benches[b].pc # "dead"
      /\ InProgress(b)' => InProgress(b)
  <2>1. CASE Ready(b)
    BY <2>1 DEF ServerInv, ServerTypes, ServerFits, Ready, Proceed, InProgress, BenchSteps, ServerStates, Over
  <2>2. CASE NotReady(b)
    BY <2>2 DEF ServerInv, ServerTypes, ServerFits, NotReady, Proceed, InProgress, BenchSteps, ServerStates, Over
  <2>3. CASE StopServer(b)
    BY <2>3 DEF ServerInv, ServerTypes, ServerFits, StopServer, Proceed, InProgress, BenchSteps, ServerStates, Over
  <2>4. CASE WriteReports(b)
    BY <2>4 DEF ServerInv, ServerTypes, ServerFits, WriteReports, Proceed, InProgress, BenchSteps, ServerStates, Over
  <2>5. CASE BenchKilled(b)
    BY <2>5 DEF ServerInv, ServerTypes, ServerFits, BenchKilled, Proceed, InProgress, BenchSteps, ServerStates, Over
  <2>6. CASE EnterTry(b)
    BY <2>6 DEF ServerInv, ServerTypes, ServerFits, EnterTry, Proceed, InProgress, BenchSteps, ServerStates, Over
  <2>7. CASE LeaveTry(b)
    BY <2>7 DEF ServerInv, ServerTypes, ServerFits, LeaveTry, Proceed, InProgress, BenchSteps, ServerStates, Over
  <2>8. CASE BenchInterrupted(b)
    BY <2>8 DEF ServerInv, ServerTypes, ServerFits, BenchInterrupted, Proceed, InProgress, BenchSteps, ServerStates, Over
  <2> QED
    BY <2>1, <2>2, <2>3, <2>4, <2>5, <2>6, <2>7, <2>8
<1>2. servers'[b] = "bound" => Bound \subseteq {b}
  BY <1>1 DEF ServerInv, OnePort, Bound
<1> QED
  BY <1>1, <1>2, BenchMoves

\* Whoever answers has the port: the bench's own server, or one whose bench was killed.
LEMMA RunPhaseKeeps ==
  ASSUME ServerInv, NEW b \in Bench, RunPhase(b)
  PROVE  ServerInv'
<1> DEFINE old == benches[b].phases
           new == benches'[b].phases
<1>0. PICK answered \in IF Bound = {} THEN {"refused"} ELSE Bound :
        benches' = [benches EXCEPT ![b].phases = Append(@, answered)]
  BY DEF RunPhase
<1>1. /\ apart' = apart /\ servers' = servers /\ benches[b].pc = "measuring" /\ benches'[b].pc = "measuring"
      /\ \A c \in Bench \ {b} : benches'[c] = benches[c]
      /\ \A c \in Bench : benches'[c].pc = benches[c].pc
      /\ old \in Seq(Answerer) /\ new = Append(old, answered)
  BY <1>0 DEF ServerInv, ServerTypes, RunPhase
<1>2. answered \in Answerer
  BY <1>0 DEF Bound, Answerer
<1>3. ServerTypes'
  <2>1. Append(old, answered) \in Seq(Answerer)
    BY <1>1, <1>2, AppendProperties
  <2> QED
    BY <1>0, <1>1, <2>1 DEF ServerInv, ServerTypes
<1>4. OnePort' /\ OneBench'
  BY <1>1 DEF ServerInv, OnePort, OneBench, Bound, InProgress
<1>5. \A c \in Bench : ServerFits(c)'
  BY <1>1 DEF ServerInv, ServerFits
<1>6. answered = b => servers[b] = "bound"
  BY <1>0, ServerAssumption DEF Bound
<1>7. answered # b /\ servers[b] \in {"bound", "exited"} => servers[b] = "exited"
  BY <1>0 DEF ServerInv, OnePort, Bound
<1>8. apart => answered \in {b, "refused"} \/ benches[answered].pc = "dead"
  <2> SUFFICES ASSUME apart, answered \notin {b, "refused"} PROVE benches[answered].pc = "dead"
    OBVIOUS
  <2>1. answered \in Bench /\ servers[answered] = "bound"
    BY <1>0 DEF Bound
  <2>2. ~InProgress(answered)
    BY <1>1, <2>1 DEF ServerInv, OneBench, InProgress, Over
  <2> QED
    BY <2>1, <2>2 DEF ServerInv, ServerFits, InProgress, Over
<1>9. ASSUME NEW c \in Bench PROVE AnswersOwn(c)'
  <2>1. CASE c # b
    BY <1>1, <2>1 DEF ServerInv, AnswersOwn, AnsweredBy, Answerer, ServerTypes
  <2>2. CASE c = b
    <3>1. /\ DOMAIN new = 1 .. Len(old) + 1 /\ DOMAIN old = 1 .. Len(old) /\ Len(old) \in Nat
          /\ \A i \in 1 .. Len(old) : new[i] = old[i]
          /\ new[Len(old) + 1] = answered
      BY <1>1, <1>2, AppendProperties
    <3>2. AnsweredBy(b)' = AnsweredBy(b) \cup {answered}
      <4>1. AnsweredBy(b)' = {new[i] : i \in 1 .. Len(old) + 1}
        BY <3>1 DEF AnsweredBy
      <4>2. AnsweredBy(b) = {old[i] : i \in 1 .. Len(old)}
        BY <3>1 DEF AnsweredBy
      <4>3. 1 .. Len(old) + 1 = (1 .. Len(old)) \cup {Len(old) + 1}
        BY <3>1
      <4> HIDE DEF old, new
      <4> QED
        BY <3>1, <4>1, <4>2, <4>3
    <3>3. AnswersOwn(b)
      BY DEF ServerInv
    <3>4. AnsweredBy(b) \subseteq Answerer
      BY DEF ServerInv, ServerTypes, AnsweredBy
    <3>5. apart' => \A d \in AnsweredBy(b)' \ {b, "refused"} : benches'[d].pc = "dead"
      BY <1>1, <1>2, <1>8, <3>2, <3>3, <3>4 DEF AnswersOwn, Answerer
    <3>6. b \in AnsweredBy(b)' => servers[b] \in {"bound", "exited"}
      BY <1>6, <3>2, <3>3 DEF AnswersOwn
    <3>7. ASSUME NEW i \in DOMAIN new, NEW j \in DOMAIN new, i < j, new[i] = b, new[j] # b
          PROVE  servers[b] = "exited"
      <4>1. i \in 1 .. Len(old) /\ b \in AnsweredBy(b)
        BY <3>1, <3>7 DEF AnsweredBy
      <4>2. CASE j \in 1 .. Len(old)
        BY <3>1, <3>3, <3>7, <4>1, <4>2 DEF AnswersOwn
      <4>3. CASE j = Len(old) + 1
        BY <1>7, <3>1, <3>3, <3>7, <4>1, <4>3 DEF AnswersOwn
      <4> QED
        BY <3>1, <4>2, <4>3
    <3> QED
      BY <1>1, <2>2, <3>5, <3>6, <3>7 DEF AnswersOwn
  <2> QED
    BY <2>1, <2>2
<1> QED
  BY <1>3, <1>4, <1>5, <1>9 DEF ServerInv

\* Every step of a bench, or of a server, keeps the invariant.
LEMMA ServerInvStays == ServerInv /\ (ServerNext \/ UNCHANGED serverVars) => ServerInv'
<1>1. ASSUME ServerInv, UNCHANGED serverVars PROVE ServerInv'
  BY <1>1 DEF serverVars, ServerInv, ServerTypes, OnePort, OneBench, Bound, InProgress, ServerFits,
     AnswersOwn, AnsweredBy
<1> QED
  BY <1>1, ProbePortKeeps, StartServerKeeps, ListenKeeps, ServerExitsKeeps, GoingOnKeeps, RunPhaseKeeps
  DEF ServerNext

\* The invariant says who answered.
LEMMA AnsweredByOwn == ServerInv => ServersOwn
<1> SUFFICES ASSUME ServerInv, NEW b \in Bench
             PROVE  /\ apart => \A d \in ToSet(benches[b].phases) \ {b, "refused"} : benches[d].pc = "dead"
                    /\ \A i, j \in DOMAIN benches[b].phases :
                         i < j /\ benches[b].phases[i] = b /\ benches[b].phases[j] # b
                           => servers[b] = "exited"
                    /\ benches[b].pc \in {"done", "failed"} => servers[b] \in {"none", "exited"}
  BY DEF ServersOwn
<1>1. ToSet(benches[b].phases) = AnsweredBy(b)
  BY DEF ToSet, AnsweredBy
<1> QED
  BY <1>1 DEF ServerInv, AnswersOwn, ServerFits

-----------------------------------------------------------------------------
(* Jobs one after the other. *)

JobSteps == {"start", "waiting", "clear", "refused", "spawned", "supervising", "terminating",
             "killing", "report", "done", "dead"}
JobStatuses == {"running", "passed", "failed", "timed_out_and_reaped", "timed_out_outcome_unknown"}
Named == {"passed", "failed", "timed_out_and_reaped"}

\* The types of the serial jobs, their commands and their receipts.
JobTypes ==
  /\ kinds \in [Job -> {"listed", "script", "other"}]
  /\ inTurn \in BOOLEAN
  /\ jobs \in [Job -> [pc : JobSteps, status : JobStatuses]]
  /\ children \in [Job -> {"none", "running", "ended", "reaped"}]
  /\ receipts \in [Job -> {"none"} \cup JobStatuses]

\* What the command and the receipt of a job have come to at each of its steps.
JobFits(j) ==
  /\ jobs[j].pc \in {"start", "waiting", "clear", "refused"} =>
       children[j] = "none" /\ receipts[j] = "none"
  /\ jobs[j].pc = "spawned" => children[j] \in {"running", "ended"} /\ receipts[j] = "none"
  /\ jobs[j].pc \in {"supervising", "terminating", "killing"} =>
       children[j] \in {"running", "ended"} /\ receipts[j] = "running"
  /\ jobs[j].pc = "report" => receipts[j] = "running"
  /\ jobs[j].pc = "done" => receipts[j] = jobs[j].status
  /\ jobs[j].pc = "dead" => receipts[j] \in {"none", "running"}
  /\ jobs[j].pc \in {"report", "done"} =>
       jobs[j].status # "running" /\ (jobs[j].status \in Named => children[j] = "reaped")

\* Jobs that look in turn: one that has found the machine idle is the only one, and
\* it still is.
TurnsTaken ==
  inTurn => \A j, k \in Job :
    /\ jobs[j].pc = "clear" => k \notin Workloads /\ (jobs[k].pc = "clear" => j = k)
    /\ j \in Workloads /\ k \in Workloads => j = k

\* A job of a listed script that has found the machine idle is seen by every other
\* until it ends, and so is its command: there is one such job at most.
Begun(j) ==
  /\ kinds[j] = "script"
  /\ jobs[j].pc \notin JobOver \cup {"start", "waiting"} \/ children[j] = "running"

ScriptsApart == \A j, k \in Job : Begun(j) /\ Begun(k) => j = k

\* The invariant of the serial jobs.
JobInv == JobTypes /\ (\A j \in Job : JobFits(j)) /\ TurnsTaken /\ ScriptsApart

\* From the initial states on.
LEMMA JobInvStarts == JobInit => JobInv
  BY DEF JobInit, JobInv, JobTypes, JobFits, TurnsTaken, Workloads, ScriptsApart, Begun, JobOver,
     JobSteps, JobStatuses

\* Looking changes the job's step alone; it is clear only if it saw no other, and with
\* inTurn only when no other is.
LEMMA LookKeeps ==
  ASSUME JobInv, NEW j \in Job, LookForWorkloads(j)
  PROVE  JobInv'
<1>1. /\ JobTypes' /\ kinds' = kinds /\ inTurn' = inTurn /\ children' = children
      /\ receipts' = receipts
  BY DEF JobInv, JobTypes, LookForWorkloads, Step, JobSteps
<1>2. \A k \in Job \ {j} : jobs'[k] = jobs[k]
  BY DEF JobInv, JobTypes, LookForWorkloads, Step
<1>3. \A k \in Job : JobFits(k)'
  BY <1>1, <1>2 DEF JobInv, JobTypes, JobFits, LookForWorkloads, Step
<1>4. /\ jobs'[j].pc \in {"clear", "waiting", "refused"} /\ children[j] = "none"
      /\ jobs'[j].pc = "clear" => Active(j) = {}
  BY DEF JobInv, JobTypes, JobFits, LookForWorkloads, Step
<1>5. Workloads' = Workloads
  BY <1>1 DEF Workloads
<1>6. jobs'[j].pc = "clear" =>
        /\ \A k \in Workloads : k = j
        /\ \A k \in Job \ {j} : ~Begun(k)
  BY <1>4 DEF Active, Workloads, Scripts, Invoked, Begun, JobOver
<1>7. TurnsTaken'
  BY <1>1, <1>2, <1>4, <1>5, <1>6 DEF JobInv, TurnsTaken, Workloads, LookForWorkloads
<1>8. ScriptsApart'
  BY <1>1, <1>2, <1>4, <1>6 DEF JobInv, ScriptsApart, Begun, JobOver
<1> QED
  BY <1>1, <1>3, <1>7, <1>8 DEF JobInv

\* A job spawns its command only from where it had found the machine idle.
LEMMA SpawnCommandKeeps ==
  ASSUME JobInv, NEW j \in Job, SpawnCommand(j)
  PROVE  JobInv'
<1>1. JobTypes' /\ kinds' = kinds /\ inTurn' = inTurn /\ receipts' = receipts
  BY DEF JobInv, JobTypes, SpawnCommand, Step, JobSteps
<1>2. \A k \in Job \ {j} : jobs'[k] = jobs[k] /\ children'[k] = children[k]
  BY DEF JobInv, JobTypes, SpawnCommand, Step
<1>3. \A k \in Job : JobFits(k)'
  BY <1>1, <1>2 DEF JobInv, JobTypes, JobFits, SpawnCommand, Step
<1>4. jobs[j].pc = "clear" /\ jobs'[j].pc = "spawned"
  BY DEF JobInv, JobTypes, SpawnCommand, Step
<1>5. Workloads' \subseteq Workloads \cup {j}
  BY <1>1, <1>2 DEF Workloads
<1>6. TurnsTaken'
  BY <1>1, <1>2, <1>4, <1>5 DEF JobInv, TurnsTaken
<1>7. \A k \in Job : Begun(k)' => Begun(k)
  BY <1>1, <1>2, <1>4 DEF Begun, JobOver
<1>8. ScriptsApart'
  BY <1>7 DEF JobInv, ScriptsApart
<1> QED
  BY <1>1, <1>3, <1>6, <1>8 DEF JobInv

\* The other steps start no command and find nothing idle: a job moves on, or a
\* command ends.
LEMMA OthersKeep ==
  ASSUME JobInv, NEW j \in Job,
         \/ WriteRunning(j) \/ CommandEnds(j) \/ Wait(j)
         \/ TimeIsUp(j) \/ WriteOutcome(j) \/ JobDies(j)
  PROVE  JobInv'
<1>1. /\ JobTypes' /\ kinds' = kinds /\ inTurn' = inTurn
      /\ \A k \in Job \ {j} : jobs'[k] = jobs[k] /\ children'[k] = children[k] /\ receipts'[k] = receipts[k]
      /\ JobFits(j)'
      /\ (jobs'[j].pc = "clear" => jobs[j].pc = "clear")
      /\ (jobs[j].pc \in JobOver \cup {"start", "waiting"} => jobs'[j].pc \in JobOver \cup {"start", "waiting"})
      /\ (children'[j] = "running" => children[j] = "running")
  <2>1. CASE WriteRunning(j)
    BY <2>1 DEF JobInv, JobTypes, JobFits, JobOver, WriteRunning, Step, JobSteps, JobStatuses
  <2>2. CASE CommandEnds(j)
    BY <2>2 DEF JobInv, JobTypes, JobFits, JobOver, CommandEnds, JobSteps, JobStatuses, Named
  <2>3. CASE Wait(j)
    BY <2>3 DEF JobInv, JobTypes, JobFits, JobOver, Wait, Outcome, JobSteps, JobStatuses, Named
  <2>4. CASE TimeIsUp(j)
    <3>1. \/ jobs[j].pc = "supervising" /\ Step(j, "terminating") /\ UNCHANGED children
          \/ jobs[j].pc = "terminating" /\ Step(j, "killing") /\ UNCHANGED children
          \/ /\ jobs[j].pc = "killing" /\ children[j] = "ended"
             /\ children' = [children EXCEPT ![j] = "reaped"]
             /\ Outcome(j, "timed_out_and_reaped")
          \/ jobs[j].pc = "killing" /\ Outcome(j, "timed_out_outcome_unknown") /\ UNCHANGED children
      BY <2>4 DEF TimeIsUp
    <3>2. UNCHANGED <<kinds, inTurn, receipts>>
      BY <2>4 DEF TimeIsUp
    <3>3. CASE Step(j, "terminating") \/ Step(j, "killing")
      BY <3>1, <3>2, <3>3 DEF JobInv, JobTypes, JobFits, JobOver, Step, Outcome, JobSteps, JobStatuses
    <3>4. CASE /\ jobs[j].pc = "killing" /\ children[j] = "ended"
               /\ children' = [children EXCEPT ![j] = "reaped"]
               /\ Outcome(j, "timed_out_and_reaped")
      <4>1. /\ jobs' \in [Job -> [pc : JobSteps, status : JobStatuses]]
            /\ jobs'[j].pc = "report" /\ jobs'[j].status = "timed_out_and_reaped"
            /\ \A k \in Job \ {j} : jobs'[k] = jobs[k]
        BY <3>4 DEF JobInv, JobTypes, Outcome, JobSteps, JobStatuses
      <4>2. JobTypes'
        BY <3>2, <3>4, <4>1 DEF JobInv, JobTypes
      <4>3. JobFits(j)'
        BY <3>2, <3>4, <4>1 DEF JobInv, JobTypes, JobFits, Named
      <4> QED
        BY <3>2, <3>4, <4>1, <4>2, <4>3 DEF JobInv, JobTypes, JobOver
    <3>5. CASE /\ jobs[j].pc = "killing" /\ Outcome(j, "timed_out_outcome_unknown")
               /\ UNCHANGED children
      <4>1. /\ jobs' \in [Job -> [pc : JobSteps, status : JobStatuses]]
            /\ jobs'[j].pc = "report" /\ jobs'[j].status = "timed_out_outcome_unknown"
            /\ \A k \in Job \ {j} : jobs'[k] = jobs[k]
        BY <3>5 DEF JobInv, JobTypes, Outcome, JobSteps, JobStatuses
      <4>2. JobTypes'
        BY <3>2, <3>5, <4>1 DEF JobInv, JobTypes
      <4>3. JobFits(j)'
        BY <3>2, <3>5, <4>1 DEF JobInv, JobTypes, JobFits, Named
      <4> QED
        BY <3>2, <3>5, <4>1, <4>2, <4>3 DEF JobInv, JobTypes, JobOver
    <3> QED
      BY <3>1, <3>3, <3>4, <3>5
  <2>5. CASE WriteOutcome(j)
    BY <2>5 DEF JobInv, JobTypes, JobFits, JobOver, WriteOutcome, Step, JobSteps, JobStatuses, Named
  <2>6. CASE JobDies(j)
    BY <2>6 DEF JobInv, JobTypes, JobFits, JobDies, JobOver, Step, JobSteps, JobStatuses
  <2> QED
    BY <2>1, <2>2, <2>3, <2>4, <2>5, <2>6
<1>2. \A k \in Job : JobFits(k)'
  BY <1>1 DEF JobInv, JobFits
<1>3. Workloads' \subseteq Workloads /\ \A k \in Job : Begun(k)' => Begun(k)
  BY <1>1 DEF Workloads, Begun
<1>4. TurnsTaken'
  BY <1>1, <1>3 DEF JobInv, TurnsTaken
<1>5. ScriptsApart'
  BY <1>3 DEF JobInv, ScriptsApart
<1> QED
  BY <1>1, <1>2, <1>4, <1>5 DEF JobInv

\* Every step of a job, or of a command, keeps the invariant.
LEMMA JobInvStays == JobInv /\ (JobNext \/ UNCHANGED jobVars) => JobInv'
<1>1. ASSUME JobInv, UNCHANGED jobVars PROVE JobInv'
  BY <1>1 DEF jobVars, JobInv, JobTypes, JobFits, TurnsTaken, Workloads, ScriptsApart, Begun
<1> QED
  BY <1>1, LookKeeps, SpawnCommandKeeps, OthersKeep DEF JobNext

\* A set of jobs that are all the same one has one element at most.
LEMMA OneAtMost ==
  ASSUME NEW S \in SUBSET Job, \A j, k \in S : j = k
  PROVE  Cardinality(S) <= 1
<1>1. CASE S = {}
  BY <1>1, FS_EmptySet
<1>2. CASE S # {}
  <2>1. PICK j \in S : S = {j}
    BY <1>2
  <2> QED
    BY <2>1, FS_Singleton
<1> QED
  BY <1>1, <1>2

\* The receipts are those of the invariant; two running workloads would be one.
LEMMA JobsAreSerial == JobInv => JobsSerial
<1> SUFFICES ASSUME JobInv PROVE JobsSerial
  OBVIOUS
<1>0. Workloads \subseteq Job
  BY DEF Workloads
<1>1. inTurn => /\ Cardinality(Workloads) <= 1
                /\ (\E j \in Job : jobs[j].pc = "clear") => Workloads = {}
  BY <1>0, OneAtMost DEF JobInv, TurnsTaken
<1>5. Cardinality({j \in Workloads : kinds[j] = "script"}) <= 1
  <2>1. \A j, k \in {i \in Workloads : kinds[i] = "script"} : j = k
    BY <1>0 DEF JobInv, ScriptsApart, Begun, Workloads
  <2> QED
    BY <1>0, <2>1, OneAtMost
<1>2. \A j \in Job : receipts[j] \in Named => children[j] = "reaped"
  BY DEF JobInv, JobTypes, JobFits, JobSteps, JobStatuses, Named
<1>3. \A j \in Job : receipts[j] = "running" => jobs[j].pc \notin {"done", "refused"}
  BY DEF JobInv, JobTypes, JobFits, JobSteps, JobStatuses, Named
<1>4. \A j \in Job : /\ jobs[j].pc = "done" => receipts[j] = jobs[j].status /\ receipts[j] # "running"
                     /\ jobs[j].pc = "refused" => children[j] = "none" /\ receipts[j] = "none"
  BY DEF JobInv, JobFits
<1> QED
  BY <1>1, <1>2, <1>3, <1>4, <1>5 DEF JobsSerial, Named

-----------------------------------------------------------------------------
(* The benchmark suite. *)

RunSteps == {"start", "spawn", "waiting", "read", "combine", "done", "failed", "dead"}
WorkerSteps == {"none", "measuring", "warmup", "report", "result", "ended", "crashed"}

RunRecord == [isolate : BOOLEAN, order : Order, pc : RunSteps, results : Seq(Run)]
WorkerRecord == [pc : WorkerSteps, passed : BOOLEAN, digest : Digests \cup {"none"}]

\* The types of the runs, their workers and the files they share.
ReportTypes ==
  /\ overlap \in BOOLEAN /\ sealed \in BOOLEAN
  /\ runs \in [Run -> RunRecord]
  /\ workers \in [Run -> [Candidate -> WorkerRecord]]
  /\ files \in [Candidate -> [File -> {0} \cup Run]]
  /\ top \in [of : {0} \cup Run, results : SUBSET Run, reports : SUBSET Run, exit : {0, 1}]

\* The results a run has read, and whether it still asks for more.
Read(r) == Len(runs[r].results)
Asking(r) == runs[r].pc \in {"spawn", "waiting", "read"}

\* A run reads two results and no more.
RunFits(r) ==
  /\ runs[r].pc = "start" => runs[r].results = <<>>
  /\ Read(r) <= 2 /\ (Asking(r) => Read(r) < 2)
  /\ runs[r].pc \in {"combine", "done"} => Read(r) = 2
  /\ runs[r].pc \in {"spawn", "waiting"} => runs[r].isolate
  /\ runs[r].pc = "read" => ~runs[r].isolate

\* The i-th worker of a run is spawned when the run has the i - 1 results before it,
\* and then only.
Unspawned(r, i) ==
  \/ runs[r].pc = "start" \/ ~runs[r].isolate
  \/ runs[r].pc = "spawn" /\ Read(r) < i
  \/ runs[r].pc = "waiting" /\ Read(r) + 1 < i

SpawnedOnce(r) ==
  \A i \in 1 .. 2 : Unspawned(r, i) => workers[r][runs[r].order[i]].pc = "none"

\* A result is of a worker that has got to its end.
ResultsEnded ==
  /\ \A c \in Candidate : files[c]["result"] # 0 => workers[files[c]["result"]][c].pc = "ended"
  /\ \A r \in Run : \A i \in DOMAIN runs[r].results :
       workers[runs[r].results[i]][runs[r].order[i]].pc = "ended"

\* Runs that do not overlap are at work one at a time.
OneAtWork == ~overlap => \A q, r \in Run : AtWork(q) /\ AtWork(r) => q = r

\* What the worker of the run has written so far is what lies in the directory.
OwnFiles(r, c) ==
  /\ workers[r][c].pc \in {"report", "result", "ended"} => files[c]["warmup"] = r
  /\ workers[r][c].pc \in {"result", "ended"} => files[c]["report"] = r
  /\ workers[r][c].pc = "ended" => files[c]["result"] = r

\* An isolated run that nothing overlapped has read its own workers' results, and all
\* that they wrote is still there.
ReadsOwn(r) ==
  ~overlap /\ runs[r].isolate /\ runs[r].pc \in {"spawn", "waiting", "combine"} =>
    /\ \A c \in Candidate : OwnFiles(r, c)
    /\ \A i \in DOMAIN runs[r].results :
         runs[r].results[i] = r /\ workers[r][runs[r].order[i]].pc = "ended"

\* The top-level result is what its run combined.
TopFits ==
  top.of # 0 =>
    /\ runs[top.of].pc = "done"
    /\ runs[top.of].isolate /\ ~overlap => top.results = {top.of} /\ top.reports = {top.of}
    /\ top.exit = 0 =>
         \A i \in 1 .. 2 : workers[runs[top.of].results[i]][runs[top.of].order[i]].passed

\* The invariant of the benchmark suite.
ReportInv ==
  /\ ReportTypes /\ ResultsEnded /\ OneAtWork /\ TopFits
  /\ \A r \in Run : RunFits(r) /\ SpawnedOnce(r) /\ ReadsOwn(r)

\* The order names both candidates.
LEMMA OrderIs ==
  \A order \in Order : /\ order[1] \in Candidate /\ order[2] \in Candidate /\ order[1] # order[2]
                       /\ \A c \in Candidate : c = order[1] \/ c = order[2]
  BY DEF Order, Candidate

\* What the records of runs and workers are.
LEMMA RecordsAre ==
  ASSUME ReportTypes
  PROVE  /\ \A r \in Run : /\ runs[r].isolate \in BOOLEAN /\ runs[r].order \in Order
                           /\ runs[r].pc \in RunSteps /\ runs[r].results \in Seq(Run)
         /\ \A r \in Run, c \in Candidate : /\ workers[r][c].pc \in WorkerSteps
                                            /\ workers[r][c].passed \in BOOLEAN
  BY DEF ReportTypes, RunRecord, WorkerRecord

\* A run that asks knows which worker it wants.
LEMMA WantedIs ==
  ASSUME ReportTypes, NEW r \in Run, RunFits(r), Asking(r)
  PROVE  /\ Read(r) \in Nat /\ Read(r) + 1 \in 1 .. 2 /\ Wanted(r) = runs[r].order[Read(r) + 1]
         /\ runs[r].order \in Order /\ Wanted(r) \in Candidate
<1>1. runs[r].results \in Seq(Run) /\ runs[r].order \in Order
  BY RecordsAre
<1>2. Read(r) \in Nat /\ Read(r) < 2
  BY <1>1, LenProperties DEF Read, RunFits
<1>3. Read(r) + 1 = 1 \/ Read(r) + 1 = 2
  BY <1>2
<1> QED
  BY <1>1, <1>2, <1>3, OrderIs DEF Wanted, Read

\* What a step of a run to another pc leaves of its record.
LEMMA RunGoesTo ==
  ASSUME runs \in [Run -> RunRecord], NEW r \in Run, NEW pc \in RunSteps,
         runs' = [runs EXCEPT ![r].pc = pc]
  PROVE  /\ runs' \in [Run -> RunRecord] /\ \A q \in Run \ {r} : runs'[q] = runs[q]
         /\ runs'[r].pc = pc /\ runs'[r].isolate = runs[r].isolate
         /\ runs'[r].order = runs[r].order /\ runs'[r].results = runs[r].results
         /\ Read(r)' = Read(r)
  BY DEF RunRecord, Read

\* The same of a worker.
LEMMA WorkerGoesTo ==
  ASSUME workers \in [Run -> [Candidate -> WorkerRecord]], NEW r \in Run, NEW c \in Candidate,
         NEW pc \in WorkerSteps, workers' = [workers EXCEPT ![r][c].pc = pc]
  PROVE  /\ workers' \in [Run -> [Candidate -> WorkerRecord]]
         /\ \A q \in Run, d \in Candidate : q # r \/ d # c => workers'[q][d] = workers[q][d]
         /\ workers'[r][c].pc = pc /\ workers'[r][c].passed = workers[r][c].passed
<1> DEFINE new == [workers[r][c] EXCEPT !.pc = pc]
<1>1. workers[r][c] \in WorkerRecord /\ workers[r] \in [Candidate -> WorkerRecord]
  OBVIOUS
<1>2. new \in WorkerRecord /\ new.pc = pc /\ new.passed = workers[r][c].passed
  BY <1>1 DEF WorkerRecord
<1>3. workers' = [workers EXCEPT ![r] = [workers[r] EXCEPT ![c] = new]]
  OBVIOUS
<1> HIDE DEF new
<1> QED
  BY <1>1, <1>2, <1>3

\* Before the first run there are no workers and no files.
LEMMA ReportInvStarts == ReportInit => ReportInv
<1> SUFFICES ASSUME ReportInit PROVE ReportInv
  OBVIOUS
<1>1. PICK isolated \in SUBSET Run, order \in Order :
        runs = [r \in Run |-> [isolate |-> r \in isolated, order |-> order,
                               pc |-> "start", results |-> <<>>]]
  BY DEF ReportInit
<1>2. ReportTypes
  <2>1. runs \in [Run -> RunRecord]
    BY <1>1 DEF RunSteps, RunRecord
  <2>2. workers \in [Run -> [Candidate -> WorkerRecord]]
    BY DEF ReportInit, NewWorker, WorkerSteps, WorkerRecord
  <2>3. overlap \in BOOLEAN /\ sealed \in BOOLEAN /\ files \in [Candidate -> [File -> {0} \cup Run]]
    BY DEF ReportInit
  <2>4. top \in [of : {0} \cup Run, results : SUBSET Run, reports : SUBSET Run, exit : {0, 1}]
    BY DEF ReportInit
  <2> QED
    BY <2>1, <2>2, <2>3, <2>4 DEF ReportTypes
<1>3. \A r \in Run, c \in Candidate : workers[r][c].pc = "none"
  BY DEF ReportInit, NewWorker
<1>4. ASSUME NEW r \in Run PROVE RunFits(r) /\ SpawnedOnce(r) /\ ReadsOwn(r)
  <2>1. runs[r].pc = "start" /\ runs[r].results = <<>> /\ Read(r) = 0 /\ runs[r].order \in Order
    BY <1>1 DEF Read
  <2>2. \A i \in 1 .. 2 : runs[r].order[i] \in Candidate
    BY <2>1, OrderIs
  <2> QED
    BY <1>3, <2>1, <2>2 DEF RunFits, SpawnedOnce, ReadsOwn, Asking
<1>5. ResultsEnded /\ OneAtWork /\ TopFits
  <2>1. \A c \in Candidate : files[c]["result"] = 0
    BY DEF ReportInit, File
  <2>2. \A r \in Run : DOMAIN runs[r].results = {} /\ ~AtWork(r)
    BY <1>1, <1>3 DEF AtWork
  <2> QED
    BY <2>1, <2>2 DEF ResultsEnded, OneAtWork, TopFits, ReportInit
<1> QED
  BY <1>2, <1>4, <1>5 DEF ReportInv

\* A step of one run that leaves the workers and their files alone.
LEMMA RunMoves ==
  ASSUME ReportInv, NEW r \in Run, ReportTypes', UNCHANGED <<overlap, workers, files>>,
         \A q \in Run \ {r} : runs'[q] = runs[q],
         runs'[r].isolate = runs[r].isolate /\ runs'[r].order = runs[r].order,
         RunFits(r)', SpawnedOnce(r)', ReadsOwn(r)', TopFits',
         \A i \in DOMAIN runs'[r].results : workers[runs'[r].results[i]][runs[r].order[i]].pc = "ended",
         ~overlap /\ AtWork(r)' => AtWork(r) \/ \A q \in Run : ~AtWork(q)
  PROVE  ReportInv'
<1>1. ASSUME NEW q \in Run \ {r} PROVE RunFits(q)' /\ SpawnedOnce(q)' /\ ReadsOwn(q)' /\ AtWork(q)' = AtWork(q)
  <2>1. RunFits(q) /\ SpawnedOnce(q) /\ ReadsOwn(q) /\ runs'[q] = runs[q]
    BY DEF ReportInv
  <2> QED
    BY <2>1 DEF RunFits, SpawnedOnce, Unspawned, ReadsOwn, OwnFiles, AtWork, Asking, Read
<1>2. OneAtWork'
  BY <1>1 DEF ReportInv, OneAtWork
<1>3. ResultsEnded'
  BY DEF ReportInv, ResultsEnded
<1> QED
  BY <1>1, <1>2, <1>3 DEF ReportInv

\* A step of one worker that is at work, and of the files of its candidate.
LEMMA WorkerMoves ==
  ASSUME ReportInv, NEW r \in Run, NEW c \in Candidate, ReportTypes', UNCHANGED <<overlap, runs, top>>,
         workers[r][c].pc \notin {"none", "ended", "crashed"}, workers'[r][c].pc # "none",
         \A q \in Run, d \in Candidate : q # r \/ d # c => workers'[q][d] = workers[q][d],
         \A d \in Candidate \ {c} : files'[d] = files[d],
         \/ files'[c]["result"] \in {files[c]["result"], 0}
         \/ files'[c]["result"] = r /\ workers'[r][c].pc = "ended",
         ~overlap /\ OwnFiles(r, c) => OwnFiles(r, c)'
  PROVE  ReportInv'
<1>1. \A q \in Run, d \in Candidate : workers[q][d].pc \in {"none", "ended"} =>
        workers'[q][d] = workers[q][d]
  OBVIOUS
<1>2. \A q \in Run : runs[q].order \in Order /\ runs[q].results \in Seq(Run)
  BY RecordsAre DEF ReportInv
<1>3. \A q \in Run : AtWork(q)' => AtWork(q)
  BY DEF AtWork
<1>4. OneAtWork'
  BY <1>3 DEF ReportInv, OneAtWork
<1>5. ResultsEnded'
  <2>2. \A d \in Candidate : files[d]["result"] \in {0} \cup Run
    BY DEF ReportInv, ReportTypes, File
  <2>3. \A d \in Candidate : files'[d]["result"] # 0 => workers'[files'[d]["result"]][d].pc = "ended"
    <3> SUFFICES ASSUME NEW d \in Candidate, files'[d]["result"] # 0
                 PROVE  workers'[files'[d]["result"]][d].pc = "ended"
      OBVIOUS
    <3>1. CASE files'[d]["result"] = files[d]["result"]
      BY <1>1, <2>2, <3>1 DEF ReportInv, ResultsEnded
    <3>2. CASE files'[d]["result"] # files[d]["result"]
      BY <3>2
    <3> QED
      BY <3>1, <3>2
  <2>4. \A q \in Run : \A i \in DOMAIN runs[q].results :
          workers'[runs[q].results[i]][runs[q].order[i]].pc = "ended"
    <3> SUFFICES ASSUME NEW q \in Run, NEW i \in DOMAIN runs[q].results
                 PROVE  workers'[runs[q].results[i]][runs[q].order[i]].pc = "ended"
      OBVIOUS
    <3>1. runs[q].results[i] \in Run
      BY <1>2
    <3>2. runs[q].order[i] \in Candidate
      <4>1. Len(runs[q].results) \in Nat /\ DOMAIN runs[q].results = 1 .. Len(runs[q].results)
        BY <1>2, LenProperties
      <4>2. i = 1 \/ i = 2
        BY <4>1 DEF ReportInv, RunFits, Read
      <4> QED
        BY <1>2, <4>2, OrderIs
    <3> QED
      BY <1>1, <3>1, <3>2 DEF ReportInv, ResultsEnded
  <2> QED
    BY <2>3, <2>4 DEF ResultsEnded
<1>6. \A q \in Run : \A i \in 1 .. 2 : runs[q].order[i] \in Candidate
  BY <1>2, OrderIs
<1>7. ASSUME NEW q \in Run PROVE RunFits(q)' /\ SpawnedOnce(q)'
  <2>1. RunFits(q) /\ SpawnedOnce(q)
    BY DEF ReportInv
  <2> QED
    BY <1>1, <1>6, <2>1 DEF RunFits, SpawnedOnce, Unspawned, Asking, Read
<1>8. ASSUME NEW q \in Run PROVE ReadsOwn(q)'
  <2> SUFFICES ASSUME ~overlap, runs[q].isolate, runs[q].pc \in {"spawn", "waiting", "combine"}
               PROVE  /\ \A d \in Candidate : OwnFiles(q, d)'
                      /\ \A i \in DOMAIN runs[q].results :
                           runs[q].results[i] = q /\ workers'[q][runs[q].order[i]].pc = "ended"
    BY DEF ReadsOwn
  <2>1. q = r
    BY DEF ReportInv, OneAtWork, AtWork
  <2>2. /\ \A d \in Candidate : OwnFiles(r, d)
        /\ \A i \in DOMAIN runs[r].results :
             runs[r].results[i] = r /\ workers[r][runs[r].order[i]].pc = "ended"
    BY <2>1 DEF ReportInv, ReadsOwn
  <2>3. \A d \in Candidate : OwnFiles(r, d)'
    BY <2>2 DEF OwnFiles
  <2>4. \A i \in DOMAIN runs[r].results : runs[r].order[i] \in Candidate
    <3>1. Len(runs[r].results) \in Nat /\ DOMAIN runs[r].results = 1 .. Len(runs[r].results)
      BY <1>2, LenProperties
    <3>2. \A i \in DOMAIN runs[r].results : i \in 1 .. 2
      BY <3>1 DEF ReportInv, RunFits, Read
    <3> QED
      BY <1>6, <3>2
  <2> QED
    BY <1>1, <2>1, <2>2, <2>3, <2>4
<1>9. TopFits'
  <2> SUFFICES ASSUME top.of # 0, top.exit = 0, NEW i \in 1 .. 2
               PROVE  workers'[runs[top.of].results[i]][runs[top.of].order[i]].passed
    BY DEF ReportInv, TopFits
  <2>1. top.of \in Run /\ runs[top.of].pc = "done"
    BY DEF ReportInv, ReportTypes, TopFits
  <2>2. i \in DOMAIN runs[top.of].results /\ runs[top.of].results[i] \in Run
    BY <1>2, <2>1, LenProperties DEF ReportInv, RunFits, Read
  <2>3. workers[runs[top.of].results[i]][runs[top.of].order[i]].pc = "ended"
    BY <2>1, <2>2 DEF ReportInv, ResultsEnded
  <2> QED
    <3>1. workers[runs[top.of].results[i]][runs[top.of].order[i]].passed
      BY DEF ReportInv, TopFits
    <3>2. runs[top.of].order[i] \in Candidate
      BY <1>6, <2>1
    <3>3. workers'[runs[top.of].results[i]][runs[top.of].order[i]]
            = workers[runs[top.of].results[i]][runs[top.of].order[i]]
      BY <1>1, <2>2, <2>3, <3>2
    <3> QED
      BY <3>1, <3>3
<1> QED
  BY <1>4, <1>5, <1>7, <1>8, <1>9 DEF ReportInv

\* A run that fails or is killed leaves everything to the others.
LEMMA GivesUpKeeps ==
  ASSUME ReportInv, NEW r \in Run, runs[r].pc \notin {"start", "done"}, NEW pc \in {"failed", "dead"},
         runs' = [runs EXCEPT ![r].pc = pc], UNCHANGED <<overlap, workers, files, sealed, top>>
  PROVE  ReportInv'
<1>1. ReportTypes /\ RunFits(r) /\ SpawnedOnce(r) /\ ResultsEnded /\ TopFits
  BY DEF ReportInv
<1>2. /\ runs' \in [Run -> RunRecord] /\ \A q \in Run \ {r} : runs'[q] = runs[q]
      /\ runs'[r].pc = pc /\ runs'[r].isolate = runs[r].isolate
      /\ runs'[r].order = runs[r].order /\ runs'[r].results = runs[r].results
      /\ Read(r)' = Read(r)
  BY <1>1, RunGoesTo DEF ReportTypes, RunSteps
<1>7. ReportTypes'
  BY <1>1, <1>2 DEF ReportTypes
<1>8. RunFits(r)'
  BY <1>1, <1>2 DEF RunFits, Asking
<1>9. SpawnedOnce(r)'
  BY <1>1, <1>2 DEF SpawnedOnce, Unspawned
<1>3. RunFits(r)' /\ SpawnedOnce(r)' /\ ReadsOwn(r)'
  BY <1>2, <1>8, <1>9 DEF ReadsOwn
<1>4. TopFits'
  BY <1>1, <1>2 DEF TopFits, ReportTypes
<1>5. \A i \in DOMAIN runs'[r].results : workers[runs'[r].results[i]][runs[r].order[i]].pc = "ended"
  BY <1>1, <1>2 DEF ResultsEnded
<1>6. AtWork(r)' => AtWork(r)
  BY <1>2 DEF AtWork
<1> QED
  BY <1>2, <1>3, <1>4, <1>5, <1>6, <1>7, RunMoves

\* A run starts alone where runs may not overlap.
LEMMA StartRunKeeps ==
  ASSUME ReportInv, NEW r \in Run, StartRun(r)
  PROVE  ReportInv'
<1>1. ReportTypes /\ RunFits(r) /\ SpawnedOnce(r) /\ ResultsEnded /\ TopFits
  BY DEF ReportInv
<1>10. (IF runs[r].isolate THEN "spawn" ELSE "read") \in RunSteps
  BY DEF RunSteps
<1>11. ReportTypes'
  BY <1>1, <1>10, RunGoesTo DEF ReportTypes, StartRun
<1>2. /\ \A q \in Run \ {r} : runs'[q] = runs[q] /\ Read(r)' = Read(r)
      /\ runs[r].pc = "start" /\ runs'[r].pc = IF runs[r].isolate THEN "spawn" ELSE "read"
      /\ runs'[r].isolate = runs[r].isolate /\ runs'[r].order = runs[r].order
      /\ runs'[r].results = runs[r].results /\ runs[r].results = <<>>
      /\ UNCHANGED <<overlap, workers, files, sealed, top>>
  BY <1>1, <1>10, RunGoesTo DEF ReportTypes, StartRun, RunFits
<1>3. RunFits(r)' /\ Read(r)' = 0
  BY <1>1, <1>2 DEF RunFits, Asking, Read
<1>4. \A i \in 1 .. 2 : workers[r][runs[r].order[i]].pc = "none"
  BY <1>1, <1>2 DEF SpawnedOnce, Unspawned
<1>9. runs[r].order \in Order
  BY <1>1 DEF ReportTypes, RunRecord
<1>5. \A c \in Candidate : workers[r][c].pc = "none"
  BY <1>4, <1>9, OrderIs
<1>6. SpawnedOnce(r)' /\ ReadsOwn(r)'
  BY <1>2, <1>4, <1>5 DEF SpawnedOnce, ReadsOwn, OwnFiles
<1>7. TopFits'
  BY <1>1, <1>2 DEF TopFits, ReportTypes
<1>8. ~overlap => \A q \in Run : ~AtWork(q)
  BY DEF StartRun
<1> QED
  BY <1>2, <1>3, <1>6, <1>7, <1>8, <1>11, RunMoves

\* A result that is taken is of a worker that got to its end; an isolated run that
\* nothing overlaps takes its own worker's.
LEMMA TakeKeeps ==
  ASSUME ReportInv, NEW r \in Run, NEW next \in {"spawn", "read"}, TakeResult(r, next),
         files[Wanted(r)]["result"] # 0, UNCHANGED <<overlap, workers, files, sealed, top>>,
         next = "spawn" => runs[r].pc = "waiting" /\ workers[r][Wanted(r)].pc = "ended",
         next = "read" => runs[r].pc = "read"
  PROVE  ReportInv'
<1> DEFINE k == Read(r)
           taken == files[Wanted(r)]["result"]
<1>1. ReportTypes /\ RunFits(r) /\ SpawnedOnce(r) /\ ReadsOwn(r) /\ ResultsEnded /\ TopFits
  BY DEF ReportInv
<1>2. /\ k \in Nat /\ k + 1 \in 1 .. 2 /\ Wanted(r) = runs[r].order[k + 1] /\ Wanted(r) \in Candidate
      /\ Asking(r) /\ runs[r].results \in Seq(Run) /\ runs[r].order \in Order
  BY <1>1, WantedIs, RecordsAre DEF Asking
<1>3. taken \in Run /\ workers[taken][Wanted(r)].pc = "ended"
  BY <1>1, <1>2 DEF ReportTypes, ResultsEnded, File
<1>4. /\ runs'[r].results = Append(runs[r].results, taken)
      /\ runs'[r].pc = IF runs[r].results = <<>> THEN next ELSE "combine"
      /\ runs'[r].isolate = runs[r].isolate /\ runs'[r].order = runs[r].order
      /\ \A q \in Run \ {r} : runs'[q] = runs[q]
  BY <1>1 DEF TakeResult, ReportTypes
<1>5. /\ Append(runs[r].results, taken) \in Seq(Run)
      /\ Len(runs'[r].results) = k + 1 /\ DOMAIN runs'[r].results = 1 .. k + 1
      /\ runs'[r].results[k + 1] = taken
      /\ \A i \in 1 .. k : runs'[r].results[i] = runs[r].results[i]
      /\ DOMAIN runs[r].results = 1 .. k
      /\ (runs[r].results = <<>> <=> k = 0)
  <2> DEFINE rs == runs[r].results
  <2>1. rs \in Seq(Run) /\ k = Len(rs) /\ runs'[r].results = Append(rs, taken)
    BY <1>2, <1>4 DEF Read
  <2> HIDE DEF rs, k, taken
  <2>2. /\ Append(rs, taken) \in Seq(Run) /\ Len(Append(rs, taken)) = Len(rs) + 1
        /\ Append(rs, taken)[Len(rs) + 1] = taken
        /\ \A i \in 1 .. Len(rs) : Append(rs, taken)[i] = rs[i]
    BY <1>3, <2>1, AppendProperties
  <2>3. /\ DOMAIN rs = 1 .. Len(rs) /\ DOMAIN Append(rs, taken) = 1 .. Len(Append(rs, taken))
        /\ (rs = <<>> <=> Len(rs) = 0)
    BY <2>1, <2>2, LenProperties, EmptySeq
  <2> QED
    BY <2>1, <2>2, <2>3 DEF rs
<1>6. ReportTypes'
  <2> DEFINE step == IF runs[r].results = <<>> THEN next ELSE "combine"
             new == [runs[r] EXCEPT !.results = Append(@, taken), !.pc = step]
  <2>4. runs[r] \in RunRecord /\ step \in RunSteps
    BY <1>1 DEF ReportTypes, RunSteps
  <2>3. runs' = [runs EXCEPT ![r] = new]
    BY <1>1 DEF TakeResult, ReportTypes
  <2> HIDE DEF step
  <2>2. new \in RunRecord
    BY <1>4, <1>5, <2>4 DEF RunRecord
  <2> HIDE DEF new
  <2>1. runs' \in [Run -> RunRecord]
    BY <1>1, <2>2, <2>3 DEF ReportTypes
  <2> QED
    BY <1>1, <2>1 DEF ReportTypes
<1>7. Read(r)' = k + 1
  BY <1>5 DEF Read
<1>8. RunFits(r)'
  <2>1. CASE k = 0
    BY <1>1, <1>4, <1>5, <1>7, <2>1 DEF RunFits, Asking
  <2>2. CASE k = 1
    BY <1>1, <1>4, <1>5, <1>7, <2>2 DEF RunFits, Asking
  <2> QED
    BY <1>2, <2>1, <2>2
<1>9. SpawnedOnce(r)'
  BY <1>1, <1>2, <1>4, <1>7 DEF SpawnedOnce, Unspawned, RunFits, Asking
<1>10. \A i \in DOMAIN runs'[r].results : workers[runs'[r].results[i]][runs[r].order[i]].pc = "ended"
  <2> SUFFICES ASSUME NEW i \in 1 .. k + 1
               PROVE  workers[runs'[r].results[i]][runs[r].order[i]].pc = "ended"
    BY <1>5
  <2>1. CASE i \in 1 .. k
    <3>1. i \in DOMAIN runs[r].results /\ runs'[r].results[i] = runs[r].results[i]
      BY <1>5, <2>1
    <3> QED
      BY <1>1, <3>1 DEF ResultsEnded
  <2>2. CASE i = k + 1
    BY <1>2, <1>3, <1>5, <2>2
  <2> QED
    BY <1>2, <2>1, <2>2
<1>11. ReadsOwn(r)'
  <2> SUFFICES ASSUME ~overlap, runs[r].isolate
               PROVE  /\ \A c \in Candidate : OwnFiles(r, c)'
                      /\ \A i \in DOMAIN runs'[r].results :
                           runs'[r].results[i] = r /\ workers[r][runs[r].order[i]].pc = "ended"
    BY <1>4 DEF ReadsOwn
  <2>1. next = "spawn"
    BY <1>1 DEF RunFits
  <2>2. /\ \A c \in Candidate : OwnFiles(r, c)
        /\ \A i \in 1 .. k : runs[r].results[i] = r /\ workers[r][runs[r].order[i]].pc = "ended"
    BY <1>1, <1>5, <2>1 DEF ReadsOwn
  <2>3. taken = r
    BY <1>2, <2>1, <2>2 DEF OwnFiles
  <2> QED
    BY <1>2, <1>5, <2>1, <2>2, <2>3 DEF OwnFiles
<1>12. TopFits'
  BY <1>1, <1>2, <1>4 DEF TopFits, ReportTypes, Asking
<1>13. AtWork(r)' => AtWork(r)
  BY <1>2 DEF AtWork, Asking
<1> QED
  BY <1>4, <1>6, <1>8, <1>9, <1>10, <1>11, <1>12, <1>13, RunMoves

\* An isolated run takes the result of the worker it waited for.
LEMMA CollectResultKeeps ==
  ASSUME ReportInv, NEW r \in Run, CollectResult(r)
  PROVE  ReportInv'
  BY TakeKeeps, GivesUpKeeps DEF CollectResult, Fail

\* Another run takes what it finds.
LEMMA ReadExistingKeeps ==
  ASSUME ReportInv, NEW r \in Run, ReadExisting(r)
  PROVE  ReportInv'
  BY TakeKeeps, GivesUpKeeps DEF ReadExisting, Fail

\* A run that is killed leaves its worker.
LEMMA RunKilledKeeps ==
  ASSUME ReportInv, NEW r \in Run, RunKilled(r)
  PROVE  ReportInv'
  BY GivesUpKeeps DEF RunKilled

\* The combination of an isolated run that nothing overlapped is of its own files, and
\* passes only with workers that passed.
LEMMA CombineKeeps ==
  ASSUME ReportInv, NEW r \in Run, Combine(r)
  PROVE  ReportInv'
<1> DEFINE reports == {files[c][f] : c \in Candidate, f \in {"warmup", "report"}}
           measured == {workers[runs[r].results[i]][runs[r].order[i]] : i \in 1 .. 2}
<1>1. CASE 0 \in reports
  BY <1>1, GivesUpKeeps DEF Combine, Fail
<1>2. CASE 0 \notin reports
  <2>1. ReportTypes /\ RunFits(r) /\ SpawnedOnce(r) /\ ReadsOwn(r) /\ ResultsEnded
    BY DEF ReportInv
  <2>2. /\ runs[r].pc = "combine" /\ runs' = [runs EXCEPT ![r].pc = "done"]
        /\ top' = [of |-> r, results |-> ToSet(runs[r].results), reports |-> reports,
                   exit |-> IF EnginePass(measured) THEN 0 ELSE 1]
        /\ UNCHANGED <<overlap, workers, files, sealed>>
    BY <1>2 DEF Combine
  <2>3. /\ runs[r].results \in Seq(Run) /\ Read(r) = 2 /\ runs[r].order \in Order
        /\ DOMAIN runs[r].results = 1 .. 2
    BY <2>1, <2>2, RecordsAre, LenProperties DEF RunFits, Read
  <2>4. ToSet(runs[r].results) \subseteq Run
    BY <2>3 DEF ToSet
  <2>5. reports \subseteq Run
    BY <1>2, <2>1 DEF ReportTypes, File
  <2>7. /\ runs' \in [Run -> RunRecord] /\ \A q \in Run \ {r} : runs'[q] = runs[q]
        /\ runs'[r].pc = "done" /\ runs'[r].isolate = runs[r].isolate
        /\ runs'[r].order = runs[r].order /\ runs'[r].results = runs[r].results
        /\ Read(r)' = Read(r)
    BY <2>1, <2>2, RunGoesTo DEF ReportTypes, RunSteps
  <2> HIDE DEF reports, measured
  <2>11. /\ top'.of = r /\ top'.results = ToSet(runs[r].results) /\ top'.reports = reports
         /\ top'.exit = IF EnginePass(measured) THEN 0 ELSE 1
         /\ top' \in [of : {0} \cup Run, results : SUBSET Run, reports : SUBSET Run, exit : {0, 1}]
    BY <2>2, <2>4, <2>5
  <2>6. ReportTypes'
    BY <2>1, <2>2, <2>7, <2>11 DEF ReportTypes
  <2>12. RunFits(r)' /\ ReadsOwn(r)' /\ (AtWork(r)' => AtWork(r))
    <3>1. RunFits(r)'
      BY <2>3, <2>7 DEF RunFits, Asking
    <3>2. ReadsOwn(r)'
      BY <2>7 DEF ReadsOwn
    <3> QED
      BY <2>2, <2>7, <3>1, <3>2 DEF AtWork
  <2>13. SpawnedOnce(r)'
    BY <2>1, <2>2, <2>7 DEF SpawnedOnce, Unspawned
  <2>8. RunFits(r)' /\ SpawnedOnce(r)' /\ ReadsOwn(r)' /\ (AtWork(r)' => AtWork(r))
    BY <2>12, <2>13
  <2>9. ASSUME runs[r].isolate, ~overlap PROVE ToSet(runs[r].results) = {r} /\ reports = {r}
    <3>1. /\ \A c \in Candidate : OwnFiles(r, c)
          /\ \A i \in 1 .. 2 : runs[r].results[i] = r /\ workers[r][runs[r].order[i]].pc = "ended"
      BY <2>1, <2>2, <2>3, <2>9 DEF ReadsOwn
    <3>2. \A c \in Candidate : workers[r][c].pc = "ended"
      BY <2>3, <3>1, OrderIs
    <3>3. \A c \in Candidate : files[c]["warmup"] = r /\ files[c]["report"] = r
      BY <3>1, <3>2 DEF OwnFiles
    <3> QED
      BY <2>3, <3>1, <3>3 DEF ToSet, Candidate, reports
  <2>14. EnginePass(measured) =>
           \A i \in 1 .. 2 : workers[runs[r].results[i]][runs[r].order[i]].passed
    BY DEF EnginePass, measured
  <2>10. TopFits'
    <3>1. r # 0
      BY ReportAssumption DEF Run
    <3>2. top'.exit = 0 => EnginePass(measured)
      BY <2>11
    <3>3. runs'[r].isolate /\ ~overlap' => top'.results = {r} /\ top'.reports = {r}
      BY <2>2, <2>7, <2>9, <2>11
    <3>4. top'.exit = 0 =>
            \A i \in 1 .. 2 : workers'[runs'[r].results[i]][runs'[r].order[i]].passed
      BY <2>2, <2>7, <2>14, <3>2
    <3> QED
      BY <2>7, <2>11, <3>3, <3>4 DEF TopFits
  <2> QED
    BY <2>1, <2>2, <2>6, <2>7, <2>8, <2>10, RunMoves DEF ResultsEnded
<1> QED
  BY <1>1, <1>2

\* A run spawns its next worker, which had not been spawned before.
LEMMA SpawnWorkerKeeps ==
  ASSUME ReportInv, NEW r \in Run, SpawnWorker(r)
  PROVE  ReportInv'
<1>1. ReportTypes /\ RunFits(r) /\ SpawnedOnce(r) /\ ReadsOwn(r) /\ ResultsEnded /\ TopFits /\ OneAtWork
  BY DEF ReportInv
<1>2. /\ Read(r) \in Nat /\ Read(r) + 1 \in 1 .. 2 /\ Wanted(r) = runs[r].order[Read(r) + 1]
      /\ Wanted(r) \in Candidate /\ runs[r].order \in Order /\ runs[r].pc = "spawn"
  BY <1>1, WantedIs DEF SpawnWorker, Asking
<1>3. workers[r][Wanted(r)].pc = "none"
  BY <1>1, <1>2 DEF SpawnedOnce, Unspawned
<1>14. /\ runs' = [runs EXCEPT ![r].pc = "waiting"]
       /\ workers' = [workers EXCEPT ![r][Wanted(r)].pc = "measuring"]
       /\ UNCHANGED <<overlap, files, sealed, top>>
  BY DEF SpawnWorker
<1>15. /\ runs' \in [Run -> RunRecord] /\ \A q \in Run \ {r} : runs'[q] = runs[q]
       /\ runs'[r].pc = "waiting" /\ runs'[r].isolate = runs[r].isolate
       /\ runs'[r].order = runs[r].order /\ runs'[r].results = runs[r].results
       /\ Read(r)' = Read(r)
  BY <1>1, <1>14, RunGoesTo DEF ReportTypes, RunSteps
<1>16. /\ workers' \in [Run -> [Candidate -> WorkerRecord]]
       /\ \A q \in Run, d \in Candidate : q # r \/ d # Wanted(r) => workers'[q][d] = workers[q][d]
       /\ workers'[r][Wanted(r)].pc = "measuring"
       /\ workers'[r][Wanted(r)].passed = workers[r][Wanted(r)].passed
  BY <1>1, <1>2, <1>14, WorkerGoesTo DEF ReportTypes, WorkerSteps
<1>17. ReportTypes'
  BY <1>1, <1>14, <1>15, <1>16 DEF ReportTypes
<1>4. /\ \A q \in Run \ {r} : workers'[q] = workers[q]
      /\ \A q \in Run, c \in Candidate : workers'[q][c].passed = workers[q][c].passed
  BY <1>1, <1>14, <1>16 DEF ReportTypes
<1>5. \A q \in Run : runs[q].order \in Order /\ runs[q].results \in Seq(Run)
  BY <1>1, RecordsAre
<1>6. \A q \in Run : \A i \in DOMAIN runs[q].results :
        i \in 1 .. 2 /\ runs[q].results[i] \in Run /\ runs[q].order[i] \in Candidate
  <2> SUFFICES ASSUME NEW q \in Run, NEW i \in DOMAIN runs[q].results
               PROVE  i \in 1 .. 2 /\ runs[q].results[i] \in Run /\ runs[q].order[i] \in Candidate
    OBVIOUS
  <2>1. Len(runs[q].results) \in Nat /\ DOMAIN runs[q].results = 1 .. Len(runs[q].results)
    BY <1>5, LenProperties
  <2>2. i \in 1 .. 2
    BY <2>1 DEF ReportInv, RunFits, Read
  <2> QED
    BY <1>5, <2>2, OrderIs
<1>7. ResultsEnded'
  <2>1. \A q \in Run, c \in Candidate : workers[q][c].pc = "ended" => workers'[q][c].pc = "ended"
    BY <1>3, <1>16
  <2>2. \A c \in Candidate : files[c]["result"] \in {0} \cup Run
    BY <1>1 DEF ReportTypes, File
  <2>3. \A q \in Run : runs'[q].results = runs[q].results /\ runs'[q].order = runs[q].order
    BY <1>15
  <2> QED
    BY <1>1, <1>4, <1>14, <1>15, <1>16, <1>6, <2>1, <2>2, <2>3 DEF ResultsEnded
<1>8. OneAtWork'
  <2>1. AtWork(r) /\ \A q \in Run \ {r} : AtWork(q)' = AtWork(q)
    BY <1>2, <1>4, <1>14, <1>15, <1>16 DEF AtWork
  <2> QED
    BY <1>1, <1>4, <1>14, <1>15, <1>16, <2>1 DEF OneAtWork
<1>9. ASSUME NEW q \in Run \ {r} PROVE RunFits(q)' /\ SpawnedOnce(q)' /\ ReadsOwn(q)'
  <2>1. RunFits(q) /\ SpawnedOnce(q) /\ ReadsOwn(q) /\ runs'[q] = runs[q] /\ workers'[q] = workers[q]
    BY <1>4, <1>14, <1>15, <1>16 DEF ReportInv
  <2> QED
    BY <1>4, <1>14, <1>15, <1>16, <2>1 DEF RunFits, SpawnedOnce, Unspawned, ReadsOwn, OwnFiles, Asking, Read
<1>10. RunFits(r)' /\ Read(r)' = Read(r)
  BY <1>1, <1>2, <1>4, <1>14, <1>15, <1>16 DEF RunFits, Asking, Read
<1>11. SpawnedOnce(r)'
  <2> SUFFICES ASSUME NEW i \in 1 .. 2, Unspawned(r, i)' PROVE workers'[r][runs[r].order[i]].pc = "none"
    BY <1>4, <1>14, <1>15, <1>16 DEF SpawnedOnce
  <2>1. Read(r) + 1 < i
    BY <1>1, <1>2, <1>4, <1>14, <1>15, <1>16, <1>10 DEF Unspawned, RunFits
  <2>2. runs[r].order[i] \in Candidate \ {Wanted(r)}
    BY <1>2, <2>1, OrderIs
  <2>3. Unspawned(r, i)
    BY <1>2, <2>1 DEF Unspawned
  <2> QED
    BY <1>1, <1>4, <1>14, <1>15, <1>16, <2>2, <2>3 DEF SpawnedOnce
<1>12. ReadsOwn(r)'
  BY <1>1, <1>2, <1>3, <1>4, <1>14, <1>15, <1>16, <1>6 DEF ReadsOwn, OwnFiles
<1>13. TopFits'
  <2>1. top.of # 0 => /\ top.of \in Run \ {r} /\ runs'[top.of] = runs[top.of]
                      /\ \A i \in 1 .. 2 : i \in DOMAIN runs[top.of].results
    <3> SUFFICES ASSUME top.of # 0
                 PROVE  /\ top.of \in Run \ {r}
                        /\ \A i \in 1 .. 2 : i \in DOMAIN runs[top.of].results
      BY <1>15
    <3>1. top.of \in Run /\ runs[top.of].pc = "done"
      BY <1>1 DEF TopFits, ReportTypes
    <3>2. Read(top.of) = 2
      BY <3>1 DEF ReportInv, RunFits
    <3> QED
      BY <1>2, <1>5, <3>1, <3>2, LenProperties DEF Read
  <2> QED
    <3> SUFFICES ASSUME top.of # 0 PROVE TopFits'
      BY <1>14 DEF TopFits
    <3>1. /\ top.of \in Run \ {r} /\ runs'[top.of] = runs[top.of]
          /\ \A i \in 1 .. 2 : /\ runs[top.of].results[i] \in Run
                              /\ runs[top.of].order[i] \in Candidate
      BY <1>6, <2>1
    <3>2. top.exit = 0 => \A i \in 1 .. 2 :
            workers'[runs[top.of].results[i]][runs[top.of].order[i]].passed
      <4>1. top.exit = 0 => \A i \in 1 .. 2 :
              workers[runs[top.of].results[i]][runs[top.of].order[i]].passed
        BY <1>1 DEF TopFits
      <4> QED
        BY <1>4, <3>1, <4>1
    <3> QED
      BY <1>1, <1>14, <3>1, <3>2 DEF TopFits
<1> QED
  BY <1>7, <1>8, <1>9, <1>10, <1>11, <1>12, <1>13, <1>17 DEF ReportInv

\* A worker measures its candidate before it writes anything.
LEMMA MeasureKeeps ==
  ASSUME ReportInv, NEW r \in Run, NEW c \in Candidate, Measure(r, c)
  PROVE  ReportInv'
<1>1. ReportTypes
  BY DEF ReportInv
<1>2. PICK passed \in BOOLEAN, digest \in Digests \cup {"none"} :
        workers' = [workers EXCEPT ![r][c] = [pc |-> "warmup", passed |-> passed, digest |-> digest]]
  BY DEF Measure
<1>3. /\ workers[r][c].pc = "measuring" /\ workers'[r][c].pc = "warmup"
      /\ \A q \in Run, d \in Candidate : q # r \/ d # c => workers'[q][d] = workers[q][d]
  BY <1>1, <1>2 DEF Measure, ReportTypes
<1>4. ReportTypes'
  <2> DEFINE new == [pc |-> "warmup", passed |-> passed, digest |-> digest]
  <2>1. new \in WorkerRecord
    BY DEF WorkerRecord, WorkerSteps
  <2> HIDE DEF new
  <2>2. workers' \in [Run -> [Candidate -> WorkerRecord]]
    BY <1>1, <1>2, <2>1 DEF ReportTypes, new
  <2>3. UNCHANGED <<overlap, runs, files, top>> /\ sealed' \in BOOLEAN
    BY <1>1 DEF Measure, ReportTypes
  <2> QED
    BY <1>1, <2>2, <2>3 DEF ReportTypes
<1>5. UNCHANGED <<overlap, runs, files, top>>
  BY DEF Measure
<1>6. OwnFiles(r, c)'
  BY <1>3 DEF OwnFiles
<1> QED
  BY <1>3, <1>4, <1>5, <1>6, WorkerMoves

\* A worker writes its files one after the other.
LEMMA WriteFileKeeps ==
  ASSUME ReportInv, NEW r \in Run, NEW c \in Candidate, WriteFile(r, c)
  PROVE  ReportInv'
<1> DEFINE old == workers[r][c].pc
           new == workers'[r][c].pc
<1>1. ReportTypes
  BY DEF ReportInv
<1>2. /\ old \in {"warmup", "report", "result"} /\ files' = [files EXCEPT ![c][old] = r]
      /\ UNCHANGED <<overlap, runs, sealed, top>>
  BY DEF WriteFile
<1>3. PICK pc \in {"report", "result", "ended"} :
        /\ workers' = [workers EXCEPT ![r][c].pc = pc]
        /\ \/ old = "warmup" /\ pc = "report"
           \/ old = "report" /\ pc = "result"
           \/ old = "result" /\ pc = "ended"
  BY <1>2 DEF WriteFile
<1>9. pc \in WorkerSteps
  BY DEF WorkerSteps
<1>4. /\ new = pc
      /\ \A q \in Run, d \in Candidate : q # r \/ d # c => workers'[q][d] = workers[q][d]
  BY <1>1, <1>3, <1>9, WorkerGoesTo DEF ReportTypes
<1>5. /\ \A d \in Candidate \ {c} : files'[d] = files[d]
      /\ \A f \in File : files'[c][f] = IF f = old THEN r ELSE files[c][f]
  BY <1>1, <1>2 DEF ReportTypes
<1>6. ReportTypes'
  <2>1. workers' \in [Run -> [Candidate -> WorkerRecord]]
    BY <1>1, <1>3, <1>9, WorkerGoesTo DEF ReportTypes
  <2>3. files[c] \in [File -> {0} \cup Run] /\ files' = [files EXCEPT ![c] = [files[c] EXCEPT ![old] = r]]
    BY <1>1, <1>2 DEF ReportTypes
  <2>4. [files[c] EXCEPT ![old] = r] \in [File -> {0} \cup Run]
    BY <2>3
  <2>2. files' \in [Candidate -> [File -> {0} \cup Run]]
    BY <1>1, <2>3, <2>4 DEF ReportTypes
  <2> QED
    BY <1>1, <1>2, <2>1, <2>2 DEF ReportTypes
<1>7. OwnFiles(r, c) => OwnFiles(r, c)'
  BY <1>2, <1>3, <1>4, <1>5 DEF OwnFiles, File
<1>8. \/ files'[c]["result"] \in {files[c]["result"], 0}
      \/ files'[c]["result"] = r /\ new = "ended"
  BY <1>3, <1>4, <1>5 DEF File
<1> QED
  BY <1>2, <1>3, <1>4, <1>5, <1>6, <1>7, <1>8, WorkerMoves

\* A worker that crashes may cut the file off that it was writing.
LEMMA WorkerCrashesKeeps ==
  ASSUME ReportInv, NEW r \in Run, NEW c \in Candidate, WorkerCrashes(r, c)
  PROVE  ReportInv'
<1> DEFINE old == workers[r][c].pc
<1>1. ReportTypes
  BY DEF ReportInv
<1>2. /\ old \notin {"none", "ended", "crashed"} /\ workers' = [workers EXCEPT ![r][c].pc = "crashed"]
      /\ UNCHANGED <<overlap, runs, sealed, top>>
      /\ files' = files \/ files' = [files EXCEPT ![c][old] = 0]
  BY DEF WorkerCrashes
<1>3. old \in WorkerSteps /\ "crashed" \in WorkerSteps
  BY <1>1, RecordsAre DEF WorkerSteps
<1>4. /\ workers'[r][c].pc = "crashed" /\ workers' \in [Run -> [Candidate -> WorkerRecord]]
      /\ \A q \in Run, d \in Candidate : q # r \/ d # c => workers'[q][d] = workers[q][d]
  <2>1. workers \in [Run -> [Candidate -> WorkerRecord]]
    BY <1>1 DEF ReportTypes
  <2>2. PICK pc \in WorkerSteps : pc = "crashed"
    BY <1>3
  <2>3. workers' = [workers EXCEPT ![r][c].pc = pc]
    BY <1>2, <2>2
  <2>4. /\ workers' \in [Run -> [Candidate -> WorkerRecord]]
        /\ \A q \in Run, d \in Candidate : q # r \/ d # c => workers'[q][d] = workers[q][d]
        /\ workers'[r][c].pc = pc /\ workers'[r][c].passed = workers[r][c].passed
    BY <2>1, <2>3, WorkerGoesTo
  <2> QED
    BY <2>2, <2>4
<1>5. /\ \A d \in Candidate \ {c} : files'[d] = files[d]
      /\ \A f \in File : files'[c][f] \in {files[c][f], 0}
  BY <1>1, <1>2 DEF ReportTypes
<1>6. ReportTypes'
  <2>3. files[c] \in [File -> {0} \cup Run] /\ [files[c] EXCEPT ![old] = 0] \in [File -> {0} \cup Run]
    BY <1>1 DEF ReportTypes
  <2>2. files' \in [Candidate -> [File -> {0} \cup Run]]
    BY <1>1, <1>2, <2>3 DEF ReportTypes
  <2> QED
    BY <1>1, <1>2, <1>4, <2>2 DEF ReportTypes
<1>7. OwnFiles(r, c)'
  BY <1>4 DEF OwnFiles
<1> QED
  BY <1>2, <1>4, <1>5, <1>6, <1>7, WorkerMoves DEF File

\* Every step of a run, or of a worker, keeps the invariant.
LEMMA ReportInvStays == ReportInv /\ (ReportNext \/ UNCHANGED reportVars) => ReportInv'
<1>1. ASSUME ReportInv, UNCHANGED reportVars PROVE ReportInv'
  <2>1. UNCHANGED <<overlap, runs, workers, files, sealed, top>>
    BY <1>1 DEF reportVars
  <2>2. ReportTypes' /\ ResultsEnded' /\ OneAtWork' /\ TopFits'
    BY <1>1, <2>1 DEF ReportInv, ReportTypes, ResultsEnded, OneAtWork, TopFits, AtWork
  <2>3. ASSUME NEW r \in Run PROVE RunFits(r)' /\ SpawnedOnce(r)' /\ ReadsOwn(r)'
    <3>1. RunFits(r) /\ SpawnedOnce(r) /\ ReadsOwn(r)
      BY <1>1 DEF ReportInv
    <3> QED
      BY <2>1, <3>1 DEF RunFits, SpawnedOnce, Unspawned, ReadsOwn, OwnFiles, Asking, Read
  <2> QED
    BY <2>2, <2>3 DEF ReportInv
<1> QED
  BY <1>1, StartRunKeeps, SpawnWorkerKeeps, CollectResultKeeps, ReadExistingKeeps, CombineKeeps,
     RunKilledKeeps, MeasureKeeps, WriteFileKeeps, WorkerCrashesKeeps DEF ReportNext

\* The invariant says what the top-level result rests on.
LEMMA CombinedIsFresh == ReportInv => CombinedFresh
  BY DEF ReportInv, TopFits, CombinedFresh

-----------------------------------------------------------------------------
(* Trace clients. *)

TalkSteps == {"waiting", "ready", "queued", "streaming", "generated", "done"}
Message == [role : {"user", "assistant"}, turn : Nat, tokens : Nat]
TalkRecord == [pc : TalkSteps, turn : Nat, messages : Seq(Message), link : {"usable", "unread"},
               got : Nat, usage : Nat]
Result == [turn : Nat, outcome : {"ok", "failed", "skipped"}, tokens : Nat]

\* The types of the conversations and of what is reported of them.
TraceTypes ==
  /\ mode \in [client : {"http", "poisson", "local"}, reuse : BOOLEAN, chunked : BOOLEAN]
  /\ talk \in [Conversation -> TalkRecord]
  /\ results \in [Conversation -> Seq(Result)]
  /\ requests \in [Conversation -> Seq(Seq(Message))]

\* What is said in a conversation with these results: the turns' texts and answers.
Said(rs, j) == IF j % 2 = 1 THEN User((j + 1) \div 2) ELSE Assistant(j \div 2, rs[j \div 2].tokens)
Dialogue(rs, n) == [j \in 1 .. n |-> Said(rs, j)]

\* Before its end a conversation has one good result for each turn behind it.  The
\* last turn of one that has ended failed or was the workload's last.
ResultsFit(c) ==
  LET t == talk[c].turn  rs == results[c] IN
  /\ \A i \in DOMAIN rs : rs[i].turn = i
  /\ \A i \in 1 .. t - 1 : rs[i].outcome = "ok"
  /\ talk[c].pc # "done" => Len(rs) = t - 1
  /\ talk[c].pc = "done" =>
       /\ Len(rs) = TurnCount /\ rs[t].outcome # "skipped"
       /\ rs[t].outcome = "ok" => t = TurnCount
       /\ \A i \in t + 1 .. TurnCount : rs[i].outcome = "skipped"

\* The requests are the conversation's beginnings, and the messages what was said.
RequestsFit(c) ==
  LET t == talk[c].turn IN
  /\ Len(requests[c]) = IF talk[c].pc \in {"waiting", "ready", "queued"} THEN t - 1 ELSE t
  /\ \A i \in DOMAIN requests[c] : requests[c][i] = Dialogue(results[c], 2 * i - 1)
  /\ talk[c].pc \in {"waiting", "ready"} => talk[c].messages = Dialogue(results[c], 2 * (t - 1))
  /\ talk[c].pc \in {"queued", "streaming", "generated"} =>
       talk[c].messages = Dialogue(results[c], 2 * t - 1)

\* A response is left unread only by an earlier turn that ended with [DONE].
LinkFits(c) ==
  talk[c].pc # "done" /\ talk[c].link = "unread" =>
    /\ mode.chunked /\ talk[c].turn > 1
    /\ talk[c].pc = "queued" => mode.reuse

\* All of these, for one conversation.
TalkFits(c) ==
  /\ talk[c].turn \in 1 .. TurnCount
  /\ ResultsFit(c) /\ RequestsFit(c) /\ LinkFits(c) /\ FailuresExplained(c)

\* There are no more threads than workers.
PoolFits == Cardinality(InPool) <= Workers

\* The invariant of the trace clients.
TraceInv == TraceTypes /\ PoolFits /\ \A c \in Conversation : TalkFits(c)

\* What is said depends on the results it quotes alone, up to a turn's text on those
\* of the turns before it.
SameBefore(rs, qs, t) == \A i \in 1 .. t - 1 : rs[i] = qs[i]

\* Equal results make equal beginnings.
LEMMA DialogueSame ==
  ASSUME NEW t \in Nat \ {0}, NEW k \in 1 .. t, NEW rs, NEW qs, SameBefore(rs, qs, t)
  PROVE  Dialogue(rs, 2 * k - 1) = Dialogue(qs, 2 * k - 1)
<1> DEFINE n == 2 * k - 1
<1> SUFFICES ASSUME NEW j \in 1 .. n PROVE Said(rs, j) = Said(qs, j)
  BY DEF Dialogue
<1>1. CASE j % 2 = 1
  BY <1>1 DEF Said
<1>2. CASE j % 2 # 1
  <2>1. j \div 2 \in 1 .. t - 1
    BY <1>2
  <2> QED
    BY <1>2, <2>1 DEF Said, SameBefore
<1> QED
  BY <1>1, <1>2

\* The next turn's text, or its answer, prolongs what was said.
LEMMA DialogueGoesOn ==
  ASSUME NEW t \in Nat \ {0}, NEW rs
  PROVE  /\ Append(Dialogue(rs, 2 * (t - 1)), User(t)) = Dialogue(rs, 2 * t - 1)
         /\ Append(Dialogue(rs, 2 * t - 1), Assistant(t, rs[t].tokens)) = Dialogue(rs, 2 * t)
<1>1. ASSUME NEW n \in Nat, NEW x, x = Said(rs, n + 1)
      PROVE  Append(Dialogue(rs, n), x) = Dialogue(rs, n + 1)
  <2> DEFINE S == {Said(rs, j) : j \in 1 .. n + 1}
  <2>1. Dialogue(rs, n) \in [1 .. n -> S] /\ Dialogue(rs, n + 1) \in [1 .. n + 1 -> S] /\ x \in S
    BY <1>1 DEF Dialogue
  <2> HIDE DEF S
  <2>2. Dialogue(rs, n) \in Seq(S) /\ Dialogue(rs, n + 1) \in Seq(S) /\ n + 1 \in Nat
    BY <2>1, SeqDef
  <2>3. /\ Len(Dialogue(rs, n)) = n /\ Len(Dialogue(rs, n + 1)) = n + 1
        /\ \A j \in 1 .. n : Dialogue(rs, n)[j] = Dialogue(rs, n + 1)[j]
        /\ Dialogue(rs, n + 1)[n + 1] = x
    <3>1. Len(Dialogue(rs, n)) = n /\ Len(Dialogue(rs, n + 1)) = n + 1
      BY <2>1, <2>2, LenProperties
    <3>2. /\ \A j \in 1 .. n : Dialogue(rs, n)[j] = Said(rs, j) /\ Dialogue(rs, n + 1)[j] = Said(rs, j)
          /\ Dialogue(rs, n + 1)[n + 1] = Said(rs, n + 1)
      BY DEF Dialogue
    <3> QED
      BY <1>1, <3>1, <3>2
  <2>4. /\ Append(Dialogue(rs, n), x) \in Seq(S) /\ Len(Append(Dialogue(rs, n), x)) = n + 1
        /\ \A j \in 1 .. n : Append(Dialogue(rs, n), x)[j] = Dialogue(rs, n)[j]
        /\ Append(Dialogue(rs, n), x)[n + 1] = x
    BY <2>1, <2>2, <2>3, AppendProperties
  <2> QED
    BY <2>2, <2>3, <2>4, SeqEqual
<1>2. Said(rs, 2 * (t - 1) + 1) = User(t)
  <2>1. (2 * (t - 1) + 1) % 2 = 1 /\ (2 * (t - 1) + 1 + 1) \div 2 = t
    OBVIOUS
  <2> QED
    BY <2>1 DEF Said
<1>3. Said(rs, 2 * t - 1 + 1) = Assistant(t, rs[t].tokens)
  <2>1. (2 * t - 1 + 1) % 2 = 0 /\ (2 * t - 1 + 1) \div 2 = t
    OBVIOUS
  <2> QED
    BY <2>1 DEF Said
<1>4. 2 * (t - 1) \in Nat /\ 2 * t - 1 \in Nat /\ 2 * (t - 1) + 1 = 2 * t - 1 /\ 2 * t - 1 + 1 = 2 * t
  OBVIOUS
<1> QED
  BY <1>1, <1>2, <1>3, <1>4

\* The client's own rules for a conversation, when its records are all that moves.
LEMMA TalkMoves ==
  ASSUME TraceInv, NEW c \in Conversation, TraceTypes', PoolFits', TalkFits(c)', mode' = mode,
         faults \subseteq faults',
         \A d \in Conversation \ {c} :
           talk'[d] = talk[d] /\ results'[d] = results[d] /\ requests'[d] = requests[d]
  PROVE  TraceInv'
<1>1. ASSUME NEW d \in Conversation \ {c} PROVE TalkFits(d)'
  <2>1. TalkFits(d) /\ talk'[d] = talk[d] /\ results'[d] = results[d] /\ requests'[d] = requests[d]
    BY DEF TraceInv
  <2>2. ResultsFit(d)' /\ RequestsFit(d)' /\ LinkFits(d)'
    BY <2>1 DEF TalkFits, ResultsFit, RequestsFit, LinkFits, TurnCount
  <2>3. FailuresExplained(d)'
    BY <2>1 DEF TalkFits, FailuresExplained
  <2> QED
    BY <2>1, <2>2, <2>3 DEF TalkFits, TurnCount
<1> QED
  BY <1>1 DEF TraceInv

\* The pool: a thread is taken where one is free, and else none is.
LEMMA PoolMoves ==
  ASSUME TraceInv, NEW c \in Conversation,
         InPool' \subseteq InPool \/ (InPool' \subseteq InPool \cup {c} /\ Cardinality(InPool) < Workers)
  PROVE  PoolFits'
<1>1. InPool \subseteq Conversation /\ IsFiniteSet(Conversation)
  BY TraceAssumption, FS_Interval DEF InPool, Conversation
<1>2. IsFiniteSet(InPool) /\ Cardinality(InPool) \in Nat /\ Cardinality(InPool) <= Workers
  BY <1>1, FS_Subset, FS_CardinalityType DEF TraceInv, PoolFits
<1>3. CASE InPool' \subseteq InPool
  <2>1. Cardinality(InPool') <= Cardinality(InPool) /\ Cardinality(InPool') \in Nat
    BY <1>2, <1>3, FS_Subset, FS_CardinalityType
  <2> QED
    BY <1>2, <2>1, TraceAssumption DEF PoolFits
<1>4. CASE InPool' \subseteq InPool \cup {c} /\ Cardinality(InPool) < Workers
  <2>1. IsFiniteSet(InPool \cup {c}) /\ Cardinality(InPool \cup {c}) <= Cardinality(InPool) + 1
    BY <1>2, FS_AddElement
  <2>2. Cardinality(InPool') <= Cardinality(InPool \cup {c}) /\ Cardinality(InPool') \in Nat
        /\ Cardinality(InPool \cup {c}) \in Nat
    BY <1>4, <2>1, FS_Subset, FS_CardinalityType
  <2> QED
    BY <1>2, <1>4, <2>1, <2>2, TraceAssumption DEF PoolFits
<1> QED
  BY <1>3, <1>4

\* Before the first turn nothing has been said.
LEMMA TraceInvStarts == TraceInit => TraceInv
<1> SUFFICES ASSUME TraceInit PROVE TraceInv
  OBVIOUS
<1>1. TraceTypes
  <2>1. NewTalk \in TalkRecord
    BY EmptySeq DEF NewTalk, TalkRecord, TalkSteps
  <2> QED
    BY <2>1, TraceAssumption, EmptySeq DEF TraceInit, TraceTypes
<1>2. PoolFits
  <2>1. InPool = {}
    BY DEF TraceInit, InPool, NewTalk
  <2> QED
    BY <2>1, FS_EmptySet, TraceAssumption DEF PoolFits
<1>3. TurnCount \in Nat \ {0}
  BY TraceAssumption DEF TurnCount
<1>4. ASSUME NEW c \in Conversation PROVE TalkFits(c)
  <2>1. talk[c] = NewTalk /\ results[c] = <<>> /\ requests[c] = <<>>
    BY DEF TraceInit
  <2>2. Dialogue(<<>>, 2 * (1 - 1)) = <<>>
    BY DEF Dialogue
  <2> QED
    BY <1>3, <2>1, <2>2 DEF TalkFits, ResultsFit, RequestsFit, LinkFits, FailuresExplained, NewTalk
<1> QED
  BY <1>1, <1>2, <1>4 DEF TraceInv

\* A step of the client that changes the talk's record alone, within its turn.
LEMMA TalkGoesTo ==
  ASSUME TraceTypes, NEW c \in Conversation, NEW rec \in TalkRecord, talk' = [talk EXCEPT ![c] = rec],
         UNCHANGED <<mode, results>>, requests' \in [Conversation -> Seq(Seq(Message))]
  PROVE  /\ TraceTypes' /\ talk'[c] = rec
         /\ \A d \in Conversation \ {c} : talk'[d] = talk[d]
  BY DEF TraceTypes

\* What the steps within a turn find.
LEMMA TalkIs ==
  ASSUME TraceInv, NEW c \in Conversation
  PROVE  /\ talk[c] \in TalkRecord /\ talk[c].turn \in Nat \ {0} /\ talk[c].messages \in Seq(Message)
         /\ TalkFits(c) /\ TraceTypes /\ talk[c].got \in Nat
         /\ results[c] \in Seq(Result) /\ requests[c] \in Seq(Seq(Message)) /\ TurnCount \in Nat \ {0}
<1>1. TurnCount \in Nat \ {0}
  BY TraceAssumption DEF TurnCount
<1> QED
  BY <1>1 DEF TraceInv, TraceTypes, TalkRecord, TalkFits

\* A conversation takes a free thread.
LEMMA StartKeeps ==
  ASSUME TraceInv, NEW c \in Conversation, Start(c)
  PROVE  TraceInv'
<1> DEFINE rec == [talk[c] EXCEPT !.pc = "ready"]
<1>1. /\ talk[c] \in TalkRecord /\ TalkFits(c) /\ TraceTypes
  BY TalkIs
<1>2. /\ rec \in TalkRecord /\ rec.pc = "ready" /\ rec.turn = talk[c].turn
      /\ rec.messages = talk[c].messages /\ rec.link = talk[c].link
  BY <1>1 DEF TalkRecord, TalkSteps
<1>3. talk' = [talk EXCEPT ![c] = rec] /\ UNCHANGED <<mode, results, requests, faults>>
  BY DEF Start
<1> HIDE DEF rec
<1>4. TraceTypes' /\ talk'[c] = rec /\ \A d \in Conversation \ {c} : talk'[d] = talk[d]
  BY <1>1, <1>2, <1>3, TalkGoesTo DEF TraceTypes
<1>5. TalkFits(c)'
  BY <1>1, <1>2, <1>3, <1>4 DEF Start, TalkFits, ResultsFit, RequestsFit, LinkFits, FailuresExplained, TurnCount
<1>6. PoolFits'
  <2>1. CASE mode.client = "http"
    <3>1. InPool' \subseteq InPool
      BY <1>2, <1>3, <1>4, <2>1 DEF InPool
    <3> QED
      BY <3>1, PoolMoves
  <2>2. CASE mode.client # "http"
    <3>1. InPool' \subseteq InPool \cup {c} /\ Cardinality(InPool) < Workers
      BY <1>2, <1>3, <1>4, <2>2 DEF Start, InPool
    <3> QED
      BY <3>1, PoolMoves
  <2> QED
    BY <2>1, <2>2
<1> QED
  BY <1>3, <1>4, <1>5, <1>6, TalkMoves

\* The turn's text joins what was said.
LEMMA PrepareKeeps ==
  ASSUME TraceInv, NEW c \in Conversation, Prepare(c)
  PROVE  TraceInv'
<1> DEFINE t == talk[c].turn
           link == IF mode.reuse THEN talk[c].link ELSE "usable"
           rec == [talk[c] EXCEPT !.pc = "queued", !.messages = Append(@, User(t)), !.link = link]
<1>1. /\ talk[c] \in TalkRecord /\ TalkFits(c) /\ TraceTypes
      /\ t \in Nat \ {0} /\ talk[c].messages \in Seq(Message)
  BY TalkIs
<1>2. User(t) \in Message /\ Append(talk[c].messages, User(t)) \in Seq(Message)
  <2>1. User(t) \in Message
    BY <1>1 DEF User, Message
  <2> QED
    BY <1>1, <2>1, AppendProperties
<1>3. link \in {"usable", "unread"}
  BY <1>1 DEF TalkRecord
<1>4. talk' = [talk EXCEPT ![c] = rec] /\ UNCHANGED <<mode, results, requests, faults>>
  BY <1>1 DEF Prepare, TraceTypes
<1> HIDE DEF link
<1>5. /\ rec \in TalkRecord /\ rec.pc = "queued" /\ rec.turn = t /\ rec.link = link
      /\ rec.messages = Append(talk[c].messages, User(t))
  BY <1>1, <1>2, <1>3 DEF TalkRecord, TalkSteps
<1> HIDE DEF rec
<1>6. TraceTypes' /\ talk'[c] = rec /\ \A d \in Conversation \ {c} : talk'[d] = talk[d]
  BY <1>1, <1>4, <1>5, TalkGoesTo DEF TraceTypes
<1>7. rec.messages = Dialogue(results[c], 2 * t - 1)
  BY <1>1, <1>5, DialogueGoesOn DEF Prepare, TalkFits, RequestsFit
<1>8. LinkFits(c)'
  BY <1>1, <1>4, <1>5, <1>6 DEF Prepare, TalkFits, LinkFits, link
<1>9. TalkFits(c)'
  <2>1. ResultsFit(c)'
    BY <1>1, <1>4, <1>5, <1>6 DEF Prepare, TalkFits, ResultsFit, TurnCount
  <2>2. RequestsFit(c)'
    BY <1>1, <1>4, <1>5, <1>6, <1>7 DEF Prepare, TalkFits, RequestsFit
  <2>3. FailuresExplained(c)' /\ talk'[c].turn \in 1 .. TurnCount /\ TurnCount' = TurnCount
    BY <1>1, <1>4, <1>5, <1>6 DEF TalkFits, FailuresExplained, TurnCount
  <2> QED
    BY <1>8, <2>1, <2>2, <2>3 DEF TalkFits
<1>10. InPool' \subseteq InPool
  BY <1>4, <1>5, <1>6 DEF Prepare, InPool
<1> QED
  BY <1>4, <1>6, <1>9, <1>10, PoolMoves, TalkMoves

\* The request of the turn is the conversation's beginning, sent once.
LEMMA RequestSent ==
  ASSUME TraceInv, NEW c \in Conversation, talk[c].pc = "queued",
         requests' = [requests EXCEPT ![c] = Append(@, talk[c].messages)]
  PROVE  /\ requests' \in [Conversation -> Seq(Seq(Message))]
         /\ \A d \in Conversation \ {c} : requests'[d] = requests[d]
         /\ Len(requests'[c]) = talk[c].turn
         /\ \A i \in DOMAIN requests'[c] : requests'[c][i] = Dialogue(results[c], 2 * i - 1)
<1>1. /\ talk[c].turn \in Nat \ {0} /\ talk[c].messages \in Seq(Message)
      /\ TalkFits(c) /\ TraceTypes /\ requests[c] \in Seq(Seq(Message))
  BY TalkIs
<1>2. /\ Append(requests[c], talk[c].messages) \in Seq(Seq(Message))
      /\ Len(Append(requests[c], talk[c].messages)) = Len(requests[c]) + 1
      /\ \A i \in 1 .. Len(requests[c]) : Append(requests[c], talk[c].messages)[i] = requests[c][i]
      /\ Append(requests[c], talk[c].messages)[Len(requests[c]) + 1] = talk[c].messages
  BY <1>1, AppendProperties
<1>3. requests'[c] = Append(requests[c], talk[c].messages)
  BY <1>1 DEF TraceTypes
<1>4. /\ Len(requests[c]) = talk[c].turn - 1
      /\ \A i \in DOMAIN requests[c] : requests[c][i] = Dialogue(results[c], 2 * i - 1)
      /\ talk[c].messages = Dialogue(results[c], 2 * talk[c].turn - 1)
  BY <1>1 DEF TalkFits, RequestsFit
<1>5. DOMAIN requests[c] = 1 .. talk[c].turn - 1 /\ DOMAIN requests'[c] = 1 .. talk[c].turn
  BY <1>1, <1>2, <1>3, <1>4, LenProperties
<1>6. \A i \in DOMAIN requests'[c] : requests'[c][i] = Dialogue(results[c], 2 * i - 1)
  <2> SUFFICES ASSUME NEW i \in 1 .. talk[c].turn PROVE requests'[c][i] = Dialogue(results[c], 2 * i - 1)
    BY <1>5
  <2>1. CASE i = talk[c].turn
    BY <1>1, <1>2, <1>3, <1>4, <2>1
  <2>2. CASE i # talk[c].turn
    <3>1. i \in 1 .. Len(requests[c]) /\ i \in DOMAIN requests[c]
      BY <1>1, <1>4, <1>5, <2>2
    <3> QED
      BY <1>2, <1>3, <1>4, <3>1
  <2> QED
    BY <2>1, <2>2
<1>7. requests' \in [Conversation -> Seq(Seq(Message))] /\ \A d \in Conversation \ {c} : requests'[d] = requests[d]
  BY <1>1, <1>2 DEF TraceTypes
<1> QED
  BY <1>1, <1>2, <1>3, <1>4, <1>6, <1>7

\* A step of an answer: the turn's request has been sent and no result is there yet.
LEMMA AnswerMoves ==
  ASSUME TraceInv, NEW c \in Conversation, talk[c].pc \in {"queued", "streaming"},
         NEW rec \in TalkRecord, talk' = [talk EXCEPT ![c] = rec],
         rec.pc \in {"streaming", "generated"}, rec.turn = talk[c].turn,
         rec.messages = talk[c].messages, rec.link = talk[c].link,
         UNCHANGED <<mode, results, faults>>, requests' \in [Conversation -> Seq(Seq(Message))],
         \A d \in Conversation \ {c} : requests'[d] = requests[d],
         Len(requests'[c]) = talk[c].turn,
         \A i \in DOMAIN requests'[c] : requests'[c][i] = Dialogue(results[c], 2 * i - 1),
         PoolFits'
  PROVE  TraceInv'
<1>1. TalkFits(c) /\ TraceTypes
  BY TalkIs
<1>2. TraceTypes' /\ talk'[c] = rec /\ \A d \in Conversation \ {c} : talk'[d] = talk[d]
  BY <1>1, TalkGoesTo
<1>3. ResultsFit(c)' /\ LinkFits(c)'
  BY <1>1, <1>2 DEF TalkFits, ResultsFit, LinkFits, TurnCount
<1>4. RequestsFit(c)'
  BY <1>1, <1>2 DEF TalkFits, RequestsFit
<1>5. FailuresExplained(c)' /\ talk'[c].turn \in 1 .. TurnCount /\ TurnCount' = TurnCount
  BY <1>1, <1>2 DEF TalkFits, FailuresExplained, TurnCount
<1>6. TalkFits(c)'
  BY <1>3, <1>4, <1>5 DEF TalkFits
<1> QED
  BY <1>2, <1>6, TalkMoves

\* The same when it goes on, and no request is sent.
LEMMA StreamMoves ==
  ASSUME TraceInv, NEW c \in Conversation, talk[c].pc = "streaming",
         NEW rec \in TalkRecord, talk' = [talk EXCEPT ![c] = rec], rec.pc = "streaming",
         rec.turn = talk[c].turn, rec.messages = talk[c].messages, rec.link = talk[c].link,
         UNCHANGED <<mode, results, requests, faults>>
  PROVE  TraceInv'
<1>1. TalkFits(c) /\ TraceTypes
  BY TalkIs
<1>2. /\ Len(requests[c]) = talk[c].turn
      /\ \A i \in DOMAIN requests[c] : requests[c][i] = Dialogue(results[c], 2 * i - 1)
      /\ requests' \in [Conversation -> Seq(Seq(Message))]
  BY <1>1 DEF TalkFits, RequestsFit, TraceTypes
<1>3. InPool' \subseteq InPool
  BY <1>1 DEF InPool, TraceTypes
<1> QED
  BY <1>2, <1>3, PoolMoves, AnswerMoves

\* A token that is read.
LEMMA ReadTokenKeeps ==
  ASSUME TraceInv, NEW c \in Conversation, ReadToken(c)
  PROVE  TraceInv'
<1> DEFINE rec == [talk[c] EXCEPT !.got = @ + 1]
<1>1. talk[c] \in TalkRecord /\ talk[c].got \in Nat /\ TraceTypes
  BY TalkIs
<1>2. talk' = [talk EXCEPT ![c] = rec]
  BY <1>1 DEF ReadToken, TraceTypes
<1>3. /\ rec \in TalkRecord /\ rec.pc = talk[c].pc /\ rec.turn = talk[c].turn
      /\ rec.messages = talk[c].messages /\ rec.link = talk[c].link
  BY <1>1 DEF TalkRecord
<1> HIDE DEF rec
<1> QED
  BY <1>2, <1>3, StreamMoves DEF ReadToken

\* The usage that is read.
LEMMA ReadUsageKeeps ==
  ASSUME TraceInv, NEW c \in Conversation, ReadUsage(c)
  PROVE  TraceInv'
<1>1. talk[c] \in TalkRecord /\ talk[c].got \in Nat /\ TraceTypes
  BY TalkIs
<1>2. PICK n \in talk[c].got .. MaxTokens : talk' = [talk EXCEPT ![c].usage = n]
  BY DEF ReadUsage
<1> DEFINE rec == [talk[c] EXCEPT !.usage = n]
<1>3. talk' = [talk EXCEPT ![c] = rec] /\ n \in Nat
  BY <1>1, <1>2, TraceAssumption DEF TraceTypes
<1>4. /\ rec \in TalkRecord /\ rec.pc = talk[c].pc /\ rec.turn = talk[c].turn
      /\ rec.messages = talk[c].messages /\ rec.link = talk[c].link
  BY <1>1, <1>3 DEF TalkRecord
<1> HIDE DEF rec
<1> QED
  BY <1>3, <1>4, StreamMoves DEF ReadUsage

\* The n turns that a failed one takes along, and the results with them.
Rest(t, n) == [i \in 1 .. n |-> Skipped(t + i)]
After(rs, result, t, n) == Append(rs, result) \o Rest(t, n)
GoesOn(qs, rs, result, t, n) ==
  /\ qs \in Seq(Result) /\ Len(qs) = t + n
  /\ \A i \in 1 .. t - 1 : qs[i] = rs[i]
  /\ qs[t] = result
  /\ \A i \in t + 1 .. t + n : qs[i] = Skipped(i)

\* The results after a turn: its own, and the rest skipped if it failed.
LEMMA ResultsGoOn ==
  ASSUME NEW rs \in Seq(Result), NEW t \in Nat \ {0}, Len(rs) = t - 1, NEW result \in Result,
         NEW n \in Nat
  PROVE  GoesOn(After(rs, result, t, n), rs, result, t, n)
<1> DEFINE rest == Rest(t, n)
           more == Append(rs, result)
<1>1. /\ more \in Seq(Result) /\ Len(more) = t /\ more[t] = result
      /\ \A i \in 1 .. t - 1 : more[i] = rs[i]
  BY AppendProperties
<1>2. rest \in Seq(Result) /\ Len(rest) = n /\ \A i \in 1 .. n : rest[i] = Skipped(t + i)
  <2>1. \A i \in 1 .. n : Skipped(t + i) \in Result
    BY DEF Skipped, Result
  <2>2. rest \in [1 .. n -> Result] /\ \A i \in 1 .. n : rest[i] = Skipped(t + i)
    BY <2>1 DEF Rest
  <2> HIDE DEF rest
  <2>3. rest \in Seq(Result)
    BY <2>2, SeqDef
  <2> QED
    BY <2>2, <2>3, LenProperties
<1> HIDE DEF rest, more
<1>3. /\ more \o rest \in Seq(Result) /\ Len(more \o rest) = Len(more) + Len(rest)
      /\ \A i \in 1 .. Len(more) + Len(rest) :
           (more \o rest)[i] = IF i <= Len(more) THEN more[i] ELSE rest[i - Len(more)]
  BY <1>1, <1>2, ConcatProperties
<1>4. \A i \in 1 .. t : (more \o rest)[i] = more[i]
  BY <1>1, <1>2, <1>3
<1>5. ASSUME NEW i \in t + 1 .. t + n PROVE (more \o rest)[i] = Skipped(i)
  <2>1. i \in 1 .. Len(more) + Len(rest) /\ ~(i <= Len(more)) /\ i - t \in 1 .. n /\ t + (i - t) = i
    BY <1>1, <1>2, <1>5
  <2> QED
    BY <1>1, <1>2, <1>3, <2>1
<1>6. /\ more \o rest \in Seq(Result) /\ Len(more \o rest) = t + n
      /\ \A i \in 1 .. t - 1 : (more \o rest)[i] = rs[i]
      /\ (more \o rest)[t] = result
      /\ \A i \in t + 1 .. t + n : (more \o rest)[i] = Skipped(i)
  BY <1>1, <1>2, <1>3, <1>4, <1>5
<1> QED
  BY <1>6 DEF GoesOn, After, more, rest

\* A turn ends: its answer joins the messages, or the conversation is over.
LEMMA FinishKeeps ==
  ASSUME TraceInv, NEW c \in Conversation, talk[c].pc \in {"queued", "streaming", "generated"},
         NEW ok \in BOOLEAN, NEW link \in {"usable", "unread"}, Finish(c, ok, link), mode' = mode,
         requests' \in [Conversation -> Seq(Seq(Message))],
         \A d \in Conversation \ {c} : requests'[d] = requests[d],
         Len(requests'[c]) = talk[c].turn,
         \A i \in DOMAIN requests'[c] : requests'[c][i] = Dialogue(results[c], 2 * i - 1),
         faults \subseteq faults', link = "unread" => mode.chunked,
         ~ok => \/ <<c, talk[c].turn>> \in faults'
                \/ mode.reuse /\ mode.chunked /\ talk[c].turn > 1
  PROVE  TraceInv'
<1> DEFINE t == talk[c].turn
           rs == results[c]
           qs == results'[c]
           result == [turn |-> t, outcome |-> IF ok THEN "ok" ELSE "failed", tokens |-> talk[c].got]
           n == IF ok THEN 0 ELSE TurnCount - t
           goesOn == ok /\ t < TurnCount
           said == IF ok THEN Append(talk[c].messages, Assistant(t, talk[c].got)) ELSE talk[c].messages
           pc == IF goesOn THEN "ready" ELSE "done"
           next == IF goesOn THEN t + 1 ELSE t
           rec == [talk[c] EXCEPT !.pc = pc, !.turn = next,
                                  !.messages = said, !.link = link, !.got = 0, !.usage = 0]
<1>1. /\ talk[c] \in TalkRecord /\ t \in Nat \ {0} /\ talk[c].messages \in Seq(Message)
      /\ TalkFits(c) /\ TraceTypes /\ talk[c].got \in Nat /\ rs \in Seq(Result)
      /\ TurnCount \in Nat \ {0}
  BY TalkIs
<1>2. /\ t <= TurnCount /\ Len(rs) = t - 1 /\ DOMAIN rs = 1 .. t - 1
      /\ talk[c].messages = Dialogue(rs, 2 * t - 1)
  <2>1. t <= TurnCount /\ ResultsFit(c) /\ RequestsFit(c)
    BY <1>1 DEF TalkFits
  <2>2. Len(rs) = t - 1 /\ talk[c].messages = Dialogue(rs, 2 * t - 1)
    BY <2>1 DEF ResultsFit, RequestsFit
  <2> QED
    BY <1>1, <2>1, <2>2, LenProperties
<1>3. result \in Result /\ result.turn = t /\ result.tokens = talk[c].got
      /\ result.outcome = IF ok THEN "ok" ELSE "failed"
  BY <1>1 DEF Result
<1>4. qs = After(rs, result, t, n)
  <2>1. (IF ok THEN <<>> ELSE [i \in 1 .. TurnCount - t |-> Skipped(t + i)]) = Rest(t, n)
    <3>1. ok => Rest(t, n) = <<>>
      BY DEF Rest
    <3> QED
      BY <3>1 DEF Rest
  <2> QED
    BY <1>1, <2>1 DEF Finish, TraceTypes, After
<1>5. talk' = [talk EXCEPT ![c] = rec]
  BY <1>1 DEF Finish, TraceTypes
<1>6. \A d \in Conversation \ {c} : results'[d] = results[d]
  BY <1>1 DEF Finish, TraceTypes
<1> HIDE DEF result
<1>23. n \in Nat /\ t + n = (IF ok THEN t ELSE TurnCount)
  <2>1. ok => n = 0
    OBVIOUS
  <2>2. ~ok => n = TurnCount - t
    OBVIOUS
  <2> HIDE DEF n
  <2> QED
    BY <1>1, <1>2, <2>1, <2>2
<1>24. GoesOn(qs, rs, result, t, n)
  <2>1. t \in Nat \ {0} /\ rs \in Seq(Result) /\ Len(rs) = t - 1 /\ n \in Nat /\ result \in Result
    BY <1>1, <1>2, <1>3, <1>23
  <2> HIDE DEF t, rs, qs, n
  <2> QED
    BY <1>4, <2>1, ResultsGoOn
<1>7. /\ qs \in Seq(Result) /\ Len(qs) = (IF ok THEN t ELSE TurnCount)
      /\ \A i \in 1 .. t - 1 : qs[i] = rs[i]
      /\ qs[t] = result
      /\ ~ok => \A i \in t + 1 .. TurnCount : qs[i] = Skipped(i)
  <2> HIDE DEF t, rs, qs, n
  <2> QED
    BY <1>23, <1>24 DEF GoesOn
<1>25. SameBefore(rs, qs, t)
  BY <1>7 DEF SameBefore
<1>8. results' \in [Conversation -> Seq(Result)]
  <2>1. \E x : results' = [results EXCEPT ![c] = x]
    BY DEF Finish
  <2> QED
    BY <1>1, <1>7, <2>1 DEF TraceTypes
<1> HIDE DEF qs
<1>9. said \in Seq(Message)
  <2>1. Assistant(t, talk[c].got) \in Message
    BY <1>1 DEF Assistant, Message
  <2> QED
    BY <1>1, <2>1, AppendProperties
<1>10. ok => said = Dialogue(qs, 2 * t)
  <2> SUFFICES ASSUME ok PROVE said = Dialogue(qs, 2 * t)
    OBVIOUS
  <2>1. Dialogue(rs, 2 * t - 1) = Dialogue(qs, 2 * t - 1)
    <3>1. t \in 1 .. t
      BY <1>1
    <3> QED
      BY <1>1, <1>25, <3>1, DialogueSame
  <2>2. said = Append(Dialogue(qs, 2 * t - 1), Assistant(t, qs[t].tokens))
    BY <1>2, <1>3, <1>7, <2>1
  <2> QED
    BY <1>1, <2>2, DialogueGoesOn
<1> HIDE DEF said
<1>21. pc \in TalkSteps /\ next \in Nat
  BY <1>1 DEF TalkSteps
<1> HIDE DEF pc, next
<1>22. /\ rec \in TalkRecord /\ rec.pc = pc /\ rec.turn = next
       /\ rec.messages = said /\ rec.link = link
  BY <1>1, <1>9, <1>21 DEF TalkRecord
<1>11. /\ rec \in TalkRecord /\ rec.pc = IF goesOn THEN "ready" ELSE "done"
       /\ rec.turn = IF goesOn THEN t + 1 ELSE t
       /\ rec.messages = said /\ rec.link = link
  BY <1>22 DEF pc, next
<1> HIDE DEF rec
<1>12. talk'[c] = rec /\ (\A d \in Conversation \ {c} : talk'[d] = talk[d]) /\ TraceTypes'
  BY <1>1, <1>5, <1>8, <1>11 DEF TraceTypes
<1>13. DOMAIN qs = 1 .. (IF ok THEN t ELSE TurnCount)
  BY <1>1, <1>7, LenProperties
<1>14. \A i \in DOMAIN qs : qs[i].turn = i
  <2>1. \A i \in 1 .. t - 1 : rs[i].turn = i
    BY <1>1, <1>2 DEF TalkFits, ResultsFit
  <2>2. \A i : Skipped(i).turn = i
    BY DEF Skipped
  <2> SUFFICES ASSUME NEW i \in DOMAIN qs PROVE qs[i].turn = i
    OBVIOUS
  <2>3. CASE i \in 1 .. t - 1
    BY <1>7, <2>1, <2>3
  <2>4. CASE i = t
    BY <1>3, <1>7, <2>4
  <2>5. CASE i \in t + 1 .. TurnCount /\ ~ok
    BY <1>7, <2>2, <2>5
  <2> QED
    BY <1>1, <1>2, <1>13, <2>3, <2>4, <2>5
<1>15. ResultsFit(c)'
  <2>1. \A i \in 1 .. t - 1 : qs[i].outcome = "ok"
    BY <1>1, <1>7 DEF TalkFits, ResultsFit
  <2>2. CASE goesOn
    <3>1. talk'[c].turn = t + 1 /\ talk'[c].pc = "ready" /\ Len(qs) = t /\ qs[t].outcome = "ok"
      BY <1>3, <1>7, <1>11, <1>12, <2>2
    <3>3. t + 1 - 1 = t /\ \A i \in 1 .. t : i \in 1 .. t - 1 \/ i = t
      BY <1>1
    <3>2. \A i \in 1 .. t : qs[i].outcome = "ok"
      BY <2>1, <3>1, <3>3
    <3>4. /\ \A i \in DOMAIN results'[c] : results'[c][i].turn = i
          /\ \A i \in 1 .. talk'[c].turn - 1 : results'[c][i].outcome = "ok"
          /\ Len(results'[c]) = talk'[c].turn - 1 /\ talk'[c].pc # "done"
      <4>1. talk'[c].turn - 1 = t
        BY <3>1, <3>3
      <4>2. Len(results'[c]) = talk'[c].turn - 1
        BY <3>1, <4>1 DEF qs
      <4>3. \A i \in 1 .. talk'[c].turn - 1 : results'[c][i].outcome = "ok"
        BY <3>2, <4>1 DEF qs
      <4> QED
        BY <1>14, <3>1, <4>2, <4>3 DEF qs
    <3> QED
      BY <3>4 DEF ResultsFit
  <2>3. CASE ~goesOn
    <3>1. Len(qs) = TurnCount /\ TurnCount' = TurnCount
      BY <1>1, <1>2, <1>7, <2>3 DEF TurnCount
    <3>2. ~ok => \A i \in t + 1 .. TurnCount : qs[i].outcome = "skipped"
      <4>1. \A i : Skipped(i).outcome = "skipped"
        BY DEF Skipped
      <4> QED
        BY <1>7, <4>1
    <3>3. ok => t = TurnCount
      BY <1>1, <1>2, <2>3
    <3>4. \A i \in t + 1 .. TurnCount : qs[i].outcome = "skipped"
      BY <1>1, <3>2, <3>3
    <3> QED
      BY <1>1, <1>3, <1>7, <1>11, <1>12, <1>14, <2>1, <2>3, <3>1, <3>3, <3>4 DEF ResultsFit, qs
  <2> QED
    BY <2>2, <2>3
<1>16. RequestsFit(c)'
  <2>1. DOMAIN requests'[c] = 1 .. t
    BY <1>1, LenProperties
  <2>2. ASSUME NEW i \in 1 .. t PROVE requests'[c][i] = Dialogue(qs, 2 * i - 1)
    <3>2. Dialogue(rs, 2 * i - 1) = Dialogue(qs, 2 * i - 1)
      BY <1>1, <1>25, DialogueSame
    <3> QED
      BY <2>1, <3>2
  <2>3. goesOn => rec.turn - 1 = t /\ said = Dialogue(qs, 2 * (rec.turn - 1))
    BY <1>1, <1>10, <1>11
  <2> QED
    BY <1>1, <1>11, <1>12, <2>1, <2>2, <2>3 DEF RequestsFit, qs
<1>17. LinkFits(c)'
  BY <1>1, <1>11, <1>12 DEF LinkFits
<1>18. FailuresExplained(c)'
  <2> SUFFICES ASSUME NEW i \in DOMAIN qs, qs[i].outcome = "failed"
               PROVE  <<c, i>> \in faults' \/ (mode.reuse /\ mode.chunked /\ i > 1)
    BY DEF FailuresExplained, qs
  <2>1. CASE i \in 1 .. t - 1
    BY <1>1, <1>2, <1>7, <2>1 DEF TalkFits, FailuresExplained
  <2>2. CASE i = t
    BY <1>3, <1>7, <2>2
  <2>3. CASE i \in t + 1 .. TurnCount
    <3>1. \A j : Skipped(j).outcome = "skipped"
      BY DEF Skipped
    <3>2. ~ok
      BY <1>1, <1>13, <2>3
    <3> QED
      BY <1>7, <2>3, <3>1, <3>2
  <2> QED
    BY <1>1, <1>2, <1>13, <2>1, <2>2, <2>3
<1>19. TalkFits(c)'
  <2>1. talk'[c].turn \in 1 .. TurnCount /\ TurnCount' = TurnCount
    <3>1. TurnCount' = TurnCount
      BY DEF TurnCount
    <3> QED
      BY <1>1, <1>2, <1>11, <1>12, <3>1
  <2> QED
    BY <1>15, <1>16, <1>17, <1>18, <2>1 DEF TalkFits
<1>20. InPool' \subseteq InPool
  BY <1>11, <1>12 DEF InPool
<1> QED
  BY <1>6, <1>12, <1>19, <1>20, PoolMoves, TalkMoves

\* The request of the turn is sent; on a link with an unread response the turn fails.
LEMMA SendKeeps ==
  ASSUME TraceInv, NEW c \in Conversation, Send(c)
  PROVE  TraceInv'
<1>1. /\ talk[c] \in TalkRecord /\ TalkFits(c) /\ TraceTypes
      /\ talk[c].pc = "queued" /\ UNCHANGED <<mode, faults>>
      /\ requests' = [requests EXCEPT ![c] = Append(@, talk[c].messages)]
  BY TalkIs DEF Send
<1>2. /\ requests' \in [Conversation -> Seq(Seq(Message))]
      /\ \A d \in Conversation \ {c} : requests'[d] = requests[d]
      /\ Len(requests'[c]) = talk[c].turn
      /\ \A i \in DOMAIN requests'[c] : requests'[c][i] = Dialogue(results[c], 2 * i - 1)
  BY <1>1, RequestSent
<1>3. CASE talk[c].link = "unread"
  <2>1. mode.chunked /\ mode.reuse /\ talk[c].turn > 1 /\ Finish(c, FALSE, "usable")
    BY <1>1, <1>3 DEF Send, TalkFits, LinkFits
  <2> QED
    BY <1>1, <1>2, <2>1, FinishKeeps
<1>4. CASE talk[c].link # "unread"
  <2> DEFINE rec == [talk[c] EXCEPT !.pc = "streaming"]
  <2>1. talk' = [talk EXCEPT ![c] = rec] /\ UNCHANGED results
    BY <1>1, <1>4 DEF Send, TraceTypes
  <2>2. /\ rec \in TalkRecord /\ rec.pc = "streaming" /\ rec.turn = talk[c].turn
        /\ rec.messages = talk[c].messages /\ rec.link = talk[c].link
    BY <1>1 DEF TalkRecord, TalkSteps
  <2> HIDE DEF rec
  <2>3. talk'[c] = rec /\ \A d \in Conversation \ {c} : talk'[d] = talk[d]
    BY <1>1, <2>1 DEF TraceTypes
  <2>4. PoolFits'
    <3>1. CASE mode.client = "http"
      <4>1. InPool' \subseteq InPool \cup {c} /\ Cardinality(InPool) < Workers
        BY <1>1, <2>3, <3>1 DEF Send, InPool
      <4> QED
        BY <4>1, PoolMoves
    <3>2. CASE mode.client # "http"
      <4>1. InPool' \subseteq InPool
        BY <1>1, <2>3, <3>2 DEF InPool
      <4> QED
        BY <4>1, PoolMoves
    <3> QED
      BY <3>1, <3>2
  <2> QED
    BY <1>1, <1>2, <2>1, <2>2, <2>4, AnswerMoves
<1> QED
  BY <1>3, <1>4

\* An answer that ends, whichever way: a turn that then fails is the server's fault.
LEMMA AnswerEnds ==
  ASSUME TraceInv, NEW c \in Conversation, talk[c].pc \in {"streaming", "generated"},
         NEW ok \in BOOLEAN, NEW link \in {"usable", "unread"}, Finish(c, ok, link),
         link = "unread" => mode.chunked, faults \subseteq faults',
         ~ok => <<c, talk[c].turn>> \in faults', UNCHANGED <<mode, requests>>
  PROVE  TraceInv'
<1>1. TalkFits(c) /\ TraceTypes
  BY TalkIs
<1>2. /\ Len(requests[c]) = talk[c].turn
      /\ \A i \in DOMAIN requests[c] : requests[c][i] = Dialogue(results[c], 2 * i - 1)
      /\ requests' \in [Conversation -> Seq(Seq(Message))]
  BY <1>1 DEF TalkFits, RequestsFit, TraceTypes
<1> QED
  BY <1>2, FinishKeeps

\* The steps of an answer.
LEMMA AnswerStepsKeep ==
  ASSUME TraceInv, NEW c \in Conversation,
         ReadDone(c) \/ ReadEnd(c) \/ Breaks(c) \/ TimesOut(c) \/ Generated(c)
  PROVE  TraceInv'
<1>1. Succeeds(c) \in BOOLEAN
  BY DEF Succeeds
<1>2. CASE ReadDone(c)
  <2>1. PICK link \in {"usable", "unread"} :
          Finish(c, Succeeds(c), link) /\ (link = "unread" => mode.chunked)
    BY <1>2 DEF ReadDone
  <2> QED
    BY <1>1, <1>2, <2>1, AnswerEnds DEF ReadDone
<1>3. CASE ReadEnd(c)
  BY <1>1, <1>3, AnswerEnds DEF ReadEnd
<1>4. CASE Breaks(c)
  BY <1>4, AnswerEnds DEF Breaks
<1>5. CASE TimesOut(c)
  BY <1>5, AnswerEnds DEF TimesOut
<1>6. CASE Generated(c)
  BY <1>6, AnswerEnds DEF Generated
<1> QED
  BY <1>2, <1>3, <1>4, <1>5, <1>6

\* The local client generates its answer without a server.
LEMMA GenerateKeeps ==
  ASSUME TraceInv, NEW c \in Conversation, Generate(c)
  PROVE  TraceInv'
<1>1. /\ talk[c] \in TalkRecord /\ TalkFits(c) /\ TraceTypes
      /\ talk[c].pc = "queued" /\ mode' = mode /\ mode.client = "local"
      /\ requests' = [requests EXCEPT ![c] = Append(@, talk[c].messages)]
  BY TalkIs DEF Generate
<1>2. /\ requests' \in [Conversation -> Seq(Seq(Message))]
      /\ \A d \in Conversation \ {c} : requests'[d] = requests[d]
      /\ Len(requests'[c]) = talk[c].turn
      /\ \A i \in DOMAIN requests'[c] : requests'[c][i] = Dialogue(results[c], 2 * i - 1)
  BY <1>1, RequestSent
<1>3. CASE Finish(c, FALSE, "usable") /\ faults' = faults \cup {<<c, talk[c].turn>>}
  BY <1>1, <1>2, <1>3, FinishKeeps
<1>4. CASE /\ talk' = [talk EXCEPT ![c].pc = "generated", ![c].got = MaxTokens]
           /\ UNCHANGED <<results, faults>>
  <2> DEFINE rec == [talk[c] EXCEPT !.pc = "generated", !.got = MaxTokens]
  <2>1. talk' = [talk EXCEPT ![c] = rec]
    BY <1>1, <1>4 DEF TraceTypes
  <2>2. /\ rec \in TalkRecord /\ rec.pc = "generated" /\ rec.turn = talk[c].turn
        /\ rec.messages = talk[c].messages /\ rec.link = talk[c].link
    BY <1>1, TraceAssumption DEF TalkRecord, TalkSteps
  <2> HIDE DEF rec
  <2>3. talk'[c] = rec /\ \A d \in Conversation \ {c} : talk'[d] = talk[d]
    BY <1>1, <2>1 DEF TraceTypes
  <2>4. InPool' \subseteq InPool
    BY <1>1, <2>3 DEF InPool
  <2>5. PoolFits'
    BY <2>4, PoolMoves
  <2> QED
    BY <1>1, <1>2, <1>4, <2>1, <2>2, <2>5, AnswerMoves
<1> QED
  BY <1>3, <1>4 DEF Generate

\* Every step of a conversation keeps the invariant.
LEMMA TraceInvStays == TraceInv /\ (TraceNext \/ UNCHANGED traceVars) => TraceInv'
<1>1. ASSUME TraceInv, UNCHANGED traceVars PROVE TraceInv'
  <2>1. UNCHANGED <<mode, talk, results, requests, faults>>
    BY <1>1 DEF traceVars
  <2>2. TraceTypes' /\ PoolFits'
    BY <1>1, <2>1 DEF TraceInv, TraceTypes, PoolFits, InPool
  <2>3. ASSUME NEW c \in Conversation PROVE TalkFits(c)'
    <3>1. TalkFits(c)
      BY <1>1 DEF TraceInv
    <3> QED
      BY <2>1, <3>1 DEF TalkFits, ResultsFit, RequestsFit, LinkFits, FailuresExplained, TurnCount
  <2> QED
    BY <2>2, <2>3 DEF TraceInv
<1> QED
  BY <1>1, StartKeeps, PrepareKeeps, SendKeeps, ReadTokenKeeps, ReadUsageKeeps, AnswerStepsKeep,
     GenerateKeeps DEF TraceNext

\* The invariant says what a report rests on.
LEMMA TraceIsExact == TraceInv => TraceExact
<1> SUFFICES ASSUME TraceInv PROVE TraceExact
  OBVIOUS
<1>1. ASSUME NEW c \in Conversation PROVE OneResultPerTurn(c) /\ PromptsFaithful(c) /\ FailuresExplained(c)
  <2> DEFINE t == talk[c].turn
             rs == results[c]
  <2>1. /\ TalkFits(c) /\ rs \in Seq(Result) /\ requests[c] \in Seq(Seq(Message))
        /\ t \in Nat \ {0} /\ TurnCount \in Nat \ {0} /\ t <= TurnCount
    BY TalkIs DEF TalkFits
  <2>2. DOMAIN rs = 1 .. Len(rs) /\ Len(rs) \in Nat /\ DOMAIN requests[c] = 1 .. Len(requests[c])
    BY <2>1, LenProperties
  <2>3. ResultsFit(c) /\ RequestsFit(c)
    BY <2>1 DEF TalkFits
  <2>4. OneResultPerTurn(c)
    <3>1. /\ \A i \in DOMAIN rs : rs[i].turn = i
          /\ \A i \in 1 .. t - 1 : rs[i].outcome = "ok"
      BY <2>3 DEF ResultsFit
    <3>2. CASE talk[c].pc # "done"
      <4>1. Len(rs) = t - 1 /\ Len(rs) # TurnCount
        BY <2>1, <2>3, <3>2 DEF ResultsFit
      <4>2. \A i \in DOMAIN rs : rs[i].outcome = "ok"
        BY <2>2, <3>1, <4>1
      <4> QED
        BY <3>1, <3>2, <4>1, <4>2 DEF OneResultPerTurn
    <3>3. CASE talk[c].pc = "done"
      <4>1. /\ Len(rs) = TurnCount /\ rs[t].outcome # "skipped"
            /\ rs[t].outcome = "ok" => t = TurnCount
            /\ \A i \in t + 1 .. TurnCount : rs[i].outcome = "skipped"
        BY <2>3, <3>3 DEF ResultsFit
      <4>2. ASSUME NEW i \in DOMAIN rs, NEW j \in DOMAIN rs, i < j
            PROVE  /\ rs[j].outcome # "skipped" => rs[i].outcome = "ok"
                   /\ rs[j].outcome = "skipped" => rs[i].outcome # "ok" \/ i < j - 1
        <5>1. i \in 1 .. TurnCount /\ j \in 1 .. TurnCount
          BY <2>2, <4>1
        <5>2. CASE j <= t
          <6>1. i \in 1 .. t - 1
            BY <2>1, <4>2, <5>1, <5>2
          <6>2. rs[i].outcome = "ok"
            BY <3>1, <6>1
          <6>3. rs[j].outcome # "skipped"
            <7>1. j \in 1 .. t - 1 \/ j = t
              BY <2>1, <5>1, <5>2
            <7> QED
              BY <3>1, <4>1, <7>1
          <6> QED
            BY <6>2, <6>3
        <5>3. CASE j > t
          <6>1. j \in t + 1 .. TurnCount /\ t # TurnCount
            BY <2>1, <5>1, <5>3
          <6>2. rs[j].outcome = "skipped" /\ rs[t].outcome # "ok"
            BY <4>1, <6>1
          <6>3. CASE i < t
            BY <2>1, <5>1, <5>3, <6>2, <6>3
          <6>4. CASE i = t
            BY <6>2, <6>4
          <6>5. CASE i > t
            <7>1. i \in t + 1 .. TurnCount
              BY <2>1, <5>1, <6>5
            <7>2. rs[i].outcome = "skipped"
              BY <4>1, <7>1
            <7> QED
              BY <6>2, <7>2
          <6> QED
            BY <2>1, <5>1, <6>3, <6>4, <6>5
        <5> QED
          BY <2>1, <5>1, <5>2, <5>3
      <4> QED
        BY <3>1, <3>3, <4>1, <4>2 DEF OneResultPerTurn
    <3> QED
      BY <3>2, <3>3
  <2>5. PromptsFaithful(c)
    <3>1. ASSUME NEW i \in DOMAIN requests[c], i \in DOMAIN rs PROVE rs[i].outcome # "skipped"
      <4>1. i \in 1 .. t - 1 \/ i = t
        BY <2>1, <2>2, <2>3, <3>1 DEF RequestsFit
      <4>2. CASE i \in 1 .. t - 1
        BY <2>3, <4>2 DEF ResultsFit
      <4>3. CASE i = t
        <5>1. talk[c].pc = "done"
          BY <2>1, <2>2, <2>3, <3>1, <4>3 DEF ResultsFit
        <5> QED
          BY <2>3, <4>3, <5>1 DEF ResultsFit
      <4> QED
        BY <4>1, <4>2, <4>3
    <3>2. \A i \in DOMAIN requests[c] : requests[c][i] = Dialogue(rs, 2 * i - 1)
      BY <2>3 DEF RequestsFit
    <3> QED
      BY <3>1, <3>2 DEF PromptsFaithful, Dialogue, Said
  <2> QED
    BY <2>1, <2>4, <2>5 DEF TalkFits
<1> QED
  BY <1>1 DEF TraceExact, TraceInv, PoolFits
-----------------------------------------------------------------------------
(* A behaviour of one of the programs. *)

\* The invariants of all programs: the one of the behaviour keeps its own, and the
\* others stay where they are.
ProgramsInv == CaptureInv /\ TraceInv /\ HostInv /\ ServerInv /\ ReportInv /\ JobInv

\* Before the first step of any program its invariant holds.
LEMMA ProgramsInvStarts == ProgramsInit => ProgramsInv
  BY CaptureInvStarts, TraceInvStarts, HostInvStarts, ServerInvStarts, ReportInvStarts, JobInvStarts
     DEF ProgramsInit, ProgramsInv

\* A step is one of a single program, or of none.
LEMMA ProgramsInvStays == ProgramsInv /\ [ProgramsNext]_programVars => ProgramsInv'
<1> SUFFICES ASSUME ProgramsInv, [ProgramsNext]_programVars PROVE ProgramsInv'
  OBVIOUS
<1>1. /\ CaptureNext \/ UNCHANGED captureVars
      /\ TraceNext \/ UNCHANGED traceVars
      /\ HostNext \/ UNCHANGED hostVars
      /\ ServerNext \/ UNCHANGED serverVars
      /\ ReportNext \/ UNCHANGED reportVars
      /\ JobNext \/ UNCHANGED jobVars
  BY DEF ProgramsNext, programVars
<1> QED
  BY <1>1, CaptureInvStays, TraceInvStays, HostInvStays, ServerInvStays, ReportInvStays, JobInvStays
     DEF ProgramsInv

\* The invariants hold throughout.
LEMMA ProgramsKeepInv == ProgramsSpec => []ProgramsInv
  BY ProgramsInvStarts, ProgramsInvStays, PTL DEF ProgramsSpec

\* compile_fx: a compiled graph finds in its directory its own graph file and, under
\* the key of each static node, the tensor it was captured with, however the threads
\* of a process interleave and whenever a process dies, where one process has sealed.
THEOREM CapturedWeightsRight == ProgramsSpec => []GraphWeightsRight
<1>1. ProgramsInv => GraphWeightsRight
  BY WeightsAreRight DEF ProgramsInv
<1> QED
  BY <1>1, ProgramsKeepInv, PTL

\* compile_fx: a call is refused for another process's archive or for a tensor that
\* its own process has not sealed, and for nothing of its own making.
THEOREM CaptureRefusalsExplained == ProgramsSpec => []RefusalsExplained
<1>1. ProgramsInv => RefusalsExplained
  BY RefusalsAreExplained DEF ProgramsInv
<1> QED
  BY <1>1, ProgramsKeepInv, PTL

\* The trace clients: one result for each turn, prompts with the answers that were
\* given before, no failure of the client's own making but the known one, and no
\* more threads than workers.
THEOREM TracesAreExact == ProgramsSpec => []TraceExact
<1>1. ProgramsInv => TraceExact
  BY TraceIsExact DEF ProgramsInv
<1> QED
  BY <1>1, ProgramsKeepInv, PTL

\* The benchmarks and the serial jobs: a llama-cli is measured alone, a bench is
\* answered by its own server, and no job runs beside another, but for the races
\* that the three properties name.
THEOREM MeasurementsAreOwn == ProgramsSpec => []MeasurementsOwn
<1>1. ProgramsInv => MeasurementsOwn
  BY AloneWhenMeasured, AnsweredByOwn, JobsAreSerial DEF ProgramsInv, MeasurementsOwn
<1> QED
  BY <1>1, ProgramsKeepInv, PTL

\* The benchmark suite: the top-level result of an isolated run that nothing
\* overlapped rests on its own workers' files, whatever lay in the directory, and
\* says 0 only of workers that passed.
THEOREM ReportsAreFresh == ProgramsSpec => []CombinedFresh
<1>1. ProgramsInv => CombinedFresh
  BY CombinedIsFresh DEF ProgramsInv
<1> QED
  BY <1>1, ProgramsKeepInv, PTL
=============================================================================
