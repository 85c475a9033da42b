-------------------------- MODULE RingQueueProofs --------------------------
(***************************************************************************)
(* Proofs about RingQueue, for every capacity of the rings, every width of *)
(* the counters that the capacity divides and every depth of the pipeline. *)
(***************************************************************************)
EXTENDS RingQueue, SequenceTheorems, TLAPS

\* The remainder is the one number below the divisor that leaves a multiple.
LEMMA DivMod ==
  ASSUME NEW n \in Int, NEW d \in Nat \ {0}
  PROVE  n % d \in 0 .. d - 1 /\ \E q \in Int, r \in 0 .. d - 1 : r = n % d /\ n = q * d + r
<1>1. n \div d \in Int /\ n % d \in 0 .. d - 1
  OBVIOUS
<1>2. PICK q \in Int, r \in Int : q = n \div d /\ r = n % d
  BY <1>1
<1>3. n = q * d + r
  BY <1>2, SMTT(30)
<1> QED
  BY <1>1, <1>2, <1>3, Zenon

\* Sums of multiples.
LEMMA Distribute ==
  ASSUME NEW a \in Int, NEW b \in Int, NEW d \in Int, NEW r \in Int
  PROVE  a * d + r + b * d = (a + b) * d + r /\ a * d - b * d = (a - b) * d
  BY SMT

\* The remainder is the one number below the divisor that leaves a multiple.
LEMMA ModUnique ==
  ASSUME NEW n \in Int, NEW d \in Nat \ {0}, NEW q \in Int, NEW r \in 0 .. d - 1, n = q * d + r
  PROVE  n % d = r
  BY SMTT(30)

\* A number below the divisor is its own remainder.
LEMMA ModSmall ==
  ASSUME NEW d \in Nat \ {0}, NEW n \in 0 .. d - 1
  PROVE  n % d = n
<1>1. n = 0 * d + n
  OBVIOUS
<1> QED
  BY <1>1, ModUnique

\* Multiples of the divisor do not change the remainder.
LEMMA ModShift ==
  ASSUME NEW n \in Int, NEW d \in Nat \ {0}, NEW k \in Int
  PROVE  (n + k * d) % d = n % d
<1>1. PICK q \in Int, r \in 0 .. d - 1 : r = n % d /\ n = q * d + r
  BY DivMod
<1>2. r = n % d
  BY <1>1
<1>3. n = q * d + r
  BY <1>1
<1>4. n + k * d = (q + k) * d + r
  BY <1>3, Distribute
<1>5. n + k * d \in Int /\ q + k \in Int
  OBVIOUS
<1>6. (n + k * d) % d = r
  BY <1>4, <1>5, ModUnique
<1> QED
  BY <1>2, <1>6, Zenon

\* Two numbers less than d apart have different remainders.
LEMMA ModApart ==
  ASSUME NEW d \in Nat \ {0}, NEW m \in Int, NEW n \in Int, m < n, n - m < d
  PROVE  m % d # n % d
<1> SUFFICES ASSUME m % d = n % d PROVE FALSE
  OBVIOUS
<1>1. PICK p \in Int, r \in 0 .. d - 1 : r = m % d /\ m = p * d + r
  BY DivMod
<1>2. PICK q \in Int, s \in 0 .. d - 1 : s = n % d /\ n = q * d + s
  BY DivMod
<1>3. r = s
  BY <1>1, <1>2
<1>4. n - m = (q - p) * d
  BY <1>1, <1>2, <1>3, Distribute
<1>5. CASE q - p >= 1
  BY <1>4, <1>5
<1>6. CASE q - p <= 0
  BY <1>4, <1>6
<1> QED
  BY <1>5, <1>6
-----------------------------------------------------------------------------
\* The capacity divides the width of the counters, which is even.
LEMMA WidthIs ==
  /\ Wrap \in Nat \ {0} /\ Capacity \in Nat \ {0} /\ Wrap >= 2 * Capacity
  /\ \E k \in Nat : Wrap = k * (2 * Capacity)
<1>1. Wrap \in Nat \ {0} /\ Wrap \in Int /\ Capacity \in Nat \ {0} /\ 2 * Capacity \in Nat \ {0}
  BY CapacityAssumption, WrapAssumption
<1>0. PICK d \in Nat \ {0} : d = 2 * Capacity
  BY <1>1
<1>2. PICK k \in Int, r \in 0 .. d - 1 : r = Wrap % d /\ Wrap = k * d + r
  BY <1>1, DivMod
<1>3. k >= 1 /\ Wrap = k * (2 * Capacity)
  <2>0. r = 0
    BY <1>0, <1>2, WrapAssumption
  <2>1. Wrap = k * (2 * Capacity)
    BY <1>0, <1>1, <1>2, <2>0
  <2>2. CASE k <= 0
    BY <1>1, <2>1, <2>2
  <2> QED
    BY <2>1, <2>2
<1>4. Wrap >= 2 * Capacity
  BY <1>1, <1>3
<1> QED
  BY <1>1, <1>3, <1>4

\* The values of the counters.
LEMMA CounterIs == Counter = 0 .. Wrap - 1 /\ Counter \subseteq Nat
  BY WidthIs DEF Counter

\* Distance, without the remainder: uint32_t subtraction borrows at most once.
LEMMA DistanceIs ==
  ASSUME NEW m \in Counter, NEW n \in Counter
  PROVE  Distance(m, n) = IF m <= n THEN n - m ELSE n - m + Wrap
<1>1. Wrap \in Nat \ {0} /\ m \in 0 .. Wrap - 1 /\ n \in 0 .. Wrap - 1
  BY WidthIs, CounterIs
<1>2. CASE m <= n
  <2>1. n - m \in 0 .. Wrap - 1
    BY <1>1, <1>2
  <2> QED
    BY <1>1, <1>2, <2>1, ModSmall DEF Distance
<1>3. CASE ~(m <= n)
  <2>1. n - m + Wrap \in 0 .. Wrap - 1 /\ n - m = (-1) * Wrap + (n - m + Wrap) /\ n - m \in Int
    BY <1>1, <1>3
  <2>2. (n - m) % Wrap = n - m + Wrap
    BY <1>1, <2>1, ModUnique
  <2> QED
    BY <1>3, <2>2 DEF Distance
<1> QED
  BY <1>2, <1>3

\* Plus1, without the remainder.
LEMMA Plus1Is ==
  ASSUME NEW n \in Counter
  PROVE  Plus1(n) \in Counter /\ Plus1(n) = IF n = Wrap - 1 THEN 0 ELSE n + 1
<1>1. Wrap \in Nat \ {0} /\ n \in 0 .. Wrap - 1
  BY WidthIs, CounterIs
<1>2. CASE n = Wrap - 1
  <2>1. n + 1 = 1 * Wrap + 0 /\ 0 \in 0 .. Wrap - 1 /\ n + 1 \in Int
    BY <1>1, <1>2
  <2>2. (n + 1) % Wrap = 0
    BY <1>1, <2>1, ModUnique
  <2> QED
    BY <1>1, <1>2, <2>2, CounterIs DEF Plus1
<1>3. CASE n # Wrap - 1
  <2>1. n + 1 \in 0 .. Wrap - 1
    BY <1>1, <1>3
  <2> QED
    BY <1>1, <1>3, <2>1, ModSmall, CounterIs DEF Plus1
<1> QED
  BY <1>2, <1>3

\* The counter before this one, as the C code finds it by tail - 1.
Before(n) == (n - 1) % Wrap

\* Before, without the remainder.
LEMMA BeforeIs ==
  ASSUME NEW n \in Counter
  PROVE  Before(n) \in Counter /\ Before(n) = IF n = 0 THEN Wrap - 1 ELSE n - 1
<1>1. Wrap \in Nat \ {0} /\ n \in 0 .. Wrap - 1
  BY WidthIs, CounterIs
<1>2. CASE n = 0
  <2>1. n - 1 = (-1) * Wrap + (Wrap - 1) /\ Wrap - 1 \in 0 .. Wrap - 1 /\ n - 1 \in Int
    BY <1>1, <1>2
  <2>2. (n - 1) % Wrap = Wrap - 1
    BY <1>1, <2>1, ModUnique
  <2> QED
    BY <1>1, <1>2, <2>2, CounterIs DEF Before
<1>3. CASE n # 0
  <2>1. n - 1 \in 0 .. Wrap - 1
    BY <1>1, <1>3
  <2> QED
    BY <1>1, <1>3, <2>1, ModSmall, CounterIs DEF Before
<1> QED
  BY <1>2, <1>3

\* What the steps do to the distances between the counters.
LEMMA Distances ==
  /\ \A m, n \in Counter : Distance(m, n) \in 0 .. Wrap - 1
  /\ \A m, n \in Counter : Distance(m, n) = 0 <=> m = n
  /\ \A m, n \in Counter : Distance(m, n) < Wrap - 1 => Distance(m, Plus1(n)) = Distance(m, n) + 1
  /\ \A m, n \in Counter : m # n => Distance(Plus1(m), n) = Distance(m, n) - 1
  /\ \A n \in Counter : Before(Plus1(n)) = n
<1>0. Wrap \in Nat \ {0} /\ Counter = 0 .. Wrap - 1
  BY WidthIs, CounterIs
<1>1. ASSUME NEW m \in Counter, NEW n \in Counter
      PROVE  Distance(m, n) \in 0 .. Wrap - 1 /\ (Distance(m, n) = 0 <=> m = n)
  <2>1. Distance(m, n) = IF m <= n THEN n - m ELSE n - m + Wrap
    BY DistanceIs
  <2> QED
    BY <1>0, <2>1
<1>2. ASSUME NEW m \in Counter, NEW n \in Counter, Distance(m, n) < Wrap - 1
      PROVE  Distance(m, Plus1(n)) = Distance(m, n) + 1
  <2>1. Plus1(n) \in Counter /\ Plus1(n) = IF n = Wrap - 1 THEN 0 ELSE n + 1
    BY Plus1Is
  <2>2. PICK p \in Counter : p = Plus1(n)
    BY <2>1
  <2>3. /\ Distance(m, n) = IF m <= n THEN n - m ELSE n - m + Wrap
        /\ Distance(m, p) = IF m <= p THEN p - m ELSE p - m + Wrap
    BY DistanceIs
  <2> QED
    BY <1>0, <1>2, <2>1, <2>2, <2>3
<1>3. ASSUME NEW m \in Counter, NEW n \in Counter, m # n
      PROVE  Distance(Plus1(m), n) = Distance(m, n) - 1
  <2>1. Plus1(m) \in Counter /\ Plus1(m) = IF m = Wrap - 1 THEN 0 ELSE m + 1
    BY Plus1Is
  <2>2. PICK p \in Counter : p = Plus1(m)
    BY <2>1
  <2>3. /\ Distance(m, n) = IF m <= n THEN n - m ELSE n - m + Wrap
        /\ Distance(p, n) = IF p <= n THEN n - p ELSE n - p + Wrap
    BY DistanceIs
  <2> QED
    BY <1>0, <1>3, <2>1, <2>2, <2>3
<1>4. ASSUME NEW n \in Counter
      PROVE  Before(Plus1(n)) = n
  <2>1. Plus1(n) \in Counter /\ Plus1(n) = IF n = Wrap - 1 THEN 0 ELSE n + 1
    BY Plus1Is
  <2>2. Before(Plus1(n)) = IF Plus1(n) = 0 THEN Wrap - 1 ELSE Plus1(n) - 1
    BY <2>1, BeforeIs
  <2> QED
    BY <1>0, <2>1, <2>2
<1> QED
  BY <1>1, <1>2, <1>3, <1>4

\* Entries less than a capacity apart have places of their own in a ring.
LEMMA PlacesApart ==
  ASSUME NEW m \in Counter, NEW n \in Counter, m # n, Distance(m, n) < Capacity
  PROVE  Index(m) # Index(n)
<1>1. Wrap \in Nat \ {0} /\ m \in 0 .. Wrap - 1 /\ n \in 0 .. Wrap - 1 /\ Capacity \in Nat \ {0}
  BY WidthIs, CounterIs
<1>2. CASE m < n
  BY <1>1, <1>2, DistanceIs, ModApart DEF Index
<1>3. CASE n < m
  <2>1. PICK k \in Nat : Wrap = k * (2 * Capacity)
    BY WidthIs
  <2>2. (n + (2 * k) * Capacity) % Capacity = n % Capacity
    <3>1. n \in Int /\ 2 * k \in Int
      BY <1>1
    <3> QED
      BY <1>1, <3>1, ModShift
  <2>3. (2 * k) * Capacity = Wrap
    BY <1>1, <2>1
  <2>4. m < n + Wrap /\ (n + Wrap) - m < Capacity /\ n + Wrap \in Int
    BY <1>1, <1>3, DistanceIs
  <2>5. m % Capacity # (n + Wrap) % Capacity
    <3>1. m \in Int
      BY <1>1
    <3> QED
      BY <1>1, <2>4, <3>1, ModApart
  <2> QED
    BY <2>2, <2>3, <2>5 DEF Index
<1> QED
  BY <1>1, <1>2, <1>3

\* Every index falls into the ring, that of tail - 1 for tail = 0 too.
LEMMA IndexIn == \A n \in Int : Index(n) \in 0 .. Capacity - 1
  BY DivMod, WidthIs DEF Index

\* The two buffers are used in turn, also when the counters wrap.
LEMMA BuffersInTurn ==
  ASSUME NEW n \in Counter
  PROVE  SlotOf(n) \in 0 .. 1 /\ SlotOf(Before(n)) = Other(SlotOf(n))
<1>1. PICK k \in Nat : Wrap = k * (2 * Capacity)
  BY WidthIs
<1>2. Wrap = 2 * (k * Capacity) /\ k * Capacity \in Nat
  BY <1>1, WidthIs
<1>3. Wrap % 2 = 0
  BY <1>2
<1>4. n \in Nat /\ Wrap \in Nat \ {0} /\ Before(n) = IF n = 0 THEN Wrap - 1 ELSE n - 1
  BY WidthIs, CounterIs, BeforeIs
<1> QED
  BY <1>3, <1>4 DEF SlotOf, Other

\* tail - 1 names the place of the counter before tail, also when tail has
\* wrapped to 0.
LEMMA IndexBefore ==
  ASSUME NEW n \in Counter
  PROVE  Index(n - 1) = Index(Before(n))
<1>1. Wrap \in Nat \ {0} /\ n \in Nat /\ Capacity \in Nat \ {0}
  BY WidthIs, CounterIs
<1>2. CASE n # 0
  BY <1>2, BeforeIs
<1>3. CASE n = 0
  <2>1. PICK k \in Nat : Wrap = k * (2 * Capacity)
    BY WidthIs
  <2>2. (2 * k) * Capacity = Wrap
    BY <1>1, <2>1
  <2>3. (-1 + (2 * k) * Capacity) % Capacity = (-1) % Capacity
    <3>1. -1 \in Int /\ 2 * k \in Int
      OBVIOUS
    <3> QED
      BY <1>1, <3>1, ModShift
  <2>4. -1 + (2 * k) * Capacity = Wrap - 1
    BY <1>1, <2>2
  <2>5. Before(n) = Wrap - 1 /\ n - 1 = -1
    BY <1>3, BeforeIs
  <2> QED
    BY <2>3, <2>4, <2>5 DEF Index
<1> QED
  BY <1>2, <1>3

\* From one point of the circle, a distance names a counter and distances add up.
LEMMA DistanceApart ==
  ASSUME NEW h \in Counter, NEW m \in Counter, NEW n \in Counter
  PROVE  /\ Distance(h, m) = Distance(h, n) => m = n
         /\ Distance(h, m) <= Distance(h, n) => Distance(m, n) = Distance(h, n) - Distance(h, m)
<1>1. Wrap \in Nat \ {0} /\ h \in 0 .. Wrap - 1 /\ m \in 0 .. Wrap - 1 /\ n \in 0 .. Wrap - 1
  BY WidthIs, CounterIs
<1>2. /\ Distance(h, m) = IF h <= m THEN m - h ELSE m - h + Wrap
      /\ Distance(h, n) = IF h <= n THEN n - h ELSE n - h + Wrap
      /\ Distance(m, n) = IF m <= n THEN n - m ELSE n - m + Wrap
  BY DistanceIs
<1> QED
  BY <1>1, <1>2

\* What is in a ring after an entry was put into it, or taken from it.
LEMMA RingPut ==
  ASSUME NEW head \in Counter, NEW tail \in Counter, Distance(head, tail) < Capacity,
         NEW n \in Between(head, Plus1(tail))
  PROVE  n \in Counter /\ (n = tail \/ (n \in Between(head, tail) /\ Index(n) # Index(tail)))
<1>1. n \in Counter /\ Distance(head, n) < Distance(head, Plus1(tail))
  BY DEF Between
<1>2. Distance(head, Plus1(tail)) = Distance(head, tail) + 1
  <2>1. Distance(head, tail) < Wrap - 1
    <3>1. Capacity \in Nat \ {0} /\ Wrap \in Nat /\ Wrap >= 2 * Capacity
      BY WidthIs
    <3>2. Distance(head, tail) \in 0 .. Wrap - 1
      BY Distances
    <3> QED
      BY <3>1, <3>2
  <2> QED
    BY <2>1, Distances
<1>3. Distance(head, n) \in Nat /\ Distance(head, tail) \in Nat
  BY <1>1, Distances, WidthIs
<1>4. CASE Distance(head, n) = Distance(head, tail)
  BY <1>1, <1>4, DistanceApart
<1>5. CASE Distance(head, n) < Distance(head, tail)
  <2>1. Distance(n, tail) = Distance(head, tail) - Distance(head, n)
    BY <1>1, <1>3, <1>5, DistanceApart
  <2>2. Distance(n, tail) < Capacity /\ n # tail
    BY <1>3, <1>5, <2>1, WidthIs
  <2> QED
    BY <1>1, <1>5, <2>2, PlacesApart DEF Between
<1> QED
  BY <1>1, <1>2, <1>3, <1>4, <1>5

\* What is left in a ring when its first entry was taken.
LEMMA RingTake ==
  ASSUME NEW head \in Counter, NEW tail \in Counter, head # tail
  PROVE  Between(Plus1(head), tail) \subseteq Between(head, tail) /\ head \in Between(head, tail)
<1>1. Wrap \in Nat \ {0} /\ head \in 0 .. Wrap - 1 /\ tail \in 0 .. Wrap - 1
  BY WidthIs, CounterIs
<1>2. PICK p \in Counter : p = Plus1(head)
  BY Plus1Is
<1>3. p \in 0 .. Wrap - 1 /\ p = IF head = Wrap - 1 THEN 0 ELSE head + 1
  BY <1>2, Plus1Is, CounterIs
<1>4. ASSUME NEW n \in Counter, Distance(p, n) < Distance(p, tail)
      PROVE  Distance(head, n) < Distance(head, tail)
  <2>1. n \in 0 .. Wrap - 1
    BY CounterIs
  <2>2. /\ Distance(head, n) = IF head <= n THEN n - head ELSE n - head + Wrap
        /\ Distance(p, n) = IF p <= n THEN n - p ELSE n - p + Wrap
        /\ Distance(head, tail) = IF head <= tail THEN tail - head ELSE tail - head + Wrap
        /\ Distance(p, tail) = IF p <= tail THEN tail - p ELSE tail - p + Wrap
    BY DistanceIs
  <2> QED
    BY <1>1, <1>3, <1>4, <2>1, <2>2
<1>5. Distance(head, head) < Distance(head, tail)
  BY <1>1, Distances
<1> QED
  BY <1>2, <1>4, <1>5 DEF Between
-----------------------------------------------------------------------------
(* The inductive invariant.  Four counters go round one circle, collected <=  *)
(* completed <= taken <= submitted; what lies between the last two is what    *)
(* the worker has taken and not answered, and its place in the loop says how  *)
(* much that is.                                                              *)

Pipelined == ~(depth = 1 \/ Window[depth] = 1)

pc == worker.pc
prev == worker.prev
entry == worker.entry
then == worker.then

Waiting == Distance(sqHead, sqTail)
Taken == Distance(cqTail, sqHead)
Answered == Distance(cqHead, cqTail)

Looking == {"loop", "spin", "sleep", "asleep", "take"}
Completing == {"finish", "mirror", "publish"}

Entries == [id : Counter \cup {None}, chained : BOOLEAN]
Tokens == Counter \cup {None, Wrong, Garbage}
Places == 0 .. Capacity - 1

WorkerType ==
  worker \in [pc : Looking \cup Completing \cup {"commit", "signal", "drain", "exited"},
              entry : Entries, prev : Counter \cup {None}, answer : Tokens,
              then : {"loop", "sleep", "hold", "drain"}]

StateTypes ==
  /\ sqHead \in Counter /\ sqTail \in Counter /\ cqHead \in Counter /\ cqTail \in Counter
  /\ sq \in [Places -> Entries]
  /\ cq \in [Places -> [id : Counter \cup {None}, token : Tokens, ok : BOOLEAN]]
  /\ running \in BOOLEAN /\ depth \in Depths
  /\ device \in Seq([id : Counter, chained : BOOLEAN])
  /\ failed \subseteq Counter
  /\ tokenBuf \in [0 .. 1 -> Tokens] /\ outBuf \in [0 .. 1 -> Tokens]
  /\ client \in {"ready", "signal", "wait", "asleep", "collect", "broadcast", "join", "destroyed"}

\* The counters lie on the circle in this order, and no more apart than the window.
CountersInOrder ==
  /\ Answered + Taken + Waiting = Uncollected
  /\ Uncollected <= Window[depth]

\* How many the worker has taken and not answered, and which.
WorkerTook ==
  /\ pc \in Looking => Taken = IF prev = None THEN 0 ELSE 1
  /\ pc = "take" => sqHead # sqTail
  /\ pc = "commit" => /\ entry.id \in Counter /\ sqHead = Plus1(entry.id)
                      /\ IF prev = None THEN entry.id = cqTail /\ Taken = 1
                         ELSE entry.id = Plus1(cqTail) /\ Taken = 2
  /\ pc \in Completing => /\ prev # None
                          /\ then = "hold" => entry.id = Plus1(cqTail) /\ Taken = 2
                          /\ then \in {"loop", "sleep"} => Taken = 1
                          /\ then = "drain" => Taken >= 1
  /\ pc = "signal" => /\ prev # None /\ cqTail = Plus1(prev)
                      /\ then = "hold" => entry.id = cqTail /\ Taken = 1
                      /\ then \in {"loop", "sleep"} => Taken = 0
  /\ pc = "drain" /\ prev # None => Taken >= 1
  /\ pc = "exited" => prev = None
  /\ prev # None /\ pc # "signal" => prev = cqTail
  /\ depth = 1 => /\ pc \in Looking \cup {"commit"} => prev = None
                  /\ pc \in Completing \cup {"signal"} => then # "hold"

\* What the device can still have to execute.
AtMost(n) == Len(device) <= 1 /\ (Len(device) = 1 => device[1].id = n)

DeviceHas ==
  /\ pc \in Looking \cup {"commit", "drain", "exited"} =>
       IF prev = None THEN device = <<>> ELSE AtMost(prev)
  /\ pc = "finish" =>
       IF then = "hold" THEN \/ AtMost(entry.id)
                             \/ Len(device) = 2 /\ device[1].id = prev /\ device[2].id = entry.id
       ELSE AtMost(prev)
  /\ pc \in {"mirror", "publish", "signal"} =>
       IF then = "hold" THEN AtMost(entry.id) ELSE device = <<>>

SubmittedThere == \A n \in Between(sqHead, sqTail) : sq[Index(n)].id = n
CompletedThere == \A n \in Between(cqHead, cqTail) : cq[Index(n)].id = n

InOrder == /\ StateTypes /\ WorkerType /\ CountersInOrder /\ WorkerTook /\ DeviceHas
           /\ SubmittedThere /\ CompletedThere
counters == <<sqHead, sqTail, cqHead, cqTail>>
buffers == <<tokenBuf, outBuf>>

\* The steps that touch neither the rings nor the device: the worker may go on in
\* its loop.
Moves ==
  /\ UNCHANGED <<counters, sq, cq, depth, device, failed, buffers>>
  /\ UNCHANGED <<prev, entry, worker.answer>>
  /\ \/ UNCHANGED <<pc, then>>
     \/ pc \in Looking \ {"take"} /\ pc' \in Looking \ {"take"} /\ UNCHANGED then
     \/ pc \in Looking \ {"take"} /\ pc' = "take" /\ sqHead # sqTail /\ UNCHANGED then
     \/ pc = "loop" /\ pc' = "drain" /\ UNCHANGED then
     \/ pc = "spin" /\ prev # None /\ pc' = "finish" /\ then' = "sleep"
     \/ pc = "drain" /\ prev # None /\ pc' = "finish" /\ then' = "drain"
     \/ pc = "drain" /\ prev = None /\ pc' = "exited" /\ UNCHANGED then

Looks == Loop \/ Spin \/ Sleep \/ Drain
Talks == SubmitSignal \/ WaitCompletion \/ CheckCompletion \/ PollCompletion \/ Destroy
         \/ Broadcast \/ Join

Commands == [id : Counter, chained : BOOLEAN]

\* What Append, Head and Tail do to the device's queue.
LEMMA QueueFacts ==
  ASSUME NEW q \in Seq(Commands)
  PROVE  /\ Len(q) \in Nat /\ (q = <<>> <=> Len(q) = 0)
         /\ \A i \in 1 .. Len(q) : q[i] \in Commands
         /\ \A e \in Commands : /\ Append(q, e) \in Seq(Commands) /\ Len(Append(q, e)) = Len(q) + 1
                                /\ \A i \in 1 .. Len(q) : Append(q, e)[i] = q[i]
                                /\ Append(q, e)[Len(q) + 1] = e
         /\ q # <<>> => /\ Head(q) = q[1] /\ Tail(q) \in Seq(Commands) /\ Len(Tail(q)) = Len(q) - 1
                        /\ \A i \in 1 .. Len(q) - 1 : Tail(q)[i] = q[i + 1]
<1>1. Len(q) \in Nat /\ \A i \in 1 .. Len(q) : q[i] \in Commands
  OBVIOUS
<1>2. q = <<>> <=> Len(q) = 0
  BY EmptySeq, SMT
<1>3. ASSUME NEW e \in Commands
      PROVE  /\ Append(q, e) \in Seq(Commands) /\ Len(Append(q, e)) = Len(q) + 1
             /\ \A i \in 1 .. Len(q) : Append(q, e)[i] = q[i]
             /\ Append(q, e)[Len(q) + 1] = e
  OBVIOUS
<1>4. q # <<>> => /\ Head(q) = q[1] /\ Tail(q) \in Seq(Commands) /\ Len(Tail(q)) = Len(q) - 1
                  /\ \A i \in 1 .. Len(q) - 1 : Tail(q)[i] = q[i + 1]
  OBVIOUS
<1> QED
  BY <1>1, <1>2, <1>3, <1>4

\* A step of the worker that only moves its program counter.
LEMMA GoesTo ==
  ASSUME WorkerType, Goto(pc'), pc' \in Looking \cup Completing \cup {"commit", "signal", "drain", "exited"}
  PROVE  WorkerType' /\ UNCHANGED <<prev, entry, worker.answer, then>>
  BY DEF WorkerType, pc, prev, entry, then, Goto

\* The worker's steps that decide where to go next.
LEMMA LooksAreMoves ==
  ASSUME StateTypes, WorkerType, Looks
  PROVE  Moves /\ WorkerType' /\ StateTypes'
<1>1. UNCHANGED <<counters, sq, cq, depth, device, failed, buffers, running, client>>
  BY DEF Looks, Loop, Spin, Sleep, Drain, counters, buffers, workerOnly, rings
<1>2. StateTypes'
  BY <1>1 DEF StateTypes, counters, buffers
<1>3. CASE Loop
  <2>1. /\ pc = "loop" /\ pc' \in {"drain", "take", "spin"} /\ Goto(pc')
        /\ pc' = "take" => sqHead # sqTail
    BY <1>3 DEF Loop, At, Goto, pc, WorkerType
  <2>2. WorkerType' /\ UNCHANGED <<prev, entry, worker.answer, then>>
    BY <2>1, GoesTo DEF Looking
  <2> QED
    BY <1>1, <1>2, <2>1, <2>2 DEF Moves, Looking
<1>4. CASE Spin
  <2>1. pc = "spin" /\ \/ sqHead # sqTail /\ worker' = [worker EXCEPT !.pc = "take"]
                       \/ prev # None /\ worker' = [worker EXCEPT !.pc = "finish", !.then = "sleep"]
                       \/ worker' = [worker EXCEPT !.pc = "sleep"]
    BY <1>4 DEF Spin, At, Goto, pc, prev, Complete
  <2>2. CASE sqHead # sqTail /\ worker' = [worker EXCEPT !.pc = "take"]
    <3>1. WorkerType' /\ UNCHANGED <<prev, entry, worker.answer, then>> /\ pc' = "take"
      BY <2>2 DEF WorkerType, pc, prev, entry, then, Looking, Completing
    <3> QED
      BY <1>1, <1>2, <2>1, <2>2, <3>1 DEF Moves, Looking
  <2>3. CASE prev # None /\ worker' = [worker EXCEPT !.pc = "finish", !.then = "sleep"]
    <3>1. WorkerType' /\ UNCHANGED <<prev, entry, worker.answer>> /\ pc' = "finish" /\ then' = "sleep"
      BY <2>3 DEF WorkerType, pc, prev, entry, then, Looking, Completing
    <3> QED
      BY <1>1, <1>2, <2>1, <2>3, <3>1 DEF Moves
  <2>4. CASE worker' = [worker EXCEPT !.pc = "sleep"]
    <3>1. WorkerType' /\ UNCHANGED <<prev, entry, worker.answer, then>> /\ pc' = "sleep"
      BY <2>4 DEF WorkerType, pc, prev, entry, then, Looking, Completing
    <3> QED
      BY <1>1, <1>2, <2>1, <3>1 DEF Moves, Looking
  <2> QED
    BY <2>1, <2>2, <2>3, <2>4
<1>5. CASE Sleep
  <2>1. PICK to \in {"asleep", "loop"} : pc = "sleep" /\ worker' = [worker EXCEPT !.pc = to]
    BY <1>5 DEF Sleep, At, Goto, pc
  <2>2. WorkerType' /\ UNCHANGED <<prev, entry, worker.answer, then>> /\ pc' = to
    BY <2>1 DEF WorkerType, pc, prev, entry, then, Looking, Completing
  <2> QED
    BY <1>1, <1>2, <2>1, <2>2 DEF Moves, Looking
<1>6. CASE Drain
  <2>1. pc = "drain" /\ \/ prev # None /\ worker' = [worker EXCEPT !.pc = "finish", !.then = "drain"]
                        \/ prev = None /\ worker' = [worker EXCEPT !.pc = "exited"]
    BY <1>6 DEF Drain, At, pc, prev, Complete
  <2>2. CASE prev # None /\ worker' = [worker EXCEPT !.pc = "finish", !.then = "drain"]
    <3>1. WorkerType' /\ UNCHANGED <<prev, entry, worker.answer>> /\ pc' = "finish" /\ then' = "drain"
      BY <2>2 DEF WorkerType, pc, prev, entry, then, Looking, Completing
    <3> QED
      BY <1>1, <1>2, <2>1, <2>2, <3>1 DEF Moves
  <2>3. CASE prev = None /\ worker' = [worker EXCEPT !.pc = "exited"]
    <3>1. WorkerType' /\ UNCHANGED <<prev, entry, worker.answer, then>> /\ pc' = "exited"
      BY <2>3 DEF WorkerType, pc, prev, entry, then, Looking, Completing
    <3> QED
      BY <1>1, <1>2, <2>1, <2>3, <3>1 DEF Moves
  <2> QED
    BY <2>1, <2>2, <2>3
<1> QED
  BY <1>3, <1>4, <1>5, <1>6 DEF Looks

\* The client's steps that change no ring.
LEMMA TalksAreMoves ==
  ASSUME StateTypes, WorkerType, Talks
  PROVE  Moves /\ WorkerType' /\ StateTypes'
<1>1. /\ UNCHANGED <<counters, sq, cq, depth, device, failed, buffers>>
      /\ worker' = worker \/ worker' = Wake(worker)
  <2>1. ASSUME SubmitSignal \/ Broadcast
        PROVE  /\ UNCHANGED <<counters, sq, cq, depth, device, failed, buffers>>
               /\ worker' = worker \/ worker' = Wake(worker)
    BY <2>1 DEF SubmitSignal, Broadcast, counters, buffers, clientOnly
  <2>2. ASSUME WaitCompletion \/ CheckCompletion \/ PollCompletion \/ Destroy \/ Join
        PROVE  /\ UNCHANGED <<counters, sq, cq, depth, device, failed, buffers>>
               /\ worker' = worker \/ worker' = Wake(worker)
    BY <2>2 DEF WaitCompletion, CheckCompletion, PollCompletion, Destroy, Join, counters, buffers, clientOnly
  <2> QED
    BY <2>1, <2>2 DEF Talks
<1>2. /\ running' \in BOOLEAN
      /\ client' \in {"ready", "signal", "wait", "asleep", "collect", "broadcast", "join",
                       "destroyed"}
  BY DEF StateTypes, Talks, SubmitSignal, WaitCompletion, CheckCompletion, PollCompletion,
         Destroy, Broadcast, Join
<1>3. StateTypes'
  BY <1>1, <1>2 DEF StateTypes, counters, buffers
<1>4. CASE UNCHANGED worker
  BY <1>1, <1>3, <1>4 DEF Moves, WorkerType, pc, prev, entry, then
<1>5. CASE pc = "asleep" /\ worker' = [worker EXCEPT !.pc = "sleep"]
  <2>1. WorkerType' /\ UNCHANGED <<prev, entry, worker.answer, then>> /\ pc' = "sleep"
    BY <1>5 DEF WorkerType, pc, prev, entry, then, Looking, Completing
  <2> QED
    BY <1>1, <1>3, <1>5, <2>1 DEF Moves, Looking
<1> QED
  BY <1>1, <1>4, <1>5 DEF Wake, pc

\* A step that leaves the rings as they are.
LEMMA RingsStay ==
  ASSUME UNCHANGED <<counters, sq, cq, depth>>
  PROVE  /\ SubmittedThere /\ CompletedThere => (SubmittedThere /\ CompletedThere)'
         /\ CountersInOrder => CountersInOrder'
         /\ Taken' = Taken /\ Waiting' = Waiting
  BY DEF SubmittedThere, CompletedThere, CountersInOrder, Taken, Waiting, Answered,
         Uncollected, Between, counters

\* Such steps keep the invariant.
LEMMA MovesKeepOrder ==
  ASSUME InOrder, Moves, StateTypes', WorkerType'
  PROVE  InOrder'
<1>1. SubmittedThere' /\ CompletedThere' /\ CountersInOrder' /\ Taken' = Taken
  BY RingsStay DEF InOrder, Moves
<1>2. WorkerTook'
  <2>1. prev' = prev /\ entry' = entry /\ UNCHANGED <<sqHead, sqTail, cqTail, depth>>
    BY DEF Moves, counters
  <2>2. Taken \in Nat
    BY Distances, WidthIs DEF InOrder, StateTypes, Taken
  <2>3. CASE UNCHANGED <<pc, then>>
    BY <1>1, <2>1, <2>3 DEF InOrder, WorkerTook
  <2>4. CASE pc \in Looking /\ pc' \in Looking /\ (pc' = "take" => sqHead # sqTail)
    BY <1>1, <2>1, <2>4 DEF InOrder, WorkerTook, Looking, Completing
  <2>5. CASE pc = "loop" /\ pc' = "drain"
    BY <1>1, <2>1, <2>5 DEF InOrder, WorkerTook, Looking, Completing
  <2>6. CASE pc = "spin" /\ prev # None /\ pc' = "finish" /\ then' = "sleep"
    BY <1>1, <2>1, <2>6 DEF InOrder, WorkerTook, Looking, Completing
  <2>7. CASE pc = "drain" /\ prev # None /\ pc' = "finish" /\ then' = "drain"
    BY <1>1, <2>1, <2>7 DEF InOrder, WorkerTook, Looking, Completing
  <2>8. CASE pc = "drain" /\ prev = None /\ pc' = "exited"
    BY <1>1, <2>1, <2>8 DEF InOrder, WorkerTook, Looking, Completing
  <2> QED
    BY <2>3, <2>4, <2>5, <2>6, <2>7, <2>8 DEF Moves, Looking
<1>3. DeviceHas'
  <2>1. prev' = prev /\ entry' = entry /\ device' = device /\ DeviceHas
    BY DEF Moves, InOrder
  <2>2. \A n : AtMost(n)' = AtMost(n)
    BY <2>1 DEF AtMost
  <2> QED
    BY <2>1, <2>2 DEF DeviceHas, Moves, Looking, AtMost
<1> QED
  BY <1>1, <1>2, <1>3 DEF InOrder
-----------------------------------------------------------------------------
\* The client leaves no more uncollected than a ring holds: the completion ring
\* itself has no check for that.
WindowFits == \A d \in Depths : Window[d] <= Capacity

\* No ring holds more than its capacity, which is less than half the circle.
LEMMA Room ==
  ASSUME WindowFits, StateTypes, CountersInOrder
  PROVE  /\ Answered \in Nat /\ Taken \in Nat /\ Waiting \in Nat /\ Uncollected \in Nat
         /\ Answered + Taken + Waiting <= Capacity /\ Uncollected <= Capacity
         /\ Capacity \in Nat /\ Wrap \in Nat /\ Capacity <= Wrap - 1
<1>1. Answered \in Nat /\ Taken \in Nat /\ Waiting \in Nat /\ Uncollected \in Nat
  BY Distances, WidthIs DEF StateTypes, Answered, Taken, Waiting, Uncollected
<1>2. Window[depth] \in Nat /\ Window[depth] <= Capacity
  BY WindowAssumption DEF WindowFits, StateTypes
<1>3. Capacity \in Nat \ {0} /\ Wrap \in Nat /\ Wrap >= 2 * Capacity
  BY WidthIs
<1> QED
  BY <1>1, <1>2, <1>3 DEF CountersInOrder

\* Taking an entry, and what it leaves behind.
LEMMA TakeKeepsOrder ==
  ASSUME WindowFits, InOrder, Take
  PROVE  /\ InOrder' /\ pc = "take" /\ pc' \in {"commit", "drain"}
         /\ entry' = sq[Index(sqHead)] /\ entry'.id = sqHead
         /\ UNCHANGED <<sq, cqHead, cqTail, cq, depth, device, buffers, prev, then>>
<1> USE DEF InOrder
<1>1. /\ pc = "take" /\ sqHead' = Plus1(sqHead)
      /\ UNCHANGED <<sqTail, sq, cqHead, cqTail, cq, running, depth, device, failed, tokenBuf,
                     outBuf, client>>
  BY DEF Take, At, pc, workerOnly
<1>2. sqHead \in Counter /\ sqTail \in Counter /\ cqTail \in Counter /\ cqHead \in Counter
  BY DEF StateTypes
<1>3. sqHead' \in Counter
  BY <1>1, <1>2, Plus1Is
<1>4. sq[Index(sqHead)] \in Entries /\ sq[Index(sqHead)].id = sqHead
  <2>1. sq[Index(sqHead)] \in Entries
    BY <1>2, IndexIn, CounterIs DEF StateTypes, Places
  <2>2. sqHead \in Between(sqHead, sqTail)
    BY <1>1, <1>2, RingTake DEF WorkerTook
  <2> QED
    BY <2>1, <2>2 DEF SubmittedThere
<1>5. PICK e \in Entries : e = sq[Index(sqHead)] /\ e.id = sqHead
  BY <1>4
<1>6. /\ WorkerType' /\ entry' = e /\ pc' \in {"commit", "drain"}
      /\ UNCHANGED <<prev, worker.answer, then>>
  BY <1>5 DEF Take, WorkerType, pc, entry, prev, then, Looking, Completing
<1>7. StateTypes'
  BY <1>1, <1>3 DEF StateTypes
<1>8. Taken' = Taken + 1 /\ Waiting' = Waiting - 1 /\ UNCHANGED <<Answered, Uncollected>>
  <2>1. Waiting > 0 /\ sqHead # sqTail
    BY <1>1, <1>2, Distances, WidthIs DEF Waiting, WorkerTook
  <2>2. Taken < Wrap - 1
    BY <2>1, Room
  <2> QED
    BY <1>1, <1>2, <2>1, <2>2, Distances DEF Taken, Waiting, Answered, Uncollected
<1>9. CountersInOrder'
  BY <1>1, <1>8, Room DEF CountersInOrder
<1>10. WorkerTook'
  <2>1. Taken = (IF prev = None THEN 0 ELSE 1) /\ (prev # None => prev = cqTail)
    BY <1>1 DEF WorkerTook, Looking
  <2>2. prev = None => cqTail = sqHead
    BY <1>2, <2>1, Distances DEF Taken
  <2>3. prev # None => sqHead = Plus1(cqTail)
    <3>1. ASSUME Taken = 1 PROVE sqHead = Plus1(cqTail)
      <4>1. Distance(cqTail, Plus1(cqTail)) = 1
        <5>1. Distance(cqTail, cqTail) = 0
          BY <1>2, Distances
        <5>2. 0 < Wrap - 1
          BY WidthIs
        <5> QED
          BY <1>2, <5>1, <5>2, Distances
      <4> QED
        BY <1>2, <3>1, <4>1, Plus1Is, DistanceApart DEF Taken
    <3> QED
      BY <2>1, <3>1
  <2>4. entry'.id = sqHead /\ sqHead' = Plus1(sqHead) /\ prev' = prev /\ cqTail' = cqTail
    BY <1>1, <1>5, <1>6
  <2>5. Taken' = IF prev = None THEN 1 ELSE 2
    BY <1>8, <2>1
  <2> QED
    BY <1>1, <1>2, <1>6, <2>1, <2>2, <2>3, <2>4, <2>5 DEF WorkerTook, Looking, Completing
<1>11. DeviceHas'
  BY <1>1, <1>6 DEF DeviceHas, AtMost, Looking
<1>12. SubmittedThere'
  <2>1. Between(sqHead', sqTail') \subseteq Between(sqHead, sqTail)
    BY <1>1, <1>2, RingTake DEF WorkerTook
  <2> QED
    BY <1>1, <2>1 DEF SubmittedThere
<1>13. CompletedThere'
  BY <1>1 DEF CompletedThere, Between
<1> QED
  BY <1>1, <1>5, <1>6, <1>7, <1>9, <1>10, <1>11, <1>12, <1>13 DEF buffers

\* Committing a command, and what it leaves behind.
LEMMA CommitKeepsOrder ==
  ASSUME WindowFits, InOrder, Commit
  PROVE  /\ InOrder' /\ pc = "commit" /\ entry \in Commands
         /\ \/ depth = 1 /\ pc' = "finish" /\ then' = "loop" /\ prev' = entry.id
            \/ prev = None /\ pc' = "loop" /\ prev' = entry.id
            \/ depth # 1 /\ prev # None /\ pc' = "finish" /\ then' = "hold"
         /\ device' = Append(device, entry)
         /\ tokenBuf' = IF entry.chained THEN tokenBuf
                        ELSE [tokenBuf EXCEPT ![SlotOf(entry.id)] = entry.id]
         /\ UNCHANGED <<counters, sq, cq, depth, outBuf>>
<1> USE DEF InOrder
<1>1. /\ pc = "commit" /\ device' = Append(device, entry)
      /\ UNCHANGED <<counters, sq, cq, depth, running, failed, outBuf, client>>
  BY DEF Commit, At, pc, entry, counters, workerOnly, rings
<1>2. SubmittedThere' /\ CompletedThere' /\ CountersInOrder' /\ Taken' = Taken
  BY <1>1, RingsStay
<1>3. entry \in [id : Counter, chained : BOOLEAN]
  BY <1>1 DEF WorkerTook, WorkerType, Entries, entry
<1>4. entry.id \in Counter /\ entry.id \in Tokens
  BY <1>3 DEF Tokens
<1>5. StateTypes'
  <2>1. tokenBuf' \in [0 .. 1 -> Tokens]
    BY <1>4 DEF Commit, StateTypes, entry
  <2>2. device' \in Seq([id : Counter, chained : BOOLEAN])
    BY <1>1, <1>3 DEF StateTypes
  <2> QED
    BY <1>1, <2>1, <2>2 DEF StateTypes, counters
<1>6. /\ WorkerType'
      /\ \/ /\ depth = 1 /\ pc' = "finish" /\ then' = "loop" /\ prev' = entry.id /\ UNCHANGED entry
         \/ /\ depth # 1 /\ prev = None /\ pc' = "loop" /\ prev' = entry.id /\ then' = "loop"
         \/ /\ depth # 1 /\ prev # None /\ pc' = "finish" /\ then' = "hold" /\ UNCHANGED <<prev, entry>>
  <2>1. worker' = IF depth = 1 THEN [worker EXCEPT !.prev = entry.id, !.pc = "finish", !.then = "loop"]
                  ELSE IF prev = None THEN [Idle EXCEPT !.prev = entry.id]
                  ELSE [worker EXCEPT !.pc = "finish", !.then = "hold"]
    BY DEF Commit, Complete, entry, prev, WorkerType
  <2>2. CASE depth = 1
    <3>1. worker' = [worker EXCEPT !.prev = entry.id, !.pc = "finish", !.then = "loop"]
      BY <2>1, <2>2
    <3> QED
      BY <1>4, <2>2, <3>1 DEF WorkerType, pc, entry, prev, then, Completing
  <2>3. CASE depth # 1 /\ prev = None
    <3>1. worker' = [pc |-> "loop", entry |-> Entry(None, FALSE), prev |-> entry.id,
                     answer |-> None, then |-> "loop"]
      BY <2>1, <2>3 DEF Idle
    <3> QED
      BY <1>4, <2>3, <3>1 DEF WorkerType, pc, prev, then, Looking, Entry, Entries, Tokens
  <2>4. CASE depth # 1 /\ prev # None
    <3>1. worker' = [worker EXCEPT !.pc = "finish", !.then = "hold"]
      BY <2>1, <2>4
    <3> QED
      BY <2>4, <3>1 DEF WorkerType, pc, entry, prev, then, Completing
  <2> QED
    BY <2>2, <2>3, <2>4
<1>7. /\ sqHead = Plus1(entry.id) /\ entry.id # None
      /\ IF prev = None THEN entry.id = cqTail /\ Taken = 1
         ELSE prev = cqTail /\ entry.id = Plus1(cqTail) /\ Taken = 2
  <2>1. entry.id # None
    BY <1>4, CounterIs DEF None
  <2> QED
    BY <1>1, <2>1 DEF WorkerTook
<1>8. depth = 1 => prev = None
  BY <1>1 DEF WorkerTook
<1>9. WorkerTook'
  BY <1>1, <1>2, <1>6, <1>7, <1>8 DEF WorkerTook, counters, Looking, Completing
<1>10. DeviceHas'
  <2>0. device \in Seq(Commands) /\ entry \in Commands
    BY <1>3 DEF StateTypes, Commands
  <2>1. IF prev = None THEN device = <<>> ELSE Len(device) <= 1 /\ (Len(device) = 1 => device[1].id = prev)
    BY <1>1 DEF DeviceHas, AtMost
  <2>2. CASE Len(device) = 0
    <3>1. Len(device') = 1 /\ device'[1] = entry
      BY <1>1, <2>0, <2>2, QueueFacts
    <3>2. \A n : n = entry.id => AtMost(n)'
      BY <3>1 DEF AtMost
    <3> QED
      BY <1>6, <1>7, <1>8, <3>1, <3>2 DEF DeviceHas, Looking
  <2>3. CASE 1 <= Len(device)
    <3>1. prev # None /\ Len(device) = 1 /\ device[1].id = prev
      <4>1. Len(device) \in Nat /\ device # <<>>
        <5>1. Len(device) \in Nat /\ (device = <<>> <=> Len(device) = 0)
          BY <2>0, QueueFacts
        <5> QED
          BY <2>3, <5>1
      <4>2. prev # None /\ Len(device) <= 1 /\ (Len(device) = 1 => device[1].id = prev)
        BY <2>1, <4>1, Zenon
      <4>3. Len(device) = 1
        <5>1. Len(device) \in Nat
          BY <4>1
        <5>2. Len(device) <= 1
          BY <4>2
        <5> QED
          BY <2>3, <5>1, <5>2
      <4> QED
        BY <4>2, <4>3
    <3>2. Len(device') = 2 /\ device'[1] = device[1] /\ device'[2] = entry
      <4>1. 1 \in 1 .. Len(device)
        BY <3>1
      <4> QED
        BY <1>1, <2>0, <3>1, <4>1, QueueFacts
    <3> QED
      BY <1>6, <1>8, <3>1, <3>2 DEF DeviceHas, Looking
  <2>4. Len(device) \in Nat
    BY <2>0, QueueFacts
  <2> QED
    BY <2>2, <2>3, <2>4
<1>11. tokenBuf' = IF entry.chained THEN tokenBuf
                   ELSE [tokenBuf EXCEPT ![SlotOf(entry.id)] = entry.id]
  BY DEF Commit, entry
<1> QED
  BY <1>1, <1>2, <1>3, <1>5, <1>6, <1>9, <1>10, <1>11 DEF Commands

\* Waiting for the command and reading its answer.
LEMMA FinishKeepsOrder ==
  ASSUME InOrder, Finish
  PROVE  /\ InOrder' /\ prev # None
         /\ pc = "finish" /\ pc' = "mirror" /\ worker'.answer = outBuf[SlotOf(prev)]
         /\ UNCHANGED <<counters, sq, cq, depth, device, buffers, prev, entry, then>>
         /\ \A i \in 1 .. Len(device) : device[i].id # prev
<1> USE DEF InOrder
<1>1. /\ pc = "finish" /\ \A i \in 1 .. Len(device) : device[i].id # prev
      /\ UNCHANGED <<counters, sq, cq, depth, running, failed, device, buffers, client>>
      /\ worker' = [worker EXCEPT !.answer = outBuf[SlotOf(prev)], !.pc = "mirror"]
  BY DEF Finish, At, pc, prev, Pending, counters, buffers, workerOnly, rings
<1>2. SubmittedThere' /\ CompletedThere' /\ CountersInOrder' /\ Taken' = Taken
  BY <1>1, RingsStay
<1>3. StateTypes'
  BY <1>1 DEF StateTypes, counters, buffers
<1>4. prev \in Counter /\ prev # None
  BY <1>1 DEF WorkerTook, WorkerType, Completing, prev
<1>5. PICK a \in Tokens : a = outBuf[SlotOf(prev)]
  BY <1>4, BuffersInTurn DEF StateTypes
<1>6. /\ WorkerType' /\ pc' = "mirror" /\ worker'.answer = outBuf[SlotOf(prev)]
      /\ UNCHANGED <<prev, entry, then>>
  <2>1. worker' = [worker EXCEPT !.answer = a, !.pc = "mirror"]
    BY <1>1, <1>5
  <2>2. WorkerType' /\ pc' = "mirror" /\ worker'.answer = a /\ UNCHANGED <<prev, entry, then>>
    BY <2>1 DEF WorkerType, pc, prev, entry, then, Completing
  <2> QED
    BY <1>5, <2>2
<1>7. WorkerTook'
  BY <1>1, <1>2, <1>6 DEF WorkerTook, counters, Looking, Completing
<1>8. DeviceHas'
  <2>1. device \in Seq(Commands)
    BY DEF StateTypes, Commands
  <2>2. Len(device) \in Nat /\ (device = <<>> <=> Len(device) = 0)
    BY <2>1, QueueFacts
  <2>3. ASSUME 1 <= Len(device) PROVE device[1].id # prev
    BY <1>1, <2>2, <2>3
  <2>4. IF then = "hold" THEN AtMost(entry.id) ELSE device = <<>>
    <3>1. CASE then = "hold"
      <4>1. \/ AtMost(entry.id)
            \/ Len(device) = 2 /\ device[1].id = prev
        BY <1>1, <3>1 DEF DeviceHas
      <4> QED
        BY <2>3, <3>1, <4>1
    <3>2. CASE then # "hold"
      <4>1. Len(device) <= 1 /\ (Len(device) = 1 => device[1].id = prev)
        BY <1>1, <3>2 DEF DeviceHas, AtMost
      <4>2. Len(device) = 0
        <5>1. Len(device) \in Nat
          BY <2>2
        <5>2. Len(device) <= 1 /\ ~(1 <= Len(device))
          BY <2>3, <4>1
        <5> QED
          BY <5>1, <5>2
      <4> QED
        BY <2>2, <3>2, <4>2, Zenon
    <3> QED
      BY <3>1, <3>2
  <2>5. \A n : AtMost(n)' = AtMost(n)
    BY <1>1 DEF AtMost
  <2> QED
    BY <1>1, <1>6, <2>4, <2>5 DEF DeviceHas, Looking
<1> QED
  BY <1>1, <1>2, <1>3, <1>4, <1>6, <1>7, <1>8

\* Copying the answer to the first output buffer.
LEMMA MirrorKeepsOrder ==
  ASSUME InOrder, Mirror
  PROVE  /\ InOrder' /\ prev # None
         /\ pc = "mirror" /\ pc' = "publish"
         /\ UNCHANGED <<counters, sq, cq, depth, device, tokenBuf, prev, entry, worker.answer, then>>
         /\ outBuf' = IF SlotOf(prev) # 0 THEN [outBuf EXCEPT ![0] = worker.answer] ELSE outBuf
<1> USE DEF InOrder
<1>1. /\ pc = "mirror" /\ Goto("publish")
      /\ UNCHANGED <<counters, sq, cq, depth, running, failed, device, tokenBuf, client>>
      /\ outBuf' = IF SlotOf(prev) # 0 THEN [outBuf EXCEPT ![0] = worker.answer] ELSE outBuf
  BY DEF Mirror, At, pc, prev, counters, workerOnly, rings
<1>2. SubmittedThere' /\ CompletedThere' /\ CountersInOrder' /\ Taken' = Taken
  BY <1>1, RingsStay
<1>3. worker.answer \in Tokens
  BY DEF WorkerType
<1>4. outBuf' \in [0 .. 1 -> Tokens]
  BY <1>1, <1>3 DEF StateTypes
<1>5. StateTypes'
  BY <1>1, <1>4 DEF StateTypes, counters
<1>6. WorkerType' /\ pc' = "publish" /\ UNCHANGED <<prev, entry, worker.answer, then>>
  BY <1>1 DEF Goto, WorkerType, pc, prev, entry, then, Completing
<1>7. WorkerTook'
  BY <1>1, <1>2, <1>6 DEF WorkerTook, counters, Looking, Completing
<1>8. DeviceHas'
  BY <1>1, <1>6 DEF DeviceHas, Looking, AtMost
<1> QED
  BY <1>1, <1>2, <1>5, <1>6, <1>7, <1>8 DEF WorkerTook, Completing

\* Publishing: the completion goes to the place of its own request, which is
\* free.
LEMMA PublishKeepsOrder ==
  ASSUME WindowFits, InOrder, Publish
  PROVE  /\ InOrder' /\ Distance(cqHead, cqTail) < Capacity
         /\ pc = "publish" /\ pc' = "signal" /\ prev = cqTail /\ cqTail' = Plus1(cqTail)
         /\ UNCHANGED <<sqHead, sqTail, sq, cqHead, depth, device, buffers, prev, entry,
                        worker.answer, then>>
         /\ cq' = [cq EXCEPT ![Index(cqTail)] = [id |-> prev, token |-> worker.answer,
                                                 ok |-> prev \notin failed]]
<1> USE DEF InOrder
<1>1. /\ pc = "publish" /\ Goto("signal") /\ cqTail' = Plus1(cqTail)
      /\ UNCHANGED <<sqHead, sqTail, sq, cqHead, depth, running, device, buffers, client>>
      /\ failed' = failed \ {prev}
      /\ cq' = [cq EXCEPT ![Index(cqTail)] = [id |-> prev, token |-> worker.answer,
                                              ok |-> prev \notin failed]]
  BY DEF Publish, At, pc, prev, buffers, workerOnly
<1>2. sqHead \in Counter /\ sqTail \in Counter /\ cqTail \in Counter /\ cqHead \in Counter
  BY DEF StateTypes
<1>3. prev \in Counter /\ prev = cqTail
  BY <1>1, <1>2 DEF WorkerTook, Completing
<1>4. cqTail' \in Counter /\ Index(cqTail) \in Places
  BY <1>1, <1>2, Plus1Is, IndexIn, CounterIs DEF Places
<1>5. StateTypes'
  <2>1. [id |-> prev, token |-> worker.answer, ok |-> prev \notin failed]
           \in [id : Counter \cup {None}, token : Tokens, ok : BOOLEAN]
    BY <1>3 DEF WorkerType
  <2>2. cq' \in [Places -> [id : Counter \cup {None}, token : Tokens, ok : BOOLEAN]]
    BY <1>1, <1>4, <2>1 DEF StateTypes
  <2> QED
    BY <1>1, <1>4, <2>2 DEF StateTypes, buffers
<1>6. WorkerType' /\ pc' = "signal" /\ UNCHANGED <<prev, entry, worker.answer, then>>
  BY <1>1 DEF Goto, WorkerType, pc, prev, entry, then
<1>7. /\ then \in {"loop", "sleep", "hold", "drain"}
      /\ then = "hold" => entry.id = Plus1(cqTail) /\ Taken = 2
      /\ then \in {"loop", "sleep"} => Taken = 1
      /\ then = "drain" => Taken >= 1
  BY <1>1 DEF WorkerTook, WorkerType, then, Completing
<1>8. Taken \in Nat /\ Taken >= 1 /\ Answered \in Nat /\ Answered < Capacity /\ Answered < Wrap - 1
  <2>1. Taken >= 1
    BY <1>7
  <2> QED
    BY <2>1, Room
<1>9. /\ Taken' = Taken - 1 /\ Answered' = Answered + 1 /\ UNCHANGED <<Waiting, Uncollected>>
  <2>1. cqTail # sqHead
    BY <1>2, <1>8, Distances DEF Taken
  <2> QED
    BY <1>1, <1>2, <1>8, <2>1, Distances DEF Taken, Waiting, Answered, Uncollected
<1>10. CountersInOrder'
  BY <1>1, <1>8, <1>9, Room DEF CountersInOrder
<1>11. WorkerTook'
  <2>1. prev # None
    BY <1>1 DEF WorkerTook, Completing
  <2>2. depth = 1 => then # "hold"
    BY <1>1 DEF WorkerTook, Completing
  <2>3. /\ pc' = "signal" /\ prev' = prev /\ cqTail' = Plus1(prev)
        /\ then' = then /\ entry' = entry /\ depth' = depth
    BY <1>1, <1>3, <1>6
  <2>4. then = "hold" => entry.id = cqTail' /\ Taken' = 1
    BY <1>1, <1>7, <1>9
  <2>5. then \in {"loop", "sleep"} => Taken' = 0
    BY <1>7, <1>9
  <2> QED
    BY <2>1, <2>2, <2>3, <2>4, <2>5 DEF WorkerTook, Looking, Completing
<1>12. DeviceHas'
  BY <1>1, <1>6 DEF DeviceHas, Looking, AtMost
<1>13. SubmittedThere'
  BY <1>1 DEF SubmittedThere, Between
<1>14. CompletedThere'
  <2>1. ASSUME NEW n \in Between(cqHead, Plus1(cqTail)) PROVE cq'[Index(n)].id = n
    <3>1. n \in Counter /\ (n = cqTail \/ (n \in Between(cqHead, cqTail) /\ Index(n) # Index(cqTail)))
      BY <1>2, <1>8, RingPut DEF Answered
    <3>2. Index(n) \in Places
      BY <3>1, IndexIn, CounterIs DEF Places
    <3>3. CASE n = cqTail
      BY <1>1, <1>3, <1>4, <3>3 DEF StateTypes
    <3>4. CASE n \in Between(cqHead, cqTail) /\ Index(n) # Index(cqTail)
      BY <1>1, <1>4, <3>2, <3>4 DEF StateTypes, CompletedThere
    <3> QED
      BY <3>1, <3>3, <3>4
  <2> QED
    BY <1>1, <2>1 DEF CompletedThere, Between
<1> QED
  BY <1>1, <1>3, <1>5, <1>6, <1>8, <1>10, <1>11, <1>12, <1>13, <1>14 DEF Answered

\* Signalling, and going on where the worker was.
LEMMA SignalKeepsOrder ==
  ASSUME InOrder, Signal
  PROVE  /\ InOrder' /\ pc = "signal" /\ prev # None
         /\ UNCHANGED <<counters, sq, cq, depth, device, buffers>>
         /\ IF then = "hold" THEN pc' = "loop" /\ prev' = entry.id
            ELSE pc' \in {"loop", "sleep", "drain"} /\ prev' = None
<1> USE DEF InOrder
<1>1. /\ pc = "signal"
      /\ UNCHANGED <<counters, sq, cq, depth, running, failed, device, buffers>>
      /\ client' \in {client, "wait"}
      /\ worker' = IF then = "hold" THEN [Idle EXCEPT !.prev = entry.id] ELSE [Idle EXCEPT !.pc = then]
  BY DEF Signal, At, pc, then, entry, counters, buffers, workerOnly, rings
<1>2. SubmittedThere' /\ CompletedThere' /\ CountersInOrder' /\ Taken' = Taken
  BY <1>1, RingsStay
<1>3. StateTypes'
  BY <1>1 DEF StateTypes, counters, buffers
<1>4. /\ then \in {"loop", "sleep", "hold", "drain"} /\ prev # None
      /\ then = "hold" => entry.id = cqTail /\ Taken = 1 /\ depth # 1
      /\ then \in {"loop", "sleep"} => Taken = 0
  BY <1>1 DEF WorkerTook, WorkerType, then
<1>5. cqTail \in Counter /\ cqTail # None
  BY CounterIs DEF StateTypes, None
<1>6. /\ WorkerType'
      /\ IF then = "hold" THEN pc' = "loop" /\ prev' = entry.id ELSE pc' = then /\ prev' = None
      /\ then' = "loop"
  <2>1. CASE then = "hold"
    <3>1. worker' = [pc |-> "loop", entry |-> Entry(None, FALSE), prev |-> entry.id,
                     answer |-> None, then |-> "loop"]
      BY <1>1, <2>1 DEF Idle
    <3> QED
      BY <1>4, <1>5, <2>1, <3>1 DEF WorkerType, pc, prev, then, Looking, Entry, Entries, Tokens
  <2>2. CASE then # "hold"
    <3>1. worker' = [pc |-> then, entry |-> Entry(None, FALSE), prev |-> None,
                     answer |-> None, then |-> "loop"]
      BY <1>1, <2>2 DEF Idle
    <3>2. then \in Looking \cup {"drain"}
      BY <1>4, <2>2 DEF Looking
    <3>3. Entry(None, FALSE) \in Entries /\ None \in Tokens
      BY DEF Entry, Entries, Tokens
    <3>4. WorkerType'
      BY <3>1, <3>2, <3>3 DEF WorkerType
    <3>5. pc' = then /\ prev' = None /\ then' = "loop"
      BY <3>1 DEF pc, prev, then
    <3> QED
      BY <2>2, <3>4, <3>5
  <2> QED
    BY <2>1, <2>2
<1>7. WorkerTook'
  BY <1>1, <1>2, <1>4, <1>5, <1>6 DEF WorkerTook, counters, Looking, Completing
<1>8. DeviceHas'
  <2>1. IF then = "hold" THEN AtMost(entry.id) ELSE device = <<>>
    BY <1>1 DEF DeviceHas
  <2>2. \A n : AtMost(n)' = AtMost(n)
    BY <1>1 DEF AtMost
  <2> QED
    BY <1>1, <1>4, <1>5, <1>6, <2>1, <2>2 DEF DeviceHas, Looking
<1> QED
  BY <1>1, <1>2, <1>3, <1>4, <1>6, <1>7, <1>8

\* The device executes its oldest command.
LEMMA ExecuteKeepsOrder ==
  ASSUME InOrder, Execute
  PROVE  /\ InOrder' /\ device # <<>> /\ device' = Tail(device)
         /\ UNCHANGED <<counters, sq, cq, depth, worker>>
<1> USE DEF InOrder
<1>1. /\ device # <<>> /\ device' = Tail(device)
      /\ UNCHANGED <<counters, sq, cq, depth, running, worker, client>>
  BY DEF Execute, counters
<1>2. SubmittedThere' /\ CompletedThere' /\ CountersInOrder' /\ Taken' = Taken
  BY <1>1, RingsStay
<1>3. /\ device \in Seq(Commands) /\ Len(device) \in Nat /\ Head(device) \in Commands
      /\ device' \in Seq(Commands) /\ Len(device') = Len(device) - 1
      /\ \A i \in 1 .. Len(device) - 1 : device'[i] = device[i + 1]
      /\ device' = <<>> <=> Len(device') = 0
      /\ Len(device) # 0
  <2>1. device \in Seq(Commands)
    BY DEF StateTypes, Commands
  <2>2. /\ Len(device) \in Nat /\ device' \in Seq(Commands) /\ Len(device') = Len(device) - 1
        /\ \A i \in 1 .. Len(device) - 1 : device'[i] = device[i + 1]
        /\ Len(device) # 0
    BY <1>1, <2>1, QueueFacts
  <2>3. device' = <<>> <=> Len(device') = 0
    BY <2>2, QueueFacts
  <2>4. Head(device) = device[1] /\ 1 \in 1 .. Len(device)
    BY <1>1, <2>1, <2>2, QueueFacts
  <2>5. Head(device) \in Commands
    BY <2>1, <2>4, QueueFacts
  <2> QED
    BY <2>1, <2>2, <2>3, <2>5
<1>4. PICK e \in Commands : e = Head(device)
  BY <1>3
<1>5. e.id \in Counter /\ SlotOf(e.id) \in 0 .. 1 /\ Other(SlotOf(e.id)) \in 0 .. 1
  BY BuffersInTurn DEF Commands, Other
<1>6. StateTypes'
  <2>1. /\ tokenBuf' \in [0 .. 1 -> Tokens]
    <3>1. tokenBuf' = [tokenBuf EXCEPT ![SlotOf(e.id)] =
                         IF e.chained THEN outBuf[Other(SlotOf(e.id))] ELSE tokenBuf[SlotOf(e.id)]]
      BY <1>4 DEF Execute
    <3>2. outBuf[Other(SlotOf(e.id))] \in Tokens /\ tokenBuf[SlotOf(e.id)] \in Tokens
      BY <1>5 DEF StateTypes
    <3> QED
      BY <3>1, <3>2 DEF StateTypes
  <2>2. \E a \in Tokens : outBuf' = [outBuf EXCEPT ![SlotOf(e.id)] = a]
    <3>1. e.id \in Tokens /\ Wrong \in Tokens /\ Garbage \in Tokens
      BY <1>5 DEF Tokens
    <3> QED
      BY <1>4, <3>1 DEF Execute
  <2>3. failed' = failed \/ failed' = failed \cup {e.id}
    BY <1>4 DEF Execute
  <2>4. failed' \subseteq Counter
    BY <1>5, <2>3 DEF StateTypes
  <2>5. outBuf' \in [0 .. 1 -> Tokens]
    BY <2>2 DEF StateTypes
  <2> QED
    BY <1>1, <1>3, <2>1, <2>4, <2>5 DEF StateTypes, counters, Commands
<1>7. WorkerType' /\ pc' = pc /\ prev' = prev /\ entry' = entry /\ then' = then
  BY <1>1 DEF WorkerType, pc, prev, entry, then
<1>8. WorkerTook'
  BY <1>1, <1>2, <1>7 DEF WorkerTook, counters
<1>9. DeviceHas'
  <2>1. ASSUME NEW n, AtMost(n)
        PROVE  device' = <<>> /\ AtMost(n)'
    BY <1>3, <2>1 DEF AtMost
  <2>2. ASSUME NEW m, NEW n, Len(device) = 2, device[1].id = m, device[2].id = n
        PROVE  AtMost(n)'
    <3>1. Len(device') = 1 /\ device'[1] = device[2]
      BY <1>3, <2>2
    <3> QED
      BY <2>2, <3>1 DEF AtMost
  <2>3. pc \in Looking \cup {"commit", "drain", "exited"} => prev # None /\ AtMost(prev)
    BY <1>1 DEF DeviceHas
  <2>4. pc = "finish" =>
          IF then = "hold" THEN \/ AtMost(entry.id)
                                \/ Len(device) = 2 /\ device[1].id = prev /\ device[2].id = entry.id
          ELSE AtMost(prev)
    BY DEF DeviceHas
  <2>5. pc \in {"mirror", "publish", "signal"} => then = "hold" /\ AtMost(entry.id)
    BY <1>1 DEF DeviceHas
  <2>6. CASE pc \in Looking \cup {"commit", "drain", "exited"}
    BY <1>7, <2>1, <2>3, <2>6 DEF DeviceHas, Looking
  <2>7. CASE pc = "finish"
    <3>1. IF then = "hold" THEN AtMost(entry.id)' ELSE AtMost(prev)'
      BY <1>7, <2>1, <2>2, <2>4, <2>7
    <3> QED
      BY <1>7, <2>7, <3>1 DEF DeviceHas, Looking
  <2>8. CASE pc \in {"mirror", "publish", "signal"}
    BY <1>7, <2>1, <2>5, <2>8 DEF DeviceHas, Looking
  <2> QED
    BY <2>6, <2>7, <2>8 DEF WorkerType, pc, Completing
<1> QED
  BY <1>1, <1>2, <1>6, <1>7, <1>8, <1>9

\* A submission: the entry goes to a free place.
LEMMA SubmitKeepsOrder ==
  ASSUME WindowFits, InOrder, NEW c \in BOOLEAN, Submit(c)
  PROVE  /\ InOrder' /\ sqTail' = Plus1(sqTail) /\ Uncollected < Window[depth]
         /\ Waiting < Capacity
         /\ sq' = [sq EXCEPT ![Index(sqTail)] = Entry(sqTail, c)]
         /\ UNCHANGED <<sqHead, cqHead, cqTail, cq, depth, device, buffers, worker>>
<1> USE DEF InOrder
<1>1. /\ sqTail' = Plus1(sqTail) /\ Uncollected < Window[depth] /\ Waiting < Capacity
      /\ sq' = [sq EXCEPT ![Index(sqTail)] = Entry(sqTail, c)] /\ client' = "signal"
      /\ UNCHANGED <<sqHead, cqHead, cqTail, cq, depth, running, failed, device, buffers, worker>>
  BY DEF Submit, clientOnly, Waiting, buffers
<1>2. sqHead \in Counter /\ sqTail \in Counter /\ cqTail \in Counter /\ cqHead \in Counter
  BY DEF StateTypes
<1>3. sqTail' \in Counter /\ Index(sqTail) \in Places /\ Entry(sqTail, c) \in Entries
  BY <1>1, <1>2, Plus1Is, IndexIn, CounterIs DEF Places, Entry, Entries
<1>4. StateTypes'
  <2>1. sq' \in [Places -> Entries]
    BY <1>1, <1>3 DEF StateTypes
  <2> QED
    BY <1>1, <1>3, <2>1 DEF StateTypes, buffers
<1>5. /\ Waiting' = Waiting + 1 /\ Uncollected' = Uncollected + 1 /\ UNCHANGED <<Taken, Answered>>
      /\ Waiting \in Nat /\ Uncollected \in Nat /\ Taken \in Nat /\ Answered \in Nat
      /\ Window[depth] \in Nat
  <2>1. Window[depth] \in Nat /\ Window[depth] <= Capacity
    BY WindowAssumption DEF WindowFits, StateTypes
  <2>2. Waiting < Wrap - 1 /\ Uncollected < Wrap - 1
    BY <1>1, <2>1, Room
  <2>3. Waiting' = Waiting + 1 /\ Uncollected' = Uncollected + 1
    BY <1>1, <1>2, <2>2, Distances DEF Waiting, Uncollected
  <2> QED
    BY <1>1, <2>1, <2>3, Room DEF Taken, Answered
<1>6. CountersInOrder'
  BY <1>1, <1>5 DEF CountersInOrder
<1>7. WorkerType' /\ pc' = pc /\ prev' = prev /\ entry' = entry /\ then' = then
  BY <1>1 DEF WorkerType, pc, prev, entry, then
<1>8. WorkerTook'
  <2>1. sqHead' # sqTail'
    <3>1. Waiting' # 0
      BY <1>5
    <3>2. sqHead' \in Counter
      BY <1>1, <1>2
    <3> QED
      BY <1>3, <3>1, <3>2, Distances DEF Waiting
  <2> QED
    BY <1>1, <1>5, <1>7, <2>1 DEF WorkerTook
<1>9. DeviceHas'
  BY <1>1, <1>7 DEF DeviceHas, AtMost
<1>10. CompletedThere'
  BY <1>1 DEF CompletedThere, Between
<1>11. SubmittedThere'
  <2>1. ASSUME NEW n \in Between(sqHead, Plus1(sqTail)) PROVE sq'[Index(n)].id = n
    <3>1. n \in Counter /\ (n = sqTail \/ (n \in Between(sqHead, sqTail) /\ Index(n) # Index(sqTail)))
      BY <1>1, <1>2, RingPut DEF Waiting
    <3>2. Index(n) \in Places
      BY <3>1, IndexIn, CounterIs DEF Places
    <3>3. CASE n = sqTail
      BY <1>1, <1>3, <3>3 DEF StateTypes, Entry
    <3>4. CASE n \in Between(sqHead, sqTail) /\ Index(n) # Index(sqTail)
      BY <1>1, <1>3, <3>2, <3>4 DEF StateTypes, SubmittedThere
    <3> QED
      BY <3>1, <3>3, <3>4
  <2> QED
    BY <1>1, <2>1 DEF SubmittedThere, Between
<1> QED
  BY <1>1, <1>4, <1>6, <1>7, <1>8, <1>9, <1>10, <1>11

\* Collecting a completion.
LEMMA CollectKeepsOrder ==
  ASSUME WindowFits, InOrder, Collect
  PROVE  /\ InOrder' /\ Between(cqHead', cqTail') \subseteq Between(cqHead, cqTail)
         /\ UNCHANGED <<sqHead, sqTail, sq, cqTail, cq, depth, device, buffers, worker>>
<1> USE DEF InOrder
<1>1. /\ cqHead' = IF cqHead = cqTail THEN cqHead ELSE Plus1(cqHead)
      /\ client' = "ready"
      /\ UNCHANGED <<sqHead, sqTail, sq, cqTail, cq, depth, running, failed, device, buffers, worker>>
  BY DEF Collect, clientOnly, buffers
<1>2. sqHead \in Counter /\ sqTail \in Counter /\ cqTail \in Counter /\ cqHead \in Counter
  BY DEF StateTypes
<1>3. StateTypes'
  <2>1. cqHead' \in Counter
    BY <1>1, <1>2, Plus1Is
  <2> QED
    BY <1>1, <2>1 DEF StateTypes, buffers
<1>4. WorkerType' /\ pc' = pc /\ prev' = prev /\ entry' = entry /\ then' = then /\ Taken' = Taken
  BY <1>1 DEF WorkerType, pc, prev, entry, then, Taken
<1>5. WorkerTook' /\ DeviceHas' /\ SubmittedThere'
  BY <1>1, <1>4 DEF WorkerTook, DeviceHas, AtMost, SubmittedThere, Between
<1>6. Between(cqHead', cqTail') \subseteq Between(cqHead, cqTail)
  <2>1. CASE cqHead = cqTail
    BY <1>1, <2>1
  <2>2. CASE cqHead # cqTail
    BY <1>1, <1>2, <2>2, RingTake
  <2> QED
    BY <2>1, <2>2
<1>7. CompletedThere'
  BY <1>1, <1>6 DEF CompletedThere
<1>8. CountersInOrder'
  <2>1. CASE cqHead = cqTail
    BY <1>1, <2>1 DEF CountersInOrder, Answered, Taken, Waiting, Uncollected
  <2>2. CASE cqHead # cqTail
    <3>1. Answered # 0
      BY <1>2, <2>2, Distances DEF Answered
    <3>2. /\ Answered \in Nat /\ Taken \in Nat /\ Waiting \in Nat /\ Uncollected \in Nat
          /\ Answered + Taken + Waiting = Uncollected /\ Uncollected <= Window[depth]
          /\ Window[depth] \in Nat
      BY Room, WindowAssumption DEF CountersInOrder, StateTypes
    <3>3. cqHead # sqTail
      BY <1>2, <3>1, <3>2, Distances DEF Uncollected
    <3>4. Answered' = Answered - 1 /\ Uncollected' = Uncollected - 1 /\ UNCHANGED <<Taken, Waiting>>
      BY <1>1, <1>2, <2>2, <3>3, Distances DEF Answered, Uncollected, Taken, Waiting
    <3> QED
      BY <1>1, <3>1, <3>2, <3>4 DEF CountersInOrder
  <2> QED
    BY <2>1, <2>2
<1> QED
  BY <1>1, <1>3, <1>4, <1>5, <1>6, <1>7, <1>8

\* The invariant holds from the start and after every step.
LEMMA OrderIsInvariant ==
  ASSUME WindowFits
  PROVE  /\ Init => InOrder
         /\ InOrder /\ [Next]_vars => InOrder'
<1>1. ASSUME Init PROVE InOrder
  <2>1. 0 \in Counter /\ 0 \in 0 .. Wrap - 1
    BY WidthIs, CounterIs
  <2>2. StateTypes
    <3>1. sq \in [Places -> Entries]
      BY <1>1 DEF Init, Entry, Entries, Places
    <3>2. cq \in [Places -> [id : Counter \cup {None}, token : Tokens, ok : BOOLEAN]]
      BY <1>1 DEF Init, Tokens, Places
    <3>3. device \in Seq([id : Counter, chained : BOOLEAN])
      BY <1>1 DEF Init
    <3>4. tokenBuf \in [0 .. 1 -> Tokens] /\ outBuf \in [0 .. 1 -> Tokens]
      BY <1>1 DEF Init, Tokens
    <3> QED
      BY <1>1, <2>1, <3>1, <3>2, <3>3, <3>4 DEF Init, StateTypes
  <2>3. /\ WorkerType /\ pc = "loop" /\ prev = None
    BY <1>1 DEF Init, Idle, WorkerType, pc, prev, Entry, Entries, Looking, Tokens
  <2>4. Distance(0, 0) = 0 /\ Window[depth] \in Nat
    BY <1>1, <2>1, Distances, WindowAssumption DEF Init
  <2>5. CountersInOrder /\ WorkerTook /\ DeviceHas
    BY <1>1, <2>3, <2>4 DEF Init, CountersInOrder, WorkerTook, DeviceHas, Answered, Taken,
       Waiting, Uncollected, Looking, Completing
  <2>6. Between(0, 0) = {}
    <3>1. ASSUME NEW n \in Counter PROVE ~(Distance(0, n) < Distance(0, 0))
      BY <2>1, <2>4, Distances, WidthIs
    <3> QED
      BY <3>1 DEF Between
  <2>7. SubmittedThere /\ CompletedThere
    BY <1>1, <2>6 DEF Init, SubmittedThere, CompletedThere
  <2> QED
    BY <2>2, <2>3, <2>5, <2>7 DEF InOrder
<1>2. ASSUME InOrder, Next PROVE InOrder'
  <2>1. StateTypes /\ WorkerType
    BY <1>2 DEF InOrder
  <2>2. CASE Looks
    BY <1>2, <2>1, <2>2, LooksAreMoves, MovesKeepOrder
  <2>3. CASE Talks
    BY <1>2, <2>1, <2>3, TalksAreMoves, MovesKeepOrder
  <2>4. CASE Take
    BY <1>2, <2>4, TakeKeepsOrder
  <2>5. CASE Commit
    BY <1>2, <2>5, CommitKeepsOrder
  <2>6. CASE Finish
    BY <1>2, <2>6, FinishKeepsOrder
  <2>7. CASE Mirror
    BY <1>2, <2>7, MirrorKeepsOrder
  <2>8. CASE Publish
    BY <1>2, <2>8, PublishKeepsOrder
  <2>9. CASE Signal
    BY <1>2, <2>9, SignalKeepsOrder
  <2>10. CASE Execute
    BY <1>2, <2>10, ExecuteKeepsOrder
  <2>11. CASE Submit(TRUE) \/ Submit(FALSE)
    BY <1>2, <2>11, SubmitKeepsOrder
  <2>12. CASE Collect
    BY <1>2, <2>12, CollectKeepsOrder
  <2> QED
    BY <1>2, <2>2, <2>3, <2>4, <2>5, <2>6, <2>7, <2>8, <2>9, <2>10, <2>11, <2>12
       DEF Next, Work, Proceed, Begin, Looks, Talks
<1>3. ASSUME InOrder, UNCHANGED vars PROVE InOrder'
  BY <1>3 DEF vars, InOrder, StateTypes, WorkerType, CountersInOrder, WorkerTook, DeviceHas,
     SubmittedThere, CompletedThere, Answered, Taken, Waiting, Uncollected, Between, AtMost,
     pc, prev, entry, then
<1> QED
  BY <1>1, <1>2, <1>3

\* The queue's state keeps its shape, and the device is never given a third
\* command before the first was waited for.
THEOREM RingTypesCorrect ==
  ASSUME WindowFits
  PROVE  Spec => []TypeOK
<1>1. Init => InOrder
  BY OrderIsInvariant
<1>2. InOrder /\ [Next]_vars => InOrder'
  BY OrderIsInvariant
<1>3. ASSUME InOrder PROVE TypeOK
  <2>1. StateTypes /\ WorkerType /\ DeviceHas
    BY <1>3 DEF InOrder
  <2>2. Len(device) <= 2
    <3>1. Len(device) \in Nat /\ (device = <<>> => Len(device) = 0)
      BY <2>1, QueueFacts DEF StateTypes, Commands
    <3>2. device = <<>> \/ Len(device) = 2 \/ \E n : AtMost(n)
      BY <2>1 DEF DeviceHas, WorkerType, pc, Looking, Completing
    <3>3. Len(device) = 0 \/ Len(device) = 2 \/ Len(device) <= 1
      BY <3>1, <3>2 DEF AtMost
    <3>4. PICK k \in Nat : k = Len(device)
      BY <3>1
    <3>5. k = 0 \/ k = 2 \/ k <= 1
      BY <3>3, <3>4
    <3>6. k <= 2
      BY <3>5
    <3> QED
      BY <3>4, <3>6
  <2> QED
    BY <2>1, <2>2 DEF TypeOK, StateTypes, WorkerType, pc, prev, Looking, Completing
<1> QED
  BY <1>1, <1>2, <1>3, PTL DEF Spec

\* Neither ring loses, repeats or overwrites an entry, also when the counters wrap:
\* ring_submit, the worker's loop and wait_completion, in any interleaving.
THEOREM RingsKeepEntries ==
  ASSUME WindowFits
  PROVE  Spec => []RingsExact
<1>1. Init => InOrder
  BY OrderIsInvariant
<1>2. InOrder /\ [Next]_vars => InOrder'
  BY OrderIsInvariant
<1>3. ASSUME InOrder PROVE RingsExact
  <2>1. Waiting <= Capacity /\ Answered <= Capacity
    BY <1>3, Room DEF InOrder
  <2> QED
    BY <1>3, <2>1 DEF InOrder, RingsExact, SubmittedThere, CompletedThere, Waiting, Answered
<1> QED
  BY <1>1, <1>2, <1>3, PTL DEF Spec
-----------------------------------------------------------------------------
(* With one command in flight, what the device reads is what was meant.       *)

\* The output buffer of request p holds its answer.
Holds(p) == outBuf[SlotOf(p)] \in {p, Garbage}

\* Nothing was ever taken: the first request cannot refer to an answer.
Fresh ==
  /\ sqHead = 0 /\ cqTail = 0 /\ ~sq[0].chained
  /\ sqTail = 0 => \A i \in Places : sq[i].id = None

\* The command in flight can read what it needs, or has left its answer.
InputReady ==
  IF device = <<>> THEN Holds(prev)
  ELSE IF device[1].chained THEN Holds(Before(prev)) ELSE tokenBuf[SlotOf(prev)] = prev

NeverHolds == pc \in Completing \cup {"signal"} => then # "hold"

BuffersRight ==
  /\ pc \in Looking /\ prev = None => Fresh \/ Holds(Before(cqTail))
  /\ pc = "commit" /\ entry.chained => Holds(Before(entry.id))
  /\ pc \in Looking \cup {"finish", "drain"} /\ prev # None => InputReady
  /\ pc \in {"mirror", "publish"} => worker.answer \in {prev, Garbage} /\ Holds(prev)
  /\ pc = "signal" => Holds(prev)

TokensRight == \A n \in Between(cqHead, cqTail) : cq[Index(n)].token \in {n, Garbage}

OneByOne == ~Pipelined => NeverHolds /\ BuffersRight /\ TokensRight
-----------------------------------------------------------------------------
\* With one command in flight the worker is never ahead of the one it completes.
LEMMA NoSecond ==
  ASSUME WindowFits, InOrder, ~Pipelined, pc \in {"take", "commit"}
  PROVE  prev = None
<1>1. CASE depth = 1
  BY <1>1 DEF InOrder, WorkerTook, Looking
<1>2. CASE Window[depth] = 1
  <2> SUFFICES ASSUME prev # None PROVE FALSE
    OBVIOUS
  <2>1. /\ Answered \in Nat /\ Taken \in Nat /\ Waiting \in Nat
        /\ Answered + Taken + Waiting <= 1
    BY <1>2, Room DEF InOrder, CountersInOrder
  <2>2. (Taken = 1 /\ sqHead # sqTail) \/ Taken = 2
    BY DEF InOrder, WorkerTook, Looking
  <2>3. sqHead # sqTail => Waiting # 0
    BY Distances DEF InOrder, StateTypes, Waiting
  <2> QED
    BY <2>1, <2>2, <2>3
<1> QED
  BY <1>1, <1>2 DEF Pipelined

\* The device's queue is a queue of commands.
LEMMA DeviceInType ==
  ASSUME InOrder
  PROVE  device \in Seq(Commands) /\ Len(device) \in Nat /\ (device = <<>> <=> Len(device) = 0)
  BY QueueFacts DEF InOrder, StateTypes, Commands

\* The steps that touch neither the rings nor the device.
LEMMA MovesKeepBuffers ==
  ASSUME InOrder, Moves, NeverHolds, BuffersRight
  PROVE  NeverHolds' /\ BuffersRight'
<1>1. UNCHANGED <<sqHead, sqTail, sq, cqTail, device, tokenBuf, outBuf, prev, entry, worker.answer>>
  BY DEF Moves, counters, buffers
<1>2. Fresh' = Fresh /\ InputReady' = InputReady
  BY <1>1 DEF Fresh, InputReady, Holds
<1>3. \A n : Holds(n)' = Holds(n)
  BY <1>1 DEF Holds
<1>4. CASE UNCHANGED <<pc, then>>
  BY <1>1, <1>2, <1>3, <1>4 DEF NeverHolds, BuffersRight
<1>5. CASE pc \in Looking /\ pc' \in Looking
  BY <1>1, <1>2, <1>3, <1>5 DEF NeverHolds, BuffersRight, Looking, Completing
<1>6. CASE pc = "loop" /\ pc' = "drain"
  BY <1>1, <1>2, <1>3, <1>6 DEF NeverHolds, BuffersRight, Looking, Completing
<1>7. CASE pc \in {"spin", "drain"} /\ prev # None /\ pc' = "finish" /\ then' # "hold"
  BY <1>1, <1>2, <1>3, <1>7 DEF NeverHolds, BuffersRight, Looking, Completing
<1>8. CASE pc = "drain" /\ pc' = "exited"
  BY <1>1, <1>2, <1>3, <1>8 DEF NeverHolds, BuffersRight, Looking, Completing
<1> QED
  BY <1>4, <1>5, <1>6, <1>7, <1>8 DEF Moves, Looking

\* A step that leaves the completions as they are.
LEMMA TokensStay ==
  ASSUME UNCHANGED <<cqHead, cqTail, cq>>
  PROVE  TokensRight => TokensRight'
  BY DEF TokensRight, Between

\* A chained request is taken when the answer before it is in its buffer.
LEMMA TakeKeepsBuffers ==
  ASSUME WindowFits, InOrder, ~Pipelined, Take, NeverHolds, BuffersRight
  PROVE  NeverHolds' /\ BuffersRight'
<1>1. /\ InOrder' /\ pc = "take" /\ pc' \in {"commit", "drain"}
      /\ entry' = sq[Index(sqHead)] /\ entry'.id = sqHead
      /\ UNCHANGED <<sq, cqHead, cqTail, cq, depth, device, buffers, prev, then>>
  BY TakeKeepsOrder
<1>2. prev = None
  BY <1>1, NoSecond
<1>3. Fresh \/ Holds(Before(cqTail))
  BY <1>1, <1>2 DEF BuffersRight, Looking
<1>4. cqTail = sqHead
  BY <1>1, <1>2, Distances DEF InOrder, WorkerTook, StateTypes, Taken, Looking
<1>5. \A n : Holds(n)' = Holds(n)
  BY <1>1 DEF Holds, buffers
<1>6. (entry.chained => Holds(Before(entry.id)))'
  <2>1. CASE Fresh
    <3>1. Index(0) = 0
      BY WidthIs, ModSmall DEF Index
    <3>2. ~sq[0].chained /\ sqHead = 0
      BY <2>1 DEF Fresh
    <3> QED
      BY <1>1, <3>1, <3>2
  <2>2. CASE Holds(Before(cqTail))
    <3>1. PICK b : b = Before(cqTail) /\ b = Before(entry'.id)
      BY <1>1, <1>4
    <3> QED
      BY <1>5, <2>2, <3>1
  <2> QED
    BY <1>3, <2>1, <2>2
<1> QED
  BY <1>1, <1>2, <1>6 DEF NeverHolds, BuffersRight, Looking, Completing

\* The committed command finds its token, in one buffer or the other.
LEMMA CommitKeepsBuffers ==
  ASSUME WindowFits, InOrder, ~Pipelined, Commit, NeverHolds, BuffersRight
  PROVE  NeverHolds' /\ BuffersRight'
<1>1. /\ InOrder' /\ pc = "commit" /\ entry \in Commands
      /\ \/ depth = 1 /\ pc' = "finish" /\ then' = "loop" /\ prev' = entry.id
         \/ prev = None /\ pc' = "loop" /\ prev' = entry.id
         \/ depth # 1 /\ prev # None /\ pc' = "finish" /\ then' = "hold"
      /\ device' = Append(device, entry)
      /\ tokenBuf' = IF entry.chained THEN tokenBuf
                     ELSE [tokenBuf EXCEPT ![SlotOf(entry.id)] = entry.id]
      /\ UNCHANGED <<counters, sq, cq, depth, outBuf>>
  BY CommitKeepsOrder
<1>2. prev = None
  BY <1>1, NoSecond
<1>3. pc' \in {"finish", "loop"} /\ (pc' = "finish" => then' = "loop") /\ prev' = entry.id
  BY <1>1, <1>2
<1>4. Len(device) = 0
  BY <1>1, <1>2, DeviceInType DEF InOrder, DeviceHas
<1>5. device' # <<>> /\ device'[1] = entry
  <2>1. device \in Seq(Commands)
    BY DeviceInType
  <2>2. /\ Append(device, entry) \in Seq(Commands) /\ Len(Append(device, entry)) = 1
        /\ Append(device, entry)[1] = entry
    BY <1>1, <1>4, <2>1, QueueFacts
  <2>3. Append(device, entry) # <<>>
    BY <2>2, QueueFacts
  <2> QED
    BY <1>1, <2>2, <2>3
<1>6. InputReady'
  <2>1. CASE entry.chained
    <3>1. Holds(Before(entry.id))
      BY <1>1, <2>1 DEF BuffersRight
    <3>2. \A n : Holds(n)' = Holds(n)
      BY <1>1 DEF Holds
    <3>3. PICK b : b = Before(entry.id)
      OBVIOUS
    <3>4. Holds(b)' /\ Before(prev') = b
      BY <1>3, <3>1, <3>2, <3>3
    <3> QED
      BY <1>5, <2>1, <3>4 DEF InputReady
  <2>2. CASE ~entry.chained
    <3>1. SlotOf(entry.id) \in 0 .. 1
      BY <1>1, BuffersInTurn DEF Commands
    <3>2. tokenBuf'[SlotOf(entry.id)] = entry.id
      BY <1>1, <2>2, <3>1 DEF InOrder, StateTypes
    <3> QED
      BY <1>3, <1>5, <2>2, <3>2 DEF InputReady
  <2> QED
    BY <2>1, <2>2
<1>7. entry.id # None
  BY <1>1, CounterIs DEF Commands, None
<1> QED
  BY <1>3, <1>6, <1>7 DEF NeverHolds, BuffersRight, Looking, Completing

\* What is read after the wait is the command's own answer.
LEMMA FinishKeepsBuffers ==
  ASSUME InOrder, Finish, NeverHolds, BuffersRight
  PROVE  NeverHolds' /\ BuffersRight'
<1>1. /\ InOrder' /\ prev # None
      /\ pc = "finish" /\ pc' = "mirror" /\ worker'.answer = outBuf[SlotOf(prev)]
      /\ UNCHANGED <<counters, sq, cq, depth, device, buffers, prev, entry, then>>
  BY FinishKeepsOrder
<1>2. then # "hold" /\ then' = then
  BY <1>1 DEF NeverHolds, Completing
<1>3. device = <<>>
  BY <1>1, <1>2 DEF InOrder, DeviceHas
<1>4. Holds(prev)
  BY <1>1, <1>3 DEF BuffersRight, InputReady
<1>5. worker'.answer \in {prev', Garbage} /\ Holds(prev)'
  BY <1>1, <1>4 DEF Holds, buffers
<1> QED
  BY <1>1, <1>2, <1>5 DEF NeverHolds, BuffersRight, Looking, Completing

\* The copy goes to the other buffer, if anywhere.
LEMMA MirrorKeepsBuffers ==
  ASSUME InOrder, Mirror, NeverHolds, BuffersRight
  PROVE  NeverHolds' /\ BuffersRight'
<1>1. /\ pc = "mirror" /\ pc' = "publish"
      /\ UNCHANGED <<prev, entry, worker.answer, then>>
      /\ outBuf' = IF SlotOf(prev) # 0 THEN [outBuf EXCEPT ![0] = worker.answer] ELSE outBuf
  BY MirrorKeepsOrder
<1>2. prev \in Counter
  BY <1>1 DEF InOrder, WorkerTook, WorkerType, Completing, prev
<1>3. SlotOf(prev) \in 0 .. 1
  BY <1>2, BuffersInTurn
<1>4. outBuf'[SlotOf(prev)] = outBuf[SlotOf(prev)]
  BY <1>1, <1>3 DEF InOrder, StateTypes
<1>5. worker'.answer \in {prev', Garbage} /\ Holds(prev)'
  BY <1>1, <1>4 DEF BuffersRight, Holds
<1> QED
  BY <1>1, <1>5 DEF NeverHolds, BuffersRight, Looking, Completing

\* The completion carries what was read.
LEMMA PublishKeepsBuffers ==
  ASSUME WindowFits, InOrder, Publish, NeverHolds, BuffersRight, TokensRight
  PROVE  NeverHolds' /\ BuffersRight' /\ TokensRight'
<1>1. /\ Distance(cqHead, cqTail) < Capacity
      /\ pc = "publish" /\ pc' = "signal" /\ prev = cqTail /\ cqTail' = Plus1(cqTail)
      /\ UNCHANGED <<sqHead, sqTail, sq, cqHead, depth, device, buffers, prev, entry,
                     worker.answer, then>>
      /\ cq' = [cq EXCEPT ![Index(cqTail)] = [id |-> prev, token |-> worker.answer,
                                              ok |-> prev \notin failed]]
  BY PublishKeepsOrder
<1>2. worker.answer \in {prev, Garbage} /\ Holds(prev)
  BY <1>1 DEF BuffersRight
<1>3. Holds(prev)'
  BY <1>1, <1>2 DEF Holds, buffers
<1>4. NeverHolds' /\ BuffersRight'
  BY <1>1, <1>3 DEF NeverHolds, BuffersRight, Looking, Completing
<1>5. cqTail \in Counter /\ cqHead \in Counter /\ Index(cqTail) \in Places
  BY IndexIn, CounterIs DEF InOrder, StateTypes, Places
<1>6. ASSUME NEW n \in Between(cqHead, Plus1(cqTail)) PROVE cq'[Index(n)].token \in {n, Garbage}
  <2>1. n \in Counter /\ (n = cqTail \/ (n \in Between(cqHead, cqTail) /\ Index(n) # Index(cqTail)))
    BY <1>1, <1>5, RingPut
  <2>2. Index(n) \in Places
    BY <2>1, IndexIn, CounterIs DEF Places
  <2>3. CASE n = cqTail
    BY <1>1, <1>2, <1>5, <2>3 DEF InOrder, StateTypes
  <2>4. CASE n \in Between(cqHead, cqTail) /\ Index(n) # Index(cqTail)
    BY <1>1, <1>5, <2>2, <2>4 DEF InOrder, StateTypes, TokensRight
  <2> QED
    BY <2>1, <2>3, <2>4
<1>7. TokensRight'
  BY <1>1, <1>6 DEF TokensRight, Between
<1> QED
  BY <1>4, <1>7

\* The answer stays in its buffer for the next request.
LEMMA SignalKeepsBuffers ==
  ASSUME InOrder, Signal, NeverHolds, BuffersRight
  PROVE  NeverHolds' /\ BuffersRight'
<1>1. /\ pc = "signal" /\ prev # None
      /\ UNCHANGED <<counters, sq, cq, depth, device, buffers>>
      /\ IF then = "hold" THEN pc' = "loop" /\ prev' = entry.id
         ELSE pc' \in {"loop", "sleep", "drain"} /\ prev' = None
  BY SignalKeepsOrder
<1>2. pc' \in {"loop", "sleep", "drain"} /\ prev' = None
  BY <1>1 DEF NeverHolds
<1>3. prev \in Counter /\ cqTail = Plus1(prev)
  BY <1>1 DEF InOrder, WorkerTook, WorkerType, prev
<1>4. Before(cqTail) = prev
  BY <1>3, Distances
<1>5. Holds(prev)
  BY <1>1 DEF BuffersRight
<1>6. \A n : Holds(n)' = Holds(n)
  BY <1>1 DEF Holds, buffers
<1>7. Holds(Before(cqTail))'
  <2>1. PICK b : b = prev
    OBVIOUS
  <2>2. Holds(b)' /\ Before(cqTail') = b
    BY <1>1, <1>4, <1>5, <1>6, <2>1 DEF counters
  <2> QED
    BY <2>2
<1> QED
  BY <1>2, <1>7 DEF NeverHolds, BuffersRight, Looking, Completing

\* The device gives the command in flight its own answer, or none.
LEMMA ExecuteKeepsBuffers ==
  ASSUME WindowFits, InOrder, ~Pipelined, Execute, NeverHolds, BuffersRight
  PROVE  NeverHolds' /\ BuffersRight'
<1>1. /\ device # <<>> /\ device' = Tail(device)
      /\ UNCHANGED <<counters, sq, cq, depth, worker>>
  BY ExecuteKeepsOrder
<1>2. /\ Len(device) = 1 /\ device[1].id = prev /\ prev # None
      /\ pc \in Looking \cup {"finish", "drain"}
  <2>1. pc # "commit"
    BY <1>1, NoSecond DEF InOrder, DeviceHas
  <2>2. pc \notin {"mirror", "publish", "signal"}
    BY <1>1 DEF InOrder, DeviceHas, NeverHolds, Completing
  <2>3. AtMost(prev) /\ prev # None /\ pc \in Looking \cup {"finish", "drain"}
    <3>1. CASE pc \in Looking \cup {"drain", "exited"}
      BY <1>1, <3>1 DEF InOrder, DeviceHas, WorkerTook
    <3>2. CASE pc = "finish"
      BY <1>1, <3>2 DEF InOrder, DeviceHas, NeverHolds, WorkerTook, Completing
    <3> QED
      BY <2>1, <2>2, <3>1, <3>2 DEF InOrder, WorkerType, pc, Completing
  <2>4. Len(device) = 1
    <3>1. PICK k \in Nat : k = Len(device)
      BY DeviceInType
    <3>2. k # 0 /\ k <= 1
      BY <1>1, <2>3, <3>1, DeviceInType DEF AtMost
    <3>3. k = 1
      BY <3>2
    <3> QED
      BY <3>1, <3>3
  <2> QED
    BY <2>3, <2>4 DEF AtMost
<1>3. PICK e \in Commands : e = device[1] /\ e = Head(device) /\ e.id = prev
  <2>1. device \in Seq(Commands) /\ 1 \in 1 .. Len(device)
    BY <1>2, DeviceInType
  <2> QED
    BY <1>1, <1>2, <2>1, QueueFacts
<1>4. device' = <<>>
  <2>1. device \in Seq(Commands)
    BY DeviceInType
  <2>2. Len(Tail(device)) = 0 /\ Tail(device) \in Seq(Commands)
    BY <1>1, <1>2, <2>1, QueueFacts
  <2>3. Tail(device) = <<>>
    BY <2>2, QueueFacts
  <2> QED
    BY <1>1, <2>3
<1>5. prev \in Counter /\ SlotOf(prev) \in 0 .. 1 /\ SlotOf(Before(prev)) = Other(SlotOf(prev))
  BY <1>3, BuffersInTurn DEF Commands
<1>6. InputReady
  BY <1>2 DEF BuffersRight
<1>7. IF e.chained THEN outBuf[Other(SlotOf(prev))] \in {Before(prev), Garbage}
      ELSE tokenBuf[SlotOf(prev)] = prev
  BY <1>1, <1>3, <1>5, <1>6 DEF InputReady, Holds
<1>8. \E a \in {prev, Garbage} : outBuf' = [outBuf EXCEPT ![SlotOf(prev)] = a]
  <2>1. ASSUME outBuf' # [outBuf EXCEPT ![SlotOf(prev)] = Garbage]
        PROVE  outBuf' = [outBuf EXCEPT ![SlotOf(prev)] = prev]
    <3>1. PICK token : /\ token = IF e.chained THEN outBuf[Other(SlotOf(prev))] ELSE tokenBuf[SlotOf(prev)]
                       /\ outBuf' = [outBuf EXCEPT ![SlotOf(prev)] =
                                       IF token = Garbage THEN Garbage
                                       ELSE IF InputRight(e, token) THEN prev ELSE Wrong]
      BY <1>3, <2>1 DEF Execute
    <3>2. token # Garbage
      BY <2>1, <3>1
    <3>3. InputRight(e, token)
      BY <1>3, <1>7, <3>1, <3>2 DEF InputRight, Before
    <3> QED
      BY <3>1, <3>2, <3>3
  <2> QED
    BY <2>1
<1>9. outBuf'[SlotOf(prev)] \in {prev, Garbage}
  BY <1>5, <1>8 DEF InOrder, StateTypes
<1>10. pc' = pc /\ prev' = prev /\ then' = then
  BY <1>1 DEF pc, prev, then
<1>11. InputReady'
  BY <1>4, <1>9, <1>10 DEF InputReady, Holds
<1> QED
  BY <1>2, <1>10, <1>11 DEF NeverHolds, BuffersRight, Looking, Completing

\* A submission overwrites no answer.
LEMMA SubmitKeepsBuffers ==
  ASSUME WindowFits, InOrder, NEW c \in BOOLEAN, Submit(c), NeverHolds, BuffersRight
  PROVE  NeverHolds' /\ BuffersRight'
<1>1. /\ sqTail' = Plus1(sqTail) /\ Uncollected < Window[depth] /\ Waiting < Capacity
      /\ sq' = [sq EXCEPT ![Index(sqTail)] = Entry(sqTail, c)]
      /\ UNCHANGED <<sqHead, cqHead, cqTail, cq, depth, device, buffers, worker>>
  BY SubmitKeepsOrder
<1>2. pc' = pc /\ prev' = prev /\ then' = then /\ entry' = entry /\ worker'.answer = worker.answer
  BY <1>1 DEF pc, prev, then, entry
<1>3. \A n : Holds(n)' = Holds(n)
  BY <1>1 DEF Holds, buffers
<1>4. InputReady' = InputReady
  BY <1>1, <1>2 DEF InputReady, Holds, buffers
<1>5. /\ sqTail \in Counter /\ sqHead \in Counter
      /\ Capacity \in Nat \ {0} /\ Capacity <= Wrap - 1 /\ Wrap \in Nat
  BY WidthIs, Room DEF InOrder, StateTypes
<1>6. Fresh => Fresh'
  <2> SUFFICES ASSUME Fresh PROVE Fresh'
    OBVIOUS
  <2>1. sqHead = 0 /\ cqTail = 0 /\ ~sq[0].chained /\ (sqTail = 0 => \A i \in Places : sq[i].id = None)
    BY DEF Fresh
  <2>2. sqTail < Capacity
    <3>1. 0 <= sqTail /\ Distance(0, sqTail) = sqTail - 0 /\ sqTail \in Nat
      BY <1>5, <2>1, DistanceIs, CounterIs
    <3> QED
      BY <1>1, <2>1, <3>1 DEF Waiting
  <2>3. sqTail \in 0 .. Capacity - 1 /\ Index(sqTail) = sqTail
    BY <1>5, <2>2, CounterIs, ModSmall DEF Index
  <2>4. sqTail' # 0
    BY <1>1, <1>5, <2>2, <2>3, Plus1Is
  <2>5. ~sq'[0].chained
    <3>1. sq \in [Places -> Entries] /\ 0 \in Places
      BY <1>5 DEF InOrder, StateTypes, Places
    <3>2. CASE sqTail = 0
      <4>1. ~c
        <5>1. Index(sqTail - 1) \in Places
          BY <3>2, IndexIn DEF Places
        <5> QED
          BY <2>1, <3>2, <5>1 DEF Submit
      <4> QED
        BY <1>1, <2>3, <3>1, <3>2, <4>1 DEF Entry
    <3>3. CASE sqTail # 0
      BY <1>1, <2>1, <2>3, <3>1, <3>3
    <3> QED
      BY <3>2, <3>3
  <2> QED
    BY <1>1, <2>1, <2>4, <2>5 DEF Fresh
<1> QED
  BY <1>1, <1>2, <1>3, <1>4, <1>6 DEF NeverHolds, BuffersRight, Holds, buffers

\* Collecting touches no buffer.
LEMMA CollectKeepsBuffers ==
  ASSUME WindowFits, InOrder, Collect, NeverHolds, BuffersRight, TokensRight
  PROVE  NeverHolds' /\ BuffersRight' /\ TokensRight'
<1>1. /\ Between(cqHead', cqTail') \subseteq Between(cqHead, cqTail)
      /\ UNCHANGED <<sqHead, sqTail, sq, cqTail, cq, depth, device, buffers, worker>>
  BY CollectKeepsOrder
<1>2. TokensRight'
  BY <1>1 DEF TokensRight
<1>3. NeverHolds' /\ BuffersRight'
  BY <1>1 DEF NeverHolds, BuffersRight, Fresh, InputReady, Holds, buffers, pc, prev, then, entry
<1> QED
  BY <1>2, <1>3

\* Every completion carries the answer to its own request, or what a failed command
\* leaves, when one command is in flight: at depth 1, and for a client that collects
\* each answer before the next submission, as execute_static_decode does.
THEOREM UnpipelinedAnswersRight ==
  ASSUME WindowFits
  PROVE  Spec => []AnswersRightUnpipelined
<1> DEFINE Sound == InOrder /\ OneByOne
<1>1. ASSUME Init PROVE Sound
  <2>1. InOrder
    BY <1>1, OrderIsInvariant
  <2>2. pc = "loop" /\ prev = None /\ cqHead = 0 /\ cqTail = 0
    BY <1>1 DEF Init, Idle, pc, prev
  <2>3. Fresh
    <3>1. 0 \in Places
      BY WidthIs DEF Places
    <3> QED
      BY <1>1, <3>1 DEF Init, Fresh, Entry, Places
  <2>4. Between(cqHead, cqTail) = {}
    <3>1. 0 \in Counter
      BY WidthIs, CounterIs
    <3>2. ASSUME NEW n \in Counter PROVE ~(Distance(0, n) < Distance(0, 0))
      BY <3>1, Distances, WidthIs
    <3> QED
      BY <2>2, <3>2 DEF Between
  <2> QED
    BY <2>1, <2>2, <2>3, <2>4 DEF OneByOne, NeverHolds, BuffersRight, TokensRight, Looking, Completing
<1>2. ASSUME Sound, [Next]_vars PROVE Sound'
  <2>1. InOrder /\ InOrder'
    BY <1>2, OrderIsInvariant
  <2>2. depth' = depth
    BY <1>2 DEF Next, vars, Work, Proceed, Begin, Loop, Spin, Sleep, Take, Commit, Finish, Mirror,
       Publish, Signal, Drain, Execute, SubmitSignal, CheckCompletion, Collect, Broadcast, Join,
       Submit, WaitCompletion, PollCompletion, Destroy, workerOnly, clientOnly
  <2> SUFFICES ASSUME ~Pipelined PROVE (NeverHolds /\ BuffersRight /\ TokensRight)'
    BY <2>1, <2>2 DEF OneByOne, Pipelined
  <2>3. NeverHolds /\ BuffersRight /\ TokensRight /\ StateTypes /\ WorkerType
    BY <1>2, <2>1 DEF OneByOne, InOrder
  <2>4. CASE Looks
    <3>1. Moves
      BY <2>3, <2>4, LooksAreMoves
    <3> QED
      BY <2>1, <2>3, <3>1, MovesKeepBuffers, TokensStay DEF Moves, counters
  <2>5. CASE Talks
    <3>1. Moves
      BY <2>3, <2>5, TalksAreMoves
    <3> QED
      BY <2>1, <2>3, <3>1, MovesKeepBuffers, TokensStay DEF Moves, counters
  <2>6. CASE Take
    <3>1. UNCHANGED <<cqHead, cqTail, cq>>
      BY <2>6 DEF Take, workerOnly
    <3> QED
      BY <2>1, <2>3, <2>6, <3>1, TakeKeepsBuffers, TokensStay
  <2>7. CASE Commit
    <3>1. UNCHANGED <<cqHead, cqTail, cq>>
      BY <2>7 DEF Commit, workerOnly, rings
    <3> QED
      BY <2>1, <2>3, <2>7, <3>1, CommitKeepsBuffers, TokensStay
  <2>8. CASE Finish
    <3>1. UNCHANGED <<cqHead, cqTail, cq>>
      BY <2>8 DEF Finish, workerOnly, rings
    <3> QED
      BY <2>1, <2>3, <2>8, <3>1, FinishKeepsBuffers, TokensStay
  <2>9. CASE Mirror
    <3>1. UNCHANGED <<cqHead, cqTail, cq>>
      BY <2>9 DEF Mirror, workerOnly, rings
    <3> QED
      BY <2>1, <2>3, <2>9, <3>1, MirrorKeepsBuffers, TokensStay
  <2>10. CASE Publish
    BY <2>1, <2>3, <2>10, PublishKeepsBuffers
  <2>11. CASE Signal
    <3>1. UNCHANGED <<cqHead, cqTail, cq>>
      BY <2>11 DEF Signal, workerOnly, rings
    <3> QED
      BY <2>1, <2>3, <2>11, <3>1, SignalKeepsBuffers, TokensStay
  <2>12. CASE Execute
    <3>1. UNCHANGED <<cqHead, cqTail, cq>>
      BY <2>12 DEF Execute
    <3> QED
      BY <2>1, <2>3, <2>12, <3>1, ExecuteKeepsBuffers, TokensStay
  <2>13. ASSUME NEW c \in BOOLEAN, Submit(c) PROVE (NeverHolds /\ BuffersRight /\ TokensRight)'
    <3>1. UNCHANGED <<cqHead, cqTail, cq>>
      BY <2>13 DEF Submit, clientOnly
    <3> QED
      BY <2>1, <2>3, <2>13, <3>1, SubmitKeepsBuffers, TokensStay
  <2>14. CASE Collect
    BY <2>1, <2>3, <2>14, CollectKeepsBuffers
  <2>15. CASE UNCHANGED vars
    BY <2>3, <2>15 DEF vars, NeverHolds, BuffersRight, TokensRight, Between, Fresh, InputReady, Holds,
       pc, prev, then, entry
  <2> QED
    BY <1>2, <2>4, <2>5, <2>6, <2>7, <2>8, <2>9, <2>10, <2>11, <2>12, <2>13, <2>14, <2>15
       DEF Next, Work, Proceed, Begin, Looks, Talks
<1>3. Sound => AnswersRightUnpipelined
  BY DEF OneByOne, Pipelined, TokensRight, AnswersRightUnpipelined, AnswersRight
<1> QED
  BY <1>1, <1>2, <1>3, PTL DEF Spec
=============================================================================
