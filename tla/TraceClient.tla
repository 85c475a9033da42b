---------------------------- MODULE TraceClient ----------------------------
(***************************************************************************)
(* A multi-turn workload played by the benchmark clients of src/bench.     *)
(* Conversations run side by side, the turns of one conversation one after *)
(* the other: a turn's prompt holds the answers to the earlier turns, and  *)
(* after a failed turn the rest of the conversation is skipped.            *)
(*                                                                         *)
(*   http     racebench/http.py: one task per conversation, the requests   *)
(*            run on a pool of threads, over one connection that is kept   *)
(*            or reopened for each turn;                                   *)
(*   poisson  lfm25_poisson_bench.py: one-turn conversations of the same   *)
(*            requests, each holding a thread from its arrival on;         *)
(*   local    lfm25_benchsuite.py: the model in this process, a thread     *)
(*            held by a conversation from its first turn to its last.      *)
(*                                                                         *)
(* The server is an actor of its own: it may cut an answer short, end the  *)
(* body without [DONE], fail, or fall silent.  An answer is the number of  *)
(* its tokens; times are left out.                                         *)
(***************************************************************************)
EXTENDS Naturals, Sequences, FiniteSets

CONSTANTS
  Conversations,  \* their number
  Turns,          \* user_turns_per_conversation
  Workers,        \* max_workers
  MaxTokens,      \* of each turn
  Modes           \* the settings that are explored

ASSUME TraceAssumption ==
  /\ Conversations \in Nat \ {0} /\ Turns \in Nat \ {0}
  /\ Workers \in Nat \ {0} /\ MaxTokens \in Nat \ {0}
  /\ Modes \subseteq [client : {"http", "poisson", "local"}, reuse : BOOLEAN, chunked : BOOLEAN]

VARIABLES
  mode,      \* which client, reuse_connections, and how the server frames a body
  talk,      \* each conversation's task
  results,   \* each conversation's results in order
  requests,  \* the messages of each request the server was sent
  faults     \* the turns in which the server or the model failed

traceVars == <<mode, talk, results, requests, faults>>

Conversation == 1 .. Conversations
TurnCount == IF mode.client = "poisson" THEN 1 ELSE Turns

User(t) == [role |-> "user", turn |-> t, tokens |-> 0]
Assistant(t, n) == [role |-> "assistant", turn |-> t, tokens |-> n]

\* link: "usable", or "unread" when a kept connection still holds the end of
\* the last response.  usage: completion_tokens of the usage event, 0: none.
NewTalk == [pc |-> "waiting", turn |-> 1, messages |-> <<>>, link |-> "usable",
            got |-> 0, usage |-> 0]

TraceInit ==
  /\ mode \in Modes
  /\ talk = [c \in Conversation |-> NewTalk]
  /\ results = [c \in Conversation |-> <<>>]
  /\ requests = [c \in Conversation |-> <<>>]
  /\ faults = {}

\* The threads of the pool that are taken.
InPool ==
  IF mode.client = "http" THEN {c \in Conversation : talk[c].pc = "streaming"}
  ELSE {c \in Conversation : talk[c].pc \notin {"waiting", "done"}}
-----------------------------------------------------------------------------
\* A conversation's task starts: at once as a coroutine, else in the order of
\* submission when the pool has a thread.
Start(c) ==
  /\ talk[c].pc = "waiting"
  /\ mode.client # "http" =>
       Cardinality(InPool) < Workers /\ \A d \in 1 .. c - 1 : talk[d].pc # "waiting"
  /\ talk' = [talk EXCEPT ![c].pc = "ready"]
  /\ UNCHANGED <<mode, results, requests, faults>>

\* Mutant of Prepare: the connection is never reopened.
PrepareKept(c) ==
  /\ talk[c].pc = "ready"
  /\ talk' = [talk EXCEPT ![c].pc = "queued", ![c].messages = Append(@, User(talk[c].turn))]
  /\ UNCHANGED <<mode, results, requests, faults>>

\* The next turn, after its arrival or think time: its text joins the messages.
Prepare(c) ==
  /\ talk[c].pc = "ready"
  /\ talk' = [talk EXCEPT ![c].pc = "queued", ![c].messages = Append(@, User(talk[c].turn)),
                          ![c].link = IF mode.reuse THEN @ ELSE "usable"]
  /\ UNCHANGED <<mode, results, requests, faults>>

Skipped(t) == [turn |-> t, outcome |-> "skipped", tokens |-> 0]

\* The result of the turn; a failed one takes the rest of the conversation along.
Finish(c, ok, link) ==
  LET t == talk[c].turn
      result == [turn |-> t, outcome |-> IF ok THEN "ok" ELSE "failed", tokens |-> talk[c].got]
  IN
  /\ results' = [results EXCEPT ![c] = Append(@, result) \o
       IF ok THEN <<>> ELSE [i \in 1 .. TurnCount - t |-> Skipped(t + i)]]
  /\ talk' = [talk EXCEPT
       ![c].pc = IF ok /\ t < TurnCount THEN "ready" ELSE "done",
       ![c].turn = IF ok /\ t < TurnCount THEN t + 1 ELSE t,
       ![c].messages = IF ok THEN Append(@, Assistant(t, talk[c].got)) ELSE @,
       ![c].link = link, ![c].got = 0, ![c].usage = 0]

\* The request goes out; getresponse then refuses to read the answer while the
\* end of the previous response is unread.
Send(c) ==
  /\ talk[c].pc = "queued" /\ mode.client # "local"
  /\ mode.client = "http" => Cardinality(InPool) < Workers
  /\ requests' = [requests EXCEPT ![c] = Append(@, talk[c].messages)]
  /\ IF talk[c].link = "unread" THEN Finish(c, FALSE, "usable")
     ELSE talk' = [talk EXCEPT ![c].pc = "streaming"] /\ UNCHANGED results
  /\ UNCHANGED <<mode, faults>>

ReadToken(c) ==
  /\ talk[c].pc = "streaming" /\ talk[c].got < MaxTokens /\ talk[c].usage = 0
  /\ talk' = [talk EXCEPT ![c].got = @ + 1]
  /\ UNCHANGED <<mode, results, requests, faults>>

\* The server counts the tokens it made, which may not all have been sent.
ReadUsage(c) ==
  /\ talk[c].pc = "streaming" /\ talk[c].usage = 0
  /\ \E n \in talk[c].got .. MaxTokens : n > 0 /\ talk' = [talk EXCEPT ![c].usage = n]
  /\ UNCHANGED <<mode, results, requests, faults>>

\* A turn succeeds if a token was seen; the count is then positive, be it the
\* server's or the client's own.
Succeeds(c) == talk[c].got > 0

\* After [DONE] the rest of a chunked body is left unread.
ReadDone(c) ==
  /\ talk[c].pc = "streaming"
  /\ Finish(c, Succeeds(c), IF mode.chunked THEN "unread" ELSE "usable")
  /\ faults' = IF Succeeds(c) THEN faults ELSE faults \cup {<<c, talk[c].turn>>}
  /\ UNCHANGED <<mode, requests>>

\* The body ends without [DONE]; the answer counts as far as it came.
ReadEnd(c) ==
  /\ talk[c].pc = "streaming"
  /\ Finish(c, Succeeds(c), "usable")
  /\ faults' = IF Succeeds(c) THEN faults ELSE faults \cup {<<c, talk[c].turn>>}
  /\ UNCHANGED <<mode, requests>>

\* An error status, an event that is no JSON, a reset, or a chunk cut off.
Breaks(c) ==
  /\ talk[c].pc = "streaming"
  /\ Finish(c, FALSE, "usable")
  /\ faults' = faults \cup {<<c, talk[c].turn>>}
  /\ UNCHANGED <<mode, requests>>

\* Mutant of TimesOut: the timeout guards the first event only.
TimesOutAtFirst(c) ==
  /\ talk[c].pc = "streaming" /\ talk[c].got = 0
  /\ Finish(c, FALSE, "usable")
  /\ faults' = faults \cup {<<c, talk[c].turn>>}
  /\ UNCHANGED <<mode, requests>>

\* The server has been silent for timeout_s.
TimesOut(c) ==
  /\ talk[c].pc = "streaming"
  /\ Finish(c, FALSE, "usable")
  /\ faults' = faults \cup {<<c, talk[c].turn>>}
  /\ UNCHANGED <<mode, requests>>

\* generate_request: all the tokens that were asked for, or an exception.
Generate(c) ==
  /\ talk[c].pc = "queued" /\ mode.client = "local"
  /\ requests' = [requests EXCEPT ![c] = Append(@, talk[c].messages)]
  /\ \/ /\ talk' = [talk EXCEPT ![c].pc = "generated", ![c].got = MaxTokens]
        /\ UNCHANGED <<results, faults>>
     \/ /\ Finish(c, FALSE, "usable")
        /\ faults' = faults \cup {<<c, talk[c].turn>>}
  /\ UNCHANGED mode

Generated(c) ==
  /\ talk[c].pc = "generated"
  /\ Finish(c, TRUE, "usable")
  /\ UNCHANGED <<mode, requests, faults>>

TraceNext ==
  \/ \E c \in Conversation : Start(c)
  \/ \E c \in Conversation : Prepare(c)
  \/ \E c \in Conversation : Send(c)
  \/ \E c \in Conversation : ReadToken(c)
  \/ \E c \in Conversation : ReadUsage(c)
  \/ \E c \in Conversation : ReadDone(c)
  \/ \E c \in Conversation : ReadEnd(c)
  \/ \E c \in Conversation : Breaks(c)
  \/ \E c \in Conversation : TimesOut(c)
  \/ \E c \in Conversation : Generate(c)
  \/ \E c \in Conversation : Generated(c)

\* The client's threads run, and its sockets time out; the server owes nothing.
ClientStep(c) ==
  Start(c) \/ Prepare(c) \/ Send(c) \/ TimesOut(c) \/ Generate(c) \/ Generated(c)
-----------------------------------------------------------------------------
\* One result for each turn, in order: turns that succeeded, at most one that
\* failed, and then only skipped ones.
OneResultPerTurn(c) ==
  LET rs == results[c] IN
  /\ \A i \in DOMAIN rs : rs[i].turn = i
  /\ \A i, j \in DOMAIN rs : i < j =>
       /\ rs[j].outcome # "skipped" => rs[i].outcome = "ok"
       /\ rs[j].outcome = "skipped" => rs[i].outcome # "ok" \/ i < j - 1
  /\ talk[c].pc = "done" <=> Len(rs) = TurnCount

\* The server sees the turns of a conversation in order, each once, each with
\* what the client was told in the turns before, and no skipped one.
PromptsFaithful(c) ==
  \A i \in DOMAIN requests[c] :
    /\ i \in DOMAIN results[c] => results[c][i].outcome # "skipped"
    /\ requests[c][i] = [j \in 1 .. 2 * i - 1 |->
         IF j % 2 = 1 THEN User((j + 1) \div 2)
         ELSE Assistant(j \div 2, results[c][j \div 2].tokens)]

\* A turn fails through the server or the model alone, unless a connection is
\* kept over turns whose chunked answers end with [DONE].
FailuresExplained(c) ==
  \A i \in DOMAIN results[c] : results[c][i].outcome = "failed" =>
    <<c, i>> \in faults \/ (mode.reuse /\ mode.chunked /\ i > 1)

\* What a report's numbers rest on (summarize divides by them): every turn has
\* its result, the prompts were the ones the workload describes, a failure is
\* not of the client's own making, and the pool is never exceeded.
TraceExact ==
  /\ Cardinality(InPool) <= Workers
  /\ \A c \in Conversation : OneResultPerTurn(c) /\ PromptsFaithful(c) /\ FailuresExplained(c)

\* A trace ends even if the server falls silent in the middle of an answer.
TraceFinishes == <>(\A c \in Conversation : talk[c].pc = "done")
=============================================================================
