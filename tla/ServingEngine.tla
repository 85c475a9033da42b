--------------------------- MODULE ServingEngine ---------------------------
(***************************************************************************)
(* The transactions of src/lib/serving_engine.ml over the serving cache: a *)
(* call matches a prefix and leases it, reserves slots, has the device     *)
(* fill them, hands them to the tree or gives them back, and releases the  *)
(* lease.  The engine has one thread, so one call is under way at a time;  *)
(* open cursors (Sequence.t) keep their leases between calls.              *)
(*                                                                         *)
(* The content of device memory is the prefix it was computed from: {p}    *)
(* for the token (or the recurrent state) at the end of prefix p computed  *)
(* from the states of exactly p's prefixes, {} for anything else.  Only    *)
(* slots and checkpoints in use have content: nothing reads a free one but *)
(* the decode of a cursor that outlived a reset, whose result is an error. *)
(***************************************************************************)
EXTENDS ServingCache

CONSTANTS
  Cursor,      \* names for open Sequence cursors
  Prompts,     \* bound: the token strings the calls are made with
  Recurrent    \* contract.recurrents <> []: the model keeps recurrent state

ASSUME RecurrentAssumption == Recurrent \in BOOLEAN
ASSUME PromptsAssumption == Prompts \subseteq Keys
ASSUME CallerAssumption == Caller # {}   \* the engine is one

VARIABLES
  call,        \* the call under way
  cursors,     \* sequence.step's tokens and sequence.match_ of the open cursors
  orphans,     \* the open cursors whose match is of a cache a reset has dropped
  slotData,    \* content of the token slots
  ckptData,    \* content of the recurrent checkpoints
  decodeBuf,   \* engine.decode_recurrent_buffers, at most one
  planBuf,     \* the buffers the retained decode_executable was bound to
  bufData,     \* content of the recurrent buffers
  lastCkpt     \* engine.decode_checkpoint

deviceVars == <<slotData, ckptData, decodeBuf, planBuf, bufData, lastCkpt>>
cursorVars == <<cursors, orphans>>
engineVars == <<vars, call, cursorVars, deviceVars>>

Me == CHOOSE c \in Caller : TRUE

\* Names for what calls that ended in an exception had reserved.  Bound: one
\* such call per name, between two resets.
Lost == Caller \ {Me}

Buffer == 1 .. 3   \* the retained buffers, the plan's, and those of a replay

\* An uncached suffix shorter than this is replayed token by token.
SuffixPrefillMin == 3

NoCall == [op |-> "none", phase |-> "idle", tokens |-> <<>>, base |-> 0,
           lease |-> {}, cursor |-> {}, slots |-> <<>>, done |-> 0]

EngineInit ==
  /\ Init
  /\ call = NoCall
  /\ cursors = <<>>
  /\ orphans = {}
  /\ slotData = <<>>
  /\ ckptData = <<>>
  /\ decodeBuf = {}
  /\ planBuf = {}
  /\ bufData = [b \in Buffer |-> {}]
  /\ lastCkpt = {}
-----------------------------------------------------------------------------
(* The call under way. *)

\* Bound: after a release that a pool refused, no further call is started.
Idle == call.phase = "idle" /\ ~refused
In(phase) == call.phase = phase
Goto(phase) == call' = [call EXCEPT !.phase = phase]

Begin(op, tokens, base, lease, cursor) ==
  call' = [NoCall EXCEPT !.op = op, !.phase = "matched", !.tokens = tokens,
                         !.base = base, !.lease = lease, !.cursor = cursor]

\* The leased prefix the call builds on; the part of its tokens still to compute.
Source == IF call.lease = {} THEN Lease(Root, <<>>, {})
          ELSE leases[CHOOSE l \in call.lease : TRUE]
Cached == Len(Source.node)
Suffix == Len(call.tokens) - Cached

Replays == call.op = "prompt" /\ Cached > 0 /\ Suffix < SuffixPrefillMin
StepsToken == call.op \in {"decode", "cursor"} \/ Replays

CkptsNeeded ==
  IF ~Recurrent \/ call.op = "lookup" THEN 0
  ELSE IF Replays THEN Suffix ELSE 1

Reserved == held[Me].slots
NextCkpt == First(held[Me].ckpts)

\* Both pools take back what a settling step gives them.
Accepted(S, K) == S \subseteq tokensUsed /\ K \subseteq ckptsUsed

\* Only what is in use after the step has content.
KeepContent ==
  /\ slotData' = [s \in DOMAIN slotData \cap tokensUsed' |-> slotData[s]]
  /\ ckptData' = [k \in DOMAIN ckptData \cap ckptsUsed' |-> ckptData[k]]

SameBuffers == UNCHANGED <<decodeBuf, planBuf, bufData>>
-----------------------------------------------------------------------------
(* Starting a call, and what its match decides. *)

\* prompt, and verify_prompt: the last token is left out of the lookup.
StartPrompt(op, l, tokens) ==
  /\ Idle
  /\ Match(l, tokens, 1)
  /\ Begin(op, tokens, 0, {l}, {})
  /\ UNCHANGED <<cursorVars, deviceVars>>

\* decode, also for the items of step_batch: all but the last token are cached.
StartDecode(l, tokens) ==
  /\ Idle
  /\ Match(l, tokens, 1)
  /\ Begin("decode", tokens, Len(tokens) - 1, {l}, {})
  /\ UNCHANGED <<cursorVars, deviceVars>>

\* verify_and_commit: tokens are the history and the draft; the last token of
\* the history and the draft are to be computed.
StartLookup(l, tokens, draft) ==
  /\ Idle
  /\ ~Recurrent
  /\ draft \in 1 .. Len(tokens) - 1
  /\ Match(l, tokens, draft + 1)
  /\ Begin("lookup", tokens, Len(tokens) - draft - 1, {l}, {})
  /\ UNCHANGED <<cursorVars, deviceVars>>

\* Sequence.decode: the cursor's own lease is the source.
StartCursor(q, token) ==
  /\ Idle
  /\ Len(cursors[q].tokens) < MaxLength
  /\ Begin("cursor", Append(cursors[q].tokens, token), Len(cursors[q].tokens),
           {cursors[q].lease}, {q})
  /\ UNCHANGED <<vars, cursorVars, deviceVars>>

\* A prompt that matches nothing gives the lease back and is prefilled.
MissedPrompt == call.op = "prompt" /\ Cached = 0

\* Mutant of Miss: the lease on the root is not given back.
MissKeepsLease ==
  /\ In("matched") /\ MissedPrompt
  /\ call' = [call EXCEPT !.lease = {}, !.phase = "reserve"]
  /\ UNCHANGED <<vars, cursorVars, deviceVars>>

Miss ==
  /\ In("matched") /\ MissedPrompt
  /\ \E l \in call.lease : ReleaseMatch(l)
  /\ call' = [call EXCEPT !.lease = {}, !.phase = "reserve"]
  /\ UNCHANGED <<cursorVars, deviceVars>>

\* The match does not suit the operation, or lacks the recurrent checkpoint.
Unsuitable ==
  \/ call.op = "verify" /\ (Cached = 0 \/ Suffix < SuffixPrefillMin)
  \/ call.op \in {"decode", "cursor", "lookup"} /\ Cached # call.base
  \/ call.op \in {"decode", "cursor"} /\ Cached = 0
  \/ Recurrent /\ Source.ckpt = {}

Suit ==
  /\ In("matched") /\ ~MissedPrompt
  /\ Goto(IF Unsuitable THEN "close" ELSE "reserve")
  /\ UNCHANGED <<vars, cursorVars, deviceVars>>
-----------------------------------------------------------------------------
(* Reserving. *)

ReserveForCall ==
  /\ In("reserve")
  /\ \E K \in kSubset(CkptsNeeded, Ckpt \ ckptsUsed) : \E ckpts \in SetToSeqs(K) :
        Reserve(Me, Suffix, ckpts)
  /\ call' = [call EXCEPT !.phase = "run", !.slots = held'[Me].slots]
  /\ UNCHANGED <<cursorVars, deviceVars>>

\* A pool is short (what was reserved before is given back at once), or the
\* device failed in prefill, which executes before it reserves.
ReserveFails ==
  /\ In("reserve")
  /\ \/ Suffix > Cardinality(Slot \ tokensUsed)
     \/ CkptsNeeded > Cardinality(Ckpt \ ckptsUsed)
     \/ call.lease = {}
  /\ Goto("close")
  /\ UNCHANGED <<vars, cursorVars, deviceVars>>
-----------------------------------------------------------------------------
(* The device. *)

ContentOf(data, x) == IF x \in DOMAIN data THEN data[x] ELSE {}
SourceState == UNION {ContentOf(ckptData, k) : k \in Source.ckpt}

\* The attention layers read the slots of the leased prefix.
AttentionRight ==
  \A i \in 1 .. Cached : ContentOf(slotData, Source.values[i]) = {Upto(Source.node, i)}

\* What the device leaves in the reserved slots and checkpoints: the states of
\* the suffix, if it started from the right ones.
Fill(right) ==
  LET content(p) == IF right THEN {p} ELSE {}
      ckpts == held[Me].ckpts
      ends(i) == IF Replays THEN Upto(call.tokens, Cached + i) ELSE call.tokens
      slotOf(s) == Upto(call.tokens, Cached + CHOOSE i \in 1 .. Len(Reserved) : Reserved[i] = s)
      ckptOf(k) == ends(CHOOSE i \in 1 .. Len(ckpts) : ckpts[i] = k)
  IN  /\ slotData' = Extended([s \in Range(Reserved) |-> content(slotOf(s))], slotData)
      /\ ckptData' = Extended([k \in Range(ckpts) |-> content(ckptOf(k))], ckptData)

\* prefill, suffix_prefill and the lookup verifier run whole schedules, with
\* recurrent states unpacked for the occasion.  The verifier needs a slot to read.
RunSchedule ==
  /\ In("run") /\ ~StepsToken
  /\ call.op = "lookup" => Cached > 0
  /\ Fill(AttentionRight /\ (Recurrent /\ Cached > 0 => SourceState = {Source.node}))
  /\ Goto(IF call.op = "verify" THEN "abort"
          ELSE IF call.op = "lookup" THEN "accept" ELSE "insert")
  /\ UNCHANGED <<vars, cursorVars, lastCkpt>> /\ SameBuffers

Only(S) == CHOOSE b \in S : TRUE
FreshBuffer == CHOOSE b \in Buffer : b \notin decodeBuf \cup planBuf

\* decode_matched keeps its recurrent buffers, and skips unpacking when the
\* last decode left the state of the very checkpoint it starts from in them.
KeptBuffer == decodeBuf # {} /\ ~Replays
SkipsUnpack == KeptBuffer /\ lastCkpt # {} /\ lastCkpt = Source.ckpt
StepBuffer == IF KeptBuffer THEN Only(decodeBuf) ELSE FreshBuffer
Loaded == IF SkipsUnpack THEN bufData ELSE [bufData EXCEPT ![StepBuffer] = SourceState]

\* execute_static_decode binds its plan once; later calls run it as it is, on the
\* buffers of the call that bound it.
RunBuffer == IF planBuf = {} THEN StepBuffer ELSE Only(planBuf)

\* Buffers nobody refers to are collected.
Buffers(data, planned) ==
  IF Recurrent
  THEN /\ decodeBuf' = IF Replays THEN decodeBuf ELSE {StepBuffer}
       /\ planBuf' = IF planned THEN {RunBuffer} ELSE planBuf
       /\ bufData' = [b \in Buffer |-> IF b \in decodeBuf' \cup planBuf' THEN data[b] ELSE {}]
  ELSE SameBuffers

\* One decode step, or the steps of a replay: in each the recurrent state in the
\* plan's buffers advances by one token and is packed into the checkpoint.
RunSteps ==
  LET right == AttentionRight /\ (Recurrent => Loaded[RunBuffer] = {Source.node}) IN
  /\ In("run") /\ StepsToken
  /\ Fill(right)
  /\ Buffers([Loaded EXCEPT ![RunBuffer] = IF right THEN {call.tokens} ELSE {}], TRUE)
  /\ Goto("insert")
  /\ UNCHANGED <<vars, cursorVars, lastCkpt>>

\* The device fails: before the recurrent buffers are loaded, before the plan is
\* bound, before it ran, or after.
RunFails ==
  /\ In("run")
  /\ \/ SameBuffers
     \/ StepsToken /\ Buffers(Loaded, FALSE)
     \/ StepsToken /\ Buffers(Loaded, TRUE)
     \/ StepsToken /\ Buffers([Loaded EXCEPT ![RunBuffer] = {}], TRUE)
  /\ Goto("abort")
  /\ UNCHANGED <<vars, cursorVars, slotData, ckptData, lastCkpt>>
-----------------------------------------------------------------------------
(* Settling. *)

\* prefill, suffix_prefill, decode and the accepted part of a lookup insert the
\* whole reservation behind the leased slots.
InsertCall ==
  LET values == Source.values \o Reserved
      accepted == Accepted(RedundantSlots(call.tokens, values),
                           RedundantCkpt(call.tokens, NextCkpt))
  IN  /\ In("insert") /\ ~Replays /\ call.op # "cursor"
      /\ InsertAndSettle(call.tokens, values, NextCkpt, {})
      /\ held' = IF accepted THEN Without(Me) ELSE held
      /\ Goto(IF accepted THEN "close" ELSE "abort")
      /\ lastCkpt' = IF accepted /\ call.op = "decode" THEN NextCkpt ELSE lastCkpt
      /\ KeepContent
      /\ UNCHANGED cursorVars /\ SameBuffers

\* insert_replay: one insertion per replayed token, each with all the slots of
\* the suffix so far.  An error leaves the rest of the reservation to abort_replay.
InsertReplay ==
  LET n == call.done + 1
      key == Upto(call.tokens, Cached + n)
      values == Source.values \o SubSeq(call.slots, 1, n)
      accepted == Accepted(RedundantSlots(key, values), RedundantCkpt(key, NextCkpt))
      rest == Keep(Me, Tail(Reserved), IF Recurrent THEN Tail(held[Me].ckpts) ELSE <<>>)
  IN  /\ In("insert") /\ Replays
      /\ InsertAndSettle(key, values, NextCkpt, {})
      /\ held' = IF accepted THEN rest ELSE held
      /\ call' = [call EXCEPT !.done = n,
                    !.phase = IF ~accepted THEN "abort"
                              ELSE IF key = call.tokens THEN "close" ELSE "insert"]
      /\ KeepContent
      /\ UNCHANGED <<cursorVars, lastCkpt>> /\ SameBuffers

\* Mutants of AcceptDraft: the head of the draft is given back instead of the
\* tail; the tail is not given back.
AcceptDraftTail(accepted) ==
  LET committed == accepted + 1
      cut == Suffix - committed
  IN  /\ In("accept")
      /\ committed <= Suffix
      /\ GiveBack(Range(Upto(Reserved, cut)), {})
      /\ held' = Keep(Me, SubSeq(Reserved, cut + 1, Suffix), <<>>)
      /\ call' = [call EXCEPT !.phase = "insert",
                              !.tokens = Upto(call.tokens, Cached + committed)]
      /\ KeepContent
      /\ UNCHANGED <<radixVars, cursorVars, lastCkpt>> /\ SameBuffers
AcceptDraftLeaks(accepted) ==
  LET committed == accepted + 1 IN
  /\ In("accept")
  /\ committed <= Suffix
  /\ held' = Keep(Me, Upto(Reserved, committed), <<>>)
  /\ call' = [call EXCEPT !.phase = "insert", !.tokens = Upto(call.tokens, Cached + committed)]
  /\ UNCHANGED <<radixVars, poolVars, cursorVars, deviceVars>>

\* verify_and_commit: the slots of the rejected draft tokens go back first.
AcceptDraft(accepted) ==
  LET committed == accepted + 1 IN
  /\ In("accept")
  /\ committed <= Suffix
  /\ GiveBack(Range(SubSeq(Reserved, committed + 1, Suffix)), {})
  /\ held' = Keep(Me, Upto(Reserved, committed), <<>>)
  /\ call' = [call EXCEPT !.phase = "insert", !.tokens = Upto(call.tokens, Cached + committed)]
  /\ KeepContent
  /\ UNCHANGED <<radixVars, cursorVars, lastCkpt>> /\ SameBuffers

\* Sequence.decode: the lease moves on to the child.
ExtendCall(m) ==
  /\ In("insert") /\ call.op = "cursor"
  /\ \E l \in call.lease : ExtendMatch(Me, l, m, Last(call.tokens))
  /\ call' = [call EXCEPT !.phase = "advance", !.lease = {m}]
  /\ lastCkpt' = NextCkpt
  /\ KeepContent
  /\ UNCHANGED cursorVars /\ SameBuffers

\* Radix_cache.extend raises: no handler up to the caller of the engine gives the
\* reservation back.  The call is over, its slot and its checkpoint stay in use
\* for nobody; the cursor keeps its step and its lease, and calls go on.
ExtendCallRaises(gone) ==
  /\ In("insert") /\ call.op = "cursor"
  /\ gone \in Lost \ DOMAIN held
  /\ \E l \in call.lease : ExtendRaises(l, Last(call.tokens))
  /\ held' = Put(Without(Me), gone, held[Me])
  /\ call' = NoCall
  /\ UNCHANGED <<radixVars, poolVars, cursorVars, deviceVars>>

\* Mutant of AbortCall: a failed execution gives nothing back.
AbortForgets ==
  /\ In("abort")
  /\ Goto("close")
  /\ UNCHANGED <<vars, cursorVars, deviceVars>>

\* abort, abort_replay and abort_suffix_prefill, and verify_prompt's own release.
AbortCall ==
  /\ In("abort")
  /\ Abort(Me)
  /\ Goto("close")
  /\ KeepContent
  /\ UNCHANGED <<cursorVars, lastCkpt>> /\ SameBuffers
-----------------------------------------------------------------------------
(* Ending a call. *)

\* Mutant of Close: the call goes on referring to the lease.
CloseKeepsCall ==
  /\ In("close")
  /\ IF call.op = "cursor" \/ call.lease = {} THEN UNCHANGED vars
     ELSE \E l \in call.lease : ReleaseMatch(l)
  /\ Goto("idle")
  /\ UNCHANGED <<cursorVars, deviceVars>>

\* with_match releases the lease whatever happened; a cursor keeps its own.
Close ==
  /\ In("close")
  /\ IF call.op = "cursor" \/ call.lease = {} THEN UNCHANGED vars
     ELSE \E l \in call.lease : ReleaseMatch(l)
  /\ call' = NoCall
  /\ UNCHANGED <<cursorVars, deviceVars>>

\* Mutant of Advance: the new lease is released instead of the old one.
AdvanceReleasesNew ==
  /\ In("advance")
  /\ \E q \in call.cursor, m \in call.lease :
       /\ ReleaseMatch(m)
       /\ cursors' = [cursors EXCEPT ![q] = [tokens |-> call.tokens, lease |-> m]]
  /\ call' = NoCall
  /\ UNCHANGED <<orphans, deviceVars>>

Advance ==
  /\ In("advance")
  /\ \E q \in call.cursor, m \in call.lease :
       /\ ReleaseMatch(cursors[q].lease)
       /\ cursors' = [cursors EXCEPT ![q] = [tokens |-> call.tokens, lease |-> m]]
  /\ call' = NoCall
  /\ UNCHANGED <<orphans, deviceVars>>

\* Sequence.create, on the step of a call that cached its tokens.
OpenCursor(q, l, tokens) ==
  /\ Idle /\ PageSize = 1
  /\ q \notin DOMAIN cursors \cup orphans
  /\ tokens \in resumable
  /\ Match(l, tokens, 0)
  /\ cursors' = Put(cursors, q, [tokens |-> tokens, lease |-> l])
  /\ UNCHANGED <<call, orphans, deviceVars>>

CloseCursor(q) ==
  /\ Idle
  /\ ReleaseMatch(cursors[q].lease)
  /\ cursors' = [r \in DOMAIN cursors \ {q} |-> cursors[r]]
  /\ UNCHANGED <<call, orphans, deviceVars>>

\* reset: a new tree and new pools; the retained buffers are dropped, the retained
\* plan is not.  Cursors that are open keep their match on the old tree.
Reset ==
  /\ Idle
  /\ nodes' = {} /\ slotAt' = <<>> /\ cachedTokens' = 0 /\ resumable' = {}
  /\ ckptAt' = <<>> /\ lockRef' = <<>> /\ leases' = <<>>
  /\ tokensUsed' = {} /\ ckptsUsed' = {} /\ held' = <<>> /\ refused' = FALSE
  /\ cursors' = <<>> /\ orphans' = orphans \cup DOMAIN cursors
  /\ decodeBuf' = {} /\ lastCkpt' = {}
  /\ bufData' = [b \in Buffer |-> IF b \in planBuf THEN bufData[b] ELSE {}]
  /\ KeepContent
  /\ UNCHANGED <<call, planBuf>>

\* Sequence.decode on such a cursor, the whole call: extend answers that the lease
\* belongs to another cache, after the device ran, and what was reserved goes back.
\* The call fails earlier when a pool is short.  What it leaves in the recurrent
\* buffers was computed from slots and checkpoints others may have filled since.
DecodeOrphan(q) ==
  /\ Idle /\ q \in orphans
  /\ \/ SameBuffers
     \/ /\ tokensUsed # Slot /\ (Recurrent => ckptsUsed # Ckpt)
        /\ \E unknown \in SUBSET {StepBuffer, RunBuffer}, planned \in BOOLEAN :
             Buffers([b \in Buffer |-> IF b \in unknown THEN {} ELSE bufData[b]], planned)
  /\ UNCHANGED <<vars, call, cursorVars, slotData, ckptData, lastCkpt>>

\* Sequence.close on such a cursor: it is closed, and the caller gets the error.
CloseOrphan(q) ==
  /\ Idle /\ q \in orphans
  /\ orphans' = orphans \ {q}
  /\ UNCHANGED <<vars, call, cursors, deviceVars>>
-----------------------------------------------------------------------------
Starting ==
  \/ \E op \in {"prompt", "verify"}, l \in LeaseId, tokens \in Prompts : StartPrompt(op, l, tokens)
  \/ \E l \in LeaseId, tokens \in Prompts : StartDecode(l, tokens)
  \/ \E l \in LeaseId, tokens \in Prompts, draft \in 1 .. MaxLength : StartLookup(l, tokens, draft)
  \/ \E q \in DOMAIN cursors, token \in Token : StartCursor(q, token)

Running == Miss \/ Suit \/ ReserveForCall \/ ReserveFails \/ RunSchedule \/ RunSteps \/ RunFails

Settling ==
  \/ InsertCall \/ InsertReplay \/ AbortCall
  \/ \E gone \in Lost : ExtendCallRaises(gone)
  \/ \E accepted \in 0 .. MaxLength : AcceptDraft(accepted)
  \/ \E m \in LeaseId : ExtendCall(m)

Ending ==
  \/ Close \/ Advance \/ Reset
  \/ \E q \in Cursor, l \in LeaseId, tokens \in resumable : OpenCursor(q, l, tokens)
  \/ \E q \in DOMAIN cursors : CloseCursor(q)
  \/ \E q \in orphans : DecodeOrphan(q) \/ CloseOrphan(q)

EngineNext == Starting \/ Running \/ Settling \/ Ending

EngineSpec == EngineInit /\ [][EngineNext]_engineVars
-----------------------------------------------------------------------------
\* The shape of the engine's own state.
EngineTypeOK ==
  /\ call.op \in {"none", "prompt", "verify", "decode", "lookup", "cursor"}
  /\ call.phase \in {"idle", "matched", "reserve", "run", "accept", "insert",
                     "abort", "close", "advance"}
  /\ call.lease \subseteq DOMAIN leases /\ call.cursor \subseteq DOMAIN cursors
  /\ DOMAIN cursors \subseteq Cursor /\ orphans \subseteq Cursor
  /\ Cardinality(decodeBuf) <= 1 /\ Cardinality(planBuf) <= 1
  /\ DOMAIN slotData \subseteq tokensUsed /\ DOMAIN ckptData \subseteq ckptsUsed
  /\ lastCkpt \subseteq Ckpt

\* What the cache serves is what it says: the slot of every cached prefix and the
\* checkpoint of every node hold the states computed from exactly that prefix, so
\* a later call that matches them answers as if it had computed everything.  (Until
\* a release is refused: see ReleasesAccepted.)
CacheTruthful ==
  ~refused =>
    /\ \A p \in DOMAIN slotAt : ContentOf(slotData, slotAt[p]) = {p[1]}
    /\ \A n \in DOMAIN ckptAt : ContentOf(ckptData, ckptAt[n]) = {n}

\* Between calls the only leases are those of the open cursors, and nothing is
\* reserved but the one slot, and for a recurrent model the one checkpoint, of each
\* decode that ended in an exception: every path that returns, with a result or an
\* error, has settled or given back all it took, and the path that raises forgets
\* its reservation and no more (the cursor's lease stays the cursor's).
NothingLeftBehind ==
  call.phase = "idle" =>
    /\ DOMAIN leases = {cursors[q].lease : q \in DOMAIN cursors}
    /\ Me \notin DOMAIN held
    /\ \A gone \in DOMAIN held :
         /\ Len(held[gone].slots) = 1
         /\ Len(held[gone].ckpts) = IF Recurrent THEN 1 ELSE 0

\* An open cursor's lease is live, is its own, and ends at the very tokens of the
\* cursor's step: decode_matched's length check stands for equality.
CursorsAnchored ==
  /\ \A q \in DOMAIN cursors :
       /\ cursors[q].lease \in DOMAIN leases
       /\ leases[cursors[q].lease].node = cursors[q].tokens
  /\ \A q, r \in DOMAIN cursors : q # r => cursors[q].lease # cursors[r].lease
  /\ DOMAIN cursors \cap orphans = {}

\* As long as no release was refused, every slot and every checkpoint in use is
\* owned once: by the tree, by the call under way, or by a call that raised.
OwnershipUntilRefusal == ~refused => TokenOwnership /\ CheckpointOwnership

\* A decode never raises: its errors are results, as the interfaces say.
NeverRaises == DOMAIN held \subseteq {Me}
=============================================================================
