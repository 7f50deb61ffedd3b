-------------------------------- MODULE Slots --------------------------------
(***************************************************************************)
(* Continuous batching on one context: the llama_ctx_slots_* entry points  *)
(* of src/llama_api.cc.  A context is driven by one call at a time, so the *)
(* calls are atomic; slots_update, the only long one, is split into the    *)
(* steps of its loops (variable phase), and no other call starts before    *)
(* it has returned to the host.                                            *)
(***************************************************************************)
EXTENDS Memory

CONSTANTS
    NBatch,             \* n_batch: rows llama_decode accepts at once
    NoToken,            \* LLAMA_TOKEN_NULL
    Prompt,             \* tokenized prompts the host posts
    NPredict,           \* n_predict values the host asks for; -1: the window
    SystemPrompt,       \* tokenized system prompts the host sets
    Leftover,           \* texts other entry points leave on sequence 0
    Sampled,            \* tokens the samplers may draw
    MaxTasks,           \* bound: tasks posted between two resets
    DecodeMayFail,      \* llama_decode may fail for a reason of its own
    SamplerMayThrow     \* llama_sampler_sample may throw

ASSUME SlotsAssumption ==
    /\ NBatch \in Nat \ {0}
    /\ NoToken \notin Token
    /\ Prompt \subseteq Seq(Token) \ {<<>>}
    /\ SystemPrompt \subseteq Seq(Token)
    /\ Leftover \subseteq Seq(Token)
    /\ NPredict \subseteq Int
    /\ Sampled \subseteq Token
    /\ MaxTasks \in Nat \ {0}
    /\ {DecodeMayFail, SamplerMayThrow} \subseteq BOOLEAN

VARIABLES
    mem,        \* the KV cache
    queue,      \* SlotsState::queue
    next_id,    \* SlotsState::next_id
    slots,      \* SlotsState::slots
    system,     \* SlotsState::system
    system_seq, \* SlotsState::system_seq, -1: none
    created,    \* CtxState::slots is not null
    hist_valid  \* CtxState::hist_valid

VARIABLES
    phase,      \* where slots_update is; "host": no call is running
    at,         \* the slot a loop of slots_update is at
    rows,       \* rows of the batch so far
    events,     \* what this update will report, by task
    heard       \* what the host has been told, by task

stateVars  == <<mem, queue, next_id, slots, system, system_seq, created, hist_valid>>
updateVars == <<phase, at, rows, events>>
vars       == <<stateVars, updateVars, heard>>

SlotIds == SeqIds           \* slots[i].seq = i
Ids     == 1 .. MaxTasks

Slot == [id_task : Nat, generating : BOOLEAN, prompt : Seq(Token), n_past : Nat,
         budget : Nat, n_cached : Nat, pending : Token \cup {NoToken},
         produced : Seq(Token), take : Nat, logits : BOOLEAN]

Task == [id : Nat \ {0}, prompt : Seq(Token) \ {<<>>}, budget : Nat]

\* What the host can learn of a task: its tokens, and how it ended.
Endings == {"eos", "stop", "length", "error", "interrupted", "dropped"}
Event   == [kind : {"token"} \cup Endings, tok : Token \cup {NoToken}]

IdleSlot == [id_task |-> 0, generating |-> FALSE, prompt |-> <<>>, n_past |-> 0,
             budget |-> 0, n_cached |-> 0, pending |-> NoToken,
             produced |-> <<>>, take |-> 0, logits |-> FALSE]

TypeOK ==
    /\ mem \subseteq Cell
    /\ queue \in Seq(Task)
    /\ next_id \in Nat \ {0}
    /\ slots \in [SlotIds -> Slot]
    /\ system \in Seq(Token)
    /\ system_seq \in {-1} \cup SeqIds
    /\ created \in BOOLEAN
    /\ hist_valid \in BOOLEAN
    /\ phase \in {"host", "launch", "chunks", "decode", "sample"}
    /\ at \in 0 .. NSeqMax
    /\ rows \in Nat
    /\ events \in [Ids -> Seq(Event)]
    /\ heard \in [Ids -> Seq(Event)]

Quiet == [i \in Ids |-> <<>>]

Init ==
    /\ mem = {}
    /\ queue = <<>>
    /\ next_id = 1
    /\ slots = [s \in SlotIds |-> IdleSlot]
    /\ system = <<>>
    /\ system_seq = -1
    /\ created = FALSE
    /\ hist_valid = TRUE
    /\ phase = "host"
    /\ at = 0
    /\ rows = 0
    /\ events = Quiet
    /\ heard = Quiet

-----------------------------------------------------------------------------
Idle(s) == slots[s].id_task = 0

Busy == {s \in SlotIds : ~Idle(s)}

slots_active == queue # <<>> \/ Busy # {}

\* Slot::reserve: cells a slot may still occupy of its own.
Reserve(s) == IF Idle(s) THEN 0
              ELSE Len(slots[s].prompt) - slots[s].n_cached + slots[s].budget

\* Partial sums of Reserve over slots 0 .. s - 1.
ReservedBelow[s \in 0 .. NSeqMax] ==
    IF s = 0 THEN 0 ELSE ReservedBelow[s - 1] + Reserve(s - 1)

slots_reserved == ReservedBelow[NSeqMax]

kv_shared == NCtxSeq = NCtx

Tell(f, id, kind, tok) ==
    [f EXCEPT ![id] = Append(@, [kind |-> kind, tok |-> tok])]

\* Slots that will put their sampled token in the next batch, and slots of
\* the batch that decode a chunk of their prompt.
Decoding == {s \in SlotIds : slots[s].generating /\ slots[s].pending # NoToken}
Chunked  == {s \in SlotIds : slots[s].take > 0}
InBatch  == Decoding \cup Chunked

\* How many tokens of the system prompt a task reuses: the common prefix,
\* always leaving the last token of its prompt to decode.
Reusable(prompt) ==
    {k \in 0 .. Len(system) :
        /\ k < Len(prompt)
        /\ \A i \in 1 .. k : system[i] = prompt[i]}

Reused(prompt) == CHOOSE k \in Reusable(prompt) : \A j \in Reusable(prompt) : j <= k

FreeSlots == {s \in SlotIds : Idle(s) /\ s # system_seq}

FirstFree == CHOOSE s \in FreeSlots : \A t \in FreeSlots : s <= t

\* Mutant: the system prompt's cells are forgotten.
Admissible_ForgetsSystem(t) ==
    kv_shared =>
        slots_reserved + Len(t.prompt) - Reused(t.prompt) + t.budget <= NCtx

\* The head of the queue fits next to what the busy slots may still write.
Admissible(t) ==
    kv_shared =>
        slots_reserved + Len(system) + Len(t.prompt) - Reused(t.prompt) + t.budget <= NCtx

CanLaunch == queue # <<>> /\ FreeSlots # {} /\ Admissible(Head(queue))

-----------------------------------------------------------------------------
(* The host's calls *)

\* Mutant: the window may be smaller than the prompt.
BudgetOf_NoFloor(prompt, n) == IF n >= 0 THEN n ELSE NCtxSeq - Len(prompt)

\* The tokens a task may produce; n_predict -1 is the rest of the window.
BudgetOf(prompt, n) ==
    IF n >= 0 THEN n
    ELSE IF Len(prompt) <= NCtxSeq THEN NCtxSeq - Len(prompt) ELSE 0

\* Mutant: the task jumps the queue.
Post_Front(prompt, n) ==
    /\ phase = "host"
    /\ next_id <= MaxTasks
    /\ Len(prompt) + BudgetOf(prompt, n) <= NCtxSeq
    /\ created' = TRUE
    /\ next_id' = next_id + 1
    /\ queue' = <<[id |-> next_id, prompt |-> prompt, budget |-> BudgetOf(prompt, n)]>> \o queue
    /\ UNCHANGED <<mem, slots, system, system_seq, hist_valid, updateVars, heard>>

\* llama_ctx_slots_post, when it accepts the task.
Post(prompt, n) ==
    /\ phase = "host"
    /\ next_id <= MaxTasks
    /\ Len(prompt) + BudgetOf(prompt, n) <= NCtxSeq
    /\ created' = TRUE
    /\ next_id' = next_id + 1
    /\ queue' = Append(queue, [id |-> next_id, prompt |-> prompt,
                               budget |-> BudgetOf(prompt, n)])
    /\ UNCHANGED <<mem, slots, system, system_seq, hist_valid, updateVars, heard>>

\* llama_ctx_slots_cancel of a task that waits: it leaves the queue silently.
CancelQueued(i) ==
    /\ phase = "host"
    /\ i \in DOMAIN queue
    /\ queue' = SubSeq(queue, 1, i - 1) \o SubSeq(queue, i + 1, Len(queue))
    /\ heard' = Tell(heard, queue[i].id, "dropped", NoToken)
    /\ UNCHANGED <<mem, next_id, slots, system, system_seq, created, hist_valid,
                   updateVars>>

\* llama_ctx_slots_cancel of a task that runs: the first slot that has it.
CancelBusy(s) ==
    /\ phase = "host"
    /\ s \in Busy
    /\ \A i \in DOMAIN queue : queue[i].id # slots[s].id_task
    /\ \A t \in Busy : slots[t].id_task = slots[s].id_task => s <= t
    /\ heard' = Tell(heard, slots[s].id_task, "interrupted", NoToken)
    /\ mem' = SeqRm(mem, s, 0)
    /\ slots' = [slots EXCEPT ![s] = IdleSlot]
    /\ UNCHANGED <<queue, next_id, system, system_seq, created, hist_valid, updateVars>>

\* The cache once the old system prompt is dropped.
WithoutSystem == IF system_seq >= 0 THEN SeqRm(mem, system_seq, 0) ELSE mem

\* llama_ctx_slots_system_prompt: decoded into the last sequence.
SetSystem(toks) ==
    LET seq == NSeqMax - 1
        new == NewCells(seq, 0, toks)
    IN  /\ phase = "host" /\ ~slots_active
        /\ NSeqMax >= 2 /\ Len(toks) < NCtxSeq
        /\ CellsOf(WithoutSystem, seq) = {}    \* else llama_decode refuses position 0
        /\ HasRoom(WithoutSystem, new)
        /\ mem' = WithoutSystem \cup new
        /\ system' = toks
        /\ system_seq' = seq
        /\ created' = TRUE
        /\ hist_valid' = FALSE
        /\ UNCHANGED <<queue, next_id, slots, updateVars, heard>>

\* An empty text, a text too long for the window, a context of one sequence
\* or a failed decode, which empties the last sequence: the old system prompt
\* is gone all the same.
ClearSystem ==
    /\ phase = "host" /\ ~slots_active
    /\ \/ mem' = WithoutSystem
       \/ NSeqMax >= 2 /\ mem' = SeqRm(WithoutSystem, NSeqMax - 1, 0)
    /\ system' = <<>>
    /\ system_seq' = -1
    /\ created' = TRUE
    /\ UNCHANGED <<queue, next_id, slots, hist_valid, updateVars, heard>>

\* llama_ctx_reset: every task, the slots state and the cache are dropped.
Reset ==
    /\ phase = "host"
    /\ mem' = {}
    /\ queue' = <<>>
    /\ next_id' = 1
    /\ slots' = [s \in SlotIds |-> IdleSlot]
    /\ system' = <<>>
    /\ system_seq' = -1
    /\ created' = FALSE
    /\ hist_valid' = TRUE
    /\ heard' = Quiet
    /\ UNCHANGED updateVars

\* llama_ctx_lora_set does not look at the slots: the cells of the old
\* adapters stay, and only the prompt history is given up.
LoraSet ==
    /\ phase = "host"
    /\ hist_valid' = FALSE
    /\ UNCHANGED <<mem, queue, next_id, slots, system, system_seq, created,
                   updateVars, heard>>

\* A single-sequence call between batches (module Context has them one by
\* one): it runs on sequence 0, refuses to run while slots hold tasks, leaves
\* a text there and decides whether the prompt history is valid.
UseSequence0(text) ==
    LET rest == SeqRm(mem, 0, 0)
        new  == NewCells(0, 0, text)
    IN  /\ phase = "host" /\ ~slots_active
        /\ system_seq # 0
        /\ HasRoom(rest, new)
        /\ mem' = rest \cup new
        /\ hist_valid' \in BOOLEAN
        /\ UNCHANGED <<queue, next_id, slots, system, system_seq, created,
                       updateVars, heard>>

-----------------------------------------------------------------------------
(* llama_ctx_slots_update, loop by loop *)

UpdateBegin ==
    /\ phase = "host" /\ created
    /\ hist_valid' = FALSE
    /\ phase' = "launch"
    /\ events' = Quiet
    /\ UNCHANGED <<mem, queue, next_id, slots, system, system_seq, created, at, rows, heard>>

\* The host reads what the update reported.
Return(evs) ==
    /\ phase' = "host"
    /\ at' = 0
    /\ rows' = 0
    /\ events' = Quiet
    /\ heard' = [i \in Ids |-> heard[i] \o evs[i]]

\* Mutant: the copy keeps the part of the system prompt the task does not share.
Adopted_Untrimmed(own, s, keep) ==
    IF keep > 0 THEN SeqCp(own, system_seq, s) ELSE own

\* A cross-stream copy is only offered whole: copy the system sequence, then
\* trim the copy to the reused length.
Adopted(own, s, keep) ==
    IF keep > 0 THEN SeqRm(SeqCp(own, system_seq, s), s, keep) ELSE own

\* slots_launch, one turn: the head of the queue moves into a slot, reusing
\* the cells of the system prompt its prompt starts with.
LaunchHead ==
    LET t    == Head(queue)
        s    == FirstFree
        keep == Reused(t.prompt)
    IN  /\ phase = "launch"
        /\ CanLaunch
        /\ slots' = [slots EXCEPT ![s] =
               [@ EXCEPT !.id_task = t.id, !.prompt = t.prompt, !.budget = t.budget,
                         !.generating = FALSE, !.n_cached = keep, !.n_past = keep,
                         !.pending = NoToken, !.logits = FALSE]]
        /\ mem' = Adopted(SeqRm(mem, s, 0), s, keep)
        /\ queue' = Tail(queue)
        /\ UNCHANGED <<next_id, system, system_seq, created, hist_valid, updateVars, heard>>

\* slots_launch returns; the batch starts with one row for each decoding slot.
LaunchDone ==
    /\ phase = "launch"
    /\ ~CanLaunch
    /\ phase' = "chunks"
    /\ at' = 0
    /\ rows' = Cardinality(Decoding)
    /\ slots' = [s \in SlotIds |-> [slots[s] EXCEPT !.take = 0, !.logits = FALSE]]
    /\ UNCHANGED <<mem, queue, next_id, system, system_seq, created, hist_valid,
                   events, heard>>

\* Mutant: the decode rows are not counted.
ChunkOf_IgnoresRows(s) ==
    LET remaining == Len(slots[s].prompt) - slots[s].n_past
    IN  IF Idle(s) \/ slots[s].generating THEN 0
        ELSE IF remaining <= NBatch THEN remaining ELSE NBatch

\* Mutant: a prompt waits until the batch has room for all of it.
ChunkOf_WholePrompt(s) ==
    LET remaining == Len(slots[s].prompt) - slots[s].n_past
    IN  IF Idle(s) \/ slots[s].generating \/ remaining > NBatch - rows THEN 0
        ELSE remaining

\* The rest of the prompt that still fits the batch.
ChunkOf(s) ==
    LET remaining == Len(slots[s].prompt) - slots[s].n_past
        space     == NBatch - rows
    IN  IF Idle(s) \/ slots[s].generating \/ remaining <= 0 \/ space <= 0 THEN 0
        ELSE IF remaining <= space THEN remaining ELSE space

TakeChunk ==
    /\ phase = "chunks" /\ at < NSeqMax
    /\ slots' = [slots EXCEPT ![at].take = ChunkOf(at)]
    /\ rows' = rows + ChunkOf(at)
    /\ at' = at + 1
    /\ UNCHANGED <<mem, queue, next_id, system, system_seq, created, hist_valid,
                   phase, events, heard>>

BatchReady ==
    /\ phase = "chunks" /\ at = NSeqMax
    /\ rows > 0
    /\ phase' = "decode"
    /\ UNCHANGED <<stateVars, at, rows, events, heard>>

NothingToDecode ==
    /\ phase = "chunks" /\ at = NSeqMax
    /\ rows = 0
    /\ Return(events)
    /\ UNCHANGED stateVars

\* The tokens slot s has in the batch, and the cells the batch will fill.
RowsOf(s) ==
    IF s \in Decoding THEN <<slots[s].pending>>
    ELSE SubSeq(slots[s].prompt, slots[s].n_past + 1, slots[s].n_past + slots[s].take)

BatchCells == UNION {NewCells(s, slots[s].n_past, RowsOf(s)) : s \in InBatch}

LastChunk(s) == slots[s].n_past + slots[s].take = Len(slots[s].prompt)

DecodeOk ==
    /\ phase = "decode"
    /\ HasRoom(mem, BatchCells)
    /\ mem' = mem \cup BatchCells
    /\ slots' = [s \in SlotIds |->
           IF s \in Decoding
           THEN [slots[s] EXCEPT !.n_past = @ + 1, !.pending = NoToken, !.logits = TRUE]
           ELSE IF s \in Chunked
           THEN [slots[s] EXCEPT !.n_past = @ + slots[s].take, !.take = 0,
                                 !.logits = LastChunk(s), !.generating = LastChunk(s)]
           ELSE slots[s]]
    /\ phase' = "sample"
    /\ at' = 0
    /\ UNCHANGED <<queue, next_id, system, system_seq, created, hist_valid,
                   rows, events, heard>>

\* Mutant: the cells they share with the system prompt go too.
Released_Shared(ss) == {c \in mem : c.seqs \cap ss = {}}

\* The cells left once the sequences of the slots in ss are removed.
Released(ss) ==
    {[c EXCEPT !.seqs = @ \ ss] : c \in {d \in mem : ~(d.seqs \subseteq ss)}}

\* Mutant: a slot that was decoding its prompt ends without a word.
Failed_Decoding == {slots[s].id_task : s \in Decoding}

\* The tasks a failed decode ends.
Failed == {slots[s].id_task : s \in InBatch}

\* Every task of the batch ends with an error and leaves its slot.
DecodeFails ==
    /\ phase = "decode"
    /\ ~HasRoom(mem, BatchCells) \/ DecodeMayFail
    /\ mem' = Released(InBatch)
    /\ slots' = [s \in SlotIds |-> IF s \in InBatch THEN IdleSlot ELSE slots[s]]
    /\ Return([i \in Ids |-> IF i \in Failed THEN Tell(events, i, "error", NoToken)[i]
                             ELSE events[i]])
    /\ UNCHANGED <<queue, next_id, system, system_seq, created, hist_valid>>

\* The sampling loop.  A slot without logits in this batch is passed over.
PassOver ==
    /\ phase = "sample" /\ at < NSeqMax
    /\ Idle(at) \/ ~slots[at].logits
    /\ at' = at + 1
    /\ UNCHANGED <<stateVars, phase, rows, events, heard>>

Sampling ==
    /\ phase = "sample" /\ at < NSeqMax
    /\ ~Idle(at) /\ slots[at].logits
    /\ UNCHANGED <<queue, next_id, system, system_seq, created, hist_valid>>

\* Mutant: the final is reported but the slot keeps its task.
Finish_KeepsSlot(evs, reason) ==
    /\ events' = Tell(evs, slots[at].id_task, reason, NoToken)
    /\ slots' = [slots EXCEPT ![at].logits = FALSE]
    /\ at' = at + 1
    /\ UNCHANGED <<mem, phase, rows, heard>>

\* slot_final and slot_release: the last event of the task of slot `at`.
Finish(evs, reason) ==
    /\ events' = Tell(evs, slots[at].id_task, reason, NoToken)
    /\ mem' = SeqRm(mem, at, 0)
    /\ slots' = [slots EXCEPT ![at] = IdleSlot]
    /\ at' = at + 1
    /\ UNCHANGED <<phase, rows, heard>>

NoBudget ==
    /\ Sampling
    /\ slots[at].budget = 0
    /\ Finish(events, "length")

SampleEos ==
    /\ Sampling
    /\ slots[at].budget > 0
    /\ Finish(events, "eos")

\* Mutant: only a token that ends its task is reported.
SampleToken_Silent(tok, stopped) ==
    LET s    == slots[at]
        said == Tell(events, s.id_task, "token", tok)
        full == Len(s.produced) + 1 = s.budget
    IN  /\ Sampling
        /\ s.budget > 0
        /\ \/ stopped /\ Finish(said, "stop")
           \/ ~stopped /\ full /\ Finish(said, "length")
           \/ /\ ~stopped /\ ~full
              /\ slots' = [slots EXCEPT ![at] =
                     [s EXCEPT !.produced = Append(@, tok), !.pending = tok,
                               !.logits = FALSE]]
              /\ at' = at + 1
              /\ UNCHANGED <<mem, phase, rows, events, heard>>

\* A token is drawn and reported; it may complete a stop string, use up the
\* budget, or wait for the next batch.
SampleToken(tok, stopped) ==
    LET s    == slots[at]
        said == Tell(events, s.id_task, "token", tok)
        full == Len(s.produced) + 1 = s.budget
    IN  /\ Sampling
        /\ s.budget > 0
        /\ \/ stopped /\ Finish(said, "stop")
           \/ ~stopped /\ full /\ Finish(said, "length")
           \/ /\ ~stopped /\ ~full
              /\ slots' = [slots EXCEPT ![at] =
                     [s EXCEPT !.produced = Append(@, tok), !.pending = tok,
                               !.logits = FALSE]]
              /\ events' = said
              /\ at' = at + 1
              /\ UNCHANGED <<mem, phase, rows, heard>>

\* llama_sampler_sample throws: the catch of slots_update returns an error in
\* place of the events gathered so far.
SamplerThrows ==
    /\ SamplerMayThrow
    /\ Sampling
    /\ slots[at].budget > 0
    /\ slots' = [slots EXCEPT ![at].logits = FALSE]
    /\ Return(Quiet)
    /\ UNCHANGED mem

UpdateDone ==
    /\ phase = "sample" /\ at = NSeqMax
    /\ Return(events)
    /\ UNCHANGED stateVars

UpdateStep ==
    \/ LaunchHead
    \/ LaunchDone
    \/ TakeChunk
    \/ BatchReady
    \/ NothingToDecode
    \/ DecodeOk
    \/ DecodeFails
    \/ PassOver
    \/ NoBudget
    \/ SampleEos
    \/ \E tok \in Sampled, stopped \in BOOLEAN : SampleToken(tok, stopped)
    \/ SamplerThrows
    \/ UpdateDone

HostCall ==
    \/ \E prompt \in Prompt, n \in NPredict : Post(prompt, n)
    \/ \E i \in DOMAIN queue : CancelQueued(i)
    \/ \E s \in SlotIds : CancelBusy(s)
    \/ \E toks \in SystemPrompt : SetSystem(toks)
    \/ ClearSystem
    \/ Reset
    \/ LoraSet
    \/ \E text \in Leftover : UseSequence0(text)

Next == HostCall \/ UpdateBegin \/ UpdateStep

Spec == Init /\ [][Next]_vars

\* A call runs to its end, and the host keeps calling slots_update.
FairSpec == Spec /\ WF_vars(UpdateBegin) /\ WF_vars(UpdateStep)

-----------------------------------------------------------------------------
(* Properties *)

Text(s)   == slots[s].prompt \o slots[s].produced
Queued(i) == \E k \in DOMAIN queue : queue[k].id = i
Runs(i)   == \E s \in Busy : slots[s].id_task = i
Ended(i)  == heard[i] # <<>> /\ heard[i][Len(heard[i])].kind \in Endings

(* What a slot believes of the cache is what the cache holds: the first      *)
(* n_past tokens of its text, reused system cells included, each at its own  *)
(* position; at most the token it sampled last is still to be decoded.       *)
(* (n_past and pending of Slot, llama_memory_seq_cp/rm in slots_launch.)     *)
KVMirrors ==
    \A s \in Busy :
        /\ Held(mem, s) = Placed(SubSeq(Text(s), 1, slots[s].n_past))
        /\ slots[s].pending # NoToken =>
               /\ slots[s].n_past = Len(Text(s)) - 1
               /\ slots[s].pending = Text(s)[Len(Text(s))]
        /\ slots[s].generating /\ slots[s].pending = NoToken =>
               slots[s].n_past = Len(Text(s))

(* The system prompt stays decoded in its sequence, whatever runs next to    *)
(* it, and it is all that two sequences ever share: no task reads the cells  *)
(* of another (slots_system_prompt, slots_launch, slot_release).             *)
SystemIsolation ==
    /\ system_seq >= 0 => Held(mem, system_seq) = Placed(system)
    /\ \A c \in mem : Cardinality(c.seqs) > 1 =>
           system_seq \in c.seqs /\ c.pos < Len(system)

(* The batch never has more rows than llama_decode accepts (it asserts, and  *)
(* traps, on more), though the decoding slots are counted in without a look  *)
(* at n_batch; and the arrays, allocated for the rows counted, are filled    *)
(* exactly (slots_update).                                                   *)
BatchFits ==
    phase = "decode" => rows <= NBatch /\ rows = Cardinality(BatchCells)

(* Admission keeps its word: once a task is launched, no decode ever ends it *)
(* with "no room in the KV cache" (slots_launch, Slot::reserve).             *)
AdmittedTasksFit == phase = "decode" => HasRoom(mem, BatchCells)

(* Between two calls every task posted is in exactly one place: in the queue *)
(* once, in one slot, or over, with the host told how it ended.              *)
NoTaskLost ==
    phase = "host" =>
        \A i \in 1 .. next_id - 1 :
            LET places == {<<"queue", k>> : k \in {k \in DOMAIN queue : queue[k].id = i}}
                          \cup {<<"slot", s>> : s \in {s \in Busy : slots[s].id_task = i}}
            IN  Cardinality(places) = IF Ended(i) THEN 0 ELSE 1

(* A task's last event is its final or its error, and there is only one      *)
(* (llama_api.h on slots_update): nothing is reported of a task that ended.  *)
NothingAfterTheEnd ==
    \A i \in Ids :
        LET evs == heard[i] \o events[i]
        IN  \A k \in 1 .. Len(evs) - 1 : evs[k].kind = "token"

(* The host has heard every token of a running task, once and in order: the  *)
(* token events add up to what the final will say.                           *)
TokensAddUp ==
    \A s \in Busy :
        LET said == heard[slots[s].id_task] \o events[slots[s].id_task]
            made == slots[s].produced
        IN  said = [k \in DOMAIN made |-> [kind |-> "token", tok |-> made[k]]]

(* Tasks start in the order they were posted: none overtakes one that waits, *)
(* cancellations included (the queue of slots_launch is FIFO).               *)
NoOvertaking ==
    /\ \A j, k \in DOMAIN queue : j < k => queue[j].id < queue[k].id
    /\ \A k \in DOMAIN queue : \A i \in Ids :
           Runs(i) \/ (i < next_id /\ Ended(i) /\ heard[i][Len(heard[i])].kind # "dropped")
               => i < queue[k].id

(* As long as the host keeps calling slots_update, a task that was accepted  *)
(* comes to its end (or is dropped by a reset).                              *)
EveryTaskEnds == \A i \in Ids : Queued(i) \/ Runs(i) ~> ~Queued(i) /\ ~Runs(i)

(* What llama_api.h says of admission: a task waits only for what the busy   *)
(* slots may still write.  With no busy slot, then, the launch loop leaves   *)
(* nothing in the queue.                                                     *)
WaitsOnlyForBusySlots ==
    phase = "chunks" /\ queue # <<>> => Busy # {}
=============================================================================
