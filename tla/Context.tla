------------------------------- MODULE Context -------------------------------
(***************************************************************************)
(* One context with all its entry points: the slots (module Slots) next to *)
(* the single-sequence calls, which decode on sequence 0 and keep the      *)
(* prompt history CtxState::hist, so that a cache_prompt generate decodes  *)
(* only what the cache does not hold.                                      *)
(*                                                                         *)
(* generate is the one single-sequence call the host can act on while it   *)
(* runs (it writes the interrupt word), so it is split into its checks and *)
(* decodes; the others are atomic.                                         *)
(***************************************************************************)
EXTENDS Slots

CONSTANTS
    GenPrompt,      \* tokenized prompts of generate
    GenPredict,     \* n_predict values of generate
    EvalText,       \* texts of eval
    ScoreText,      \* texts of score
    EmbedText,      \* texts of embed and embed_tokens
    SpecLeft,       \* texts generate_speculative may leave in the cache
    MaxChoices,     \* multi-token choices of one score_choices
    Saves,          \* the host saves and loads states
    RejectClears    \* llama_state_set_data empties a cache it fails to fill

ASSUME ContextAssumption ==
    /\ GenPrompt \cup EvalText \cup EmbedText \subseteq Seq(Token) \ {<<>>}
    /\ \A text \in ScoreText : text \in Seq(Token) /\ Len(text) \in 2 .. NCtx
    /\ SpecLeft \subseteq Seq(Token)
    /\ GenPredict \subseteq Int
    /\ MaxChoices \in Nat
    /\ {Saves, RejectClears} \subseteq BOOLEAN

VARIABLES
    hist,       \* CtxState::hist
    interrupt,  \* CtxState::interrupt # 0
    gen,        \* the generate that runs, and where it is
    saved       \* the blob of the last state_save

ctxVars == <<hist, interrupt, gen, saved>>

\* A call of generate that is under way: where it is, its prompt, how much of
\* that is decoded, its budget, its output. from and base are ghosts: where the
\* prompt starts and what lay below it. late counts the decodes begun since the
\* interrupt word was raised.
NoGen == [pc |-> "none", prompt |-> <<>>, off |-> 0, budget |-> 0, produced |-> <<>>,
          to_end |-> FALSE, from |-> 0, base |-> {}, late |-> 0]

NoBlob == [mem |-> {}, hist |-> <<>>, valid |-> FALSE, there |-> FALSE]

CtxInit ==
    /\ Init
    /\ hist = <<>>
    /\ interrupt = FALSE
    /\ gen = NoGen
    /\ saved = NoBlob

-----------------------------------------------------------------------------
(* Decoding on sequence 0 *)

\* llama_batch_get_one leaves positions to llama_decode: the sequence goes on.
EndOf(m) == IF CellsOf(m, 0) = {} THEN 0
            ELSE 1 + (CHOOSE p \in {c.pos : c \in CellsOf(m, 0)} :
                          \A c \in CellsOf(m, 0) : c.pos <= p)

Appended(m, toks) == m \cup NewCells(0, EndOf(m), toks)

Fits(m, toks) == HasRoom(m, NewCells(0, EndOf(m), toks))

\* The next n_batch tokens of a text from offset off.
Piece(text, off) ==
    SubSeq(text, off + 1, IF Len(text) - off <= NBatch THEN Len(text) ELSE off + NBatch)

\* What a text decoded in pieces may leave: all of it, or what came before
\* the piece that failed.
Decodable(m, text) ==
    {k \in 0 .. Len(text) :
        LET done == SubSeq(text, 1, k)
        IN  /\ k % NBatch = 0 \/ k = Len(text)
            /\ Fits(m, done)
            /\ k < Len(text) =>
                   DecodeMayFail \/ ~Fits(Appended(m, done), Piece(text, k))}

\* A single-sequence call may start.
Free == phase = "host" /\ gen.pc = "none" /\ ~slots_active

Forget == hist' = <<>> /\ hist_valid' = FALSE

\* What every single-sequence call leaves alone.
SlotsUntouched ==
    UNCHANGED <<queue, next_id, slots, system, system_seq, created, updateVars, heard>>

-----------------------------------------------------------------------------
(* llama_ctx_generate *)

\* Mutant: the history is trusted when it is not valid.
KeepOf_Stale(prompt) ==
    LET usable == {k \in 0 .. Len(hist) :
                      /\ k < Len(prompt)
                      /\ \A i \in 1 .. k : hist[i] = prompt[i]}
    IN  CHOOSE k \in usable : \A j \in usable : j <= k

\* n_keep: the prefix of the prompt the cache holds, short of its last token.
KeepOf(prompt) ==
    LET usable == {k \in 0 .. Len(hist) :
                      /\ k < Len(prompt)
                      /\ k > 0 => hist_valid
                      /\ \A i \in 1 .. k : hist[i] = prompt[i]}
    IN  CHOOSE k \in usable : \A j \in usable : j <= k

\* Mutant: what the cache holds beyond the shared prefix stays.
Trimmed_Kept(keep) == mem

\* The cache a cache_prompt generate starts from.
Trimmed(keep) == IF hist_valid THEN SeqRm(mem, 0, keep) ELSE {}

\* The tokens generate may produce; a negative n_predict is the whole window,
\* whatever the cache holds.
GenBudget(prompt, n) ==
    IF n >= 0 THEN n
    ELSE IF Len(prompt) <= NCtx THEN NCtx - Len(prompt) ELSE 0

\* llama_ctx_generate, up to its prompt loop.
Generate(prompt, n, cache_prompt) ==
    LET keep == IF cache_prompt THEN KeepOf(prompt) ELSE 0
        own  == IF cache_prompt THEN {} ELSE Held(mem, 0)
    IN  /\ Free
        /\ interrupt' = FALSE
        /\ mem' = IF cache_prompt THEN Trimmed(keep) ELSE mem
        /\ hist' = IF cache_prompt THEN SubSeq(hist, 1, keep) ELSE hist
        /\ hist_valid' = (cache_prompt \/ hist_valid)
        /\ gen' = [NoGen EXCEPT
               !.pc = "check_prompt", !.prompt = prompt, !.off = keep, !.to_end = (n < 0),
               !.budget = GenBudget(prompt, n),
               !.base = own, !.from = IF cache_prompt THEN 0 ELSE EndOf(mem)]
        /\ SlotsUntouched /\ UNCHANGED saved

\* generate returns: its result, an interruption or an error.
Returns == gen' = NoGen

\* The host writes the interrupt word while generate runs.
RaiseInterrupt ==
    /\ gen.pc \notin {"none", "trapped"} /\ ~interrupt
    /\ interrupt' = TRUE
    /\ UNCHANGED <<vars, hist, gen, saved>>

\* Mutant: the flag is not looked at between the pieces of a prompt.
CheckPrompt_Deaf ==
    /\ gen.pc = "check_prompt"
    /\ \/ /\ gen.off < Len(gen.prompt)
          /\ gen' = [gen EXCEPT !.pc = "decode_prompt"]
       \/ /\ gen.off >= Len(gen.prompt) /\ gen.budget > 0
          /\ gen' = [gen EXCEPT !.pc = "sample"]
       \/ /\ gen.off >= Len(gen.prompt) /\ gen.budget = 0
          /\ Returns
    /\ UNCHANGED <<vars, hist, interrupt, saved>>

\* The head of the prompt loop, and what follows its last turn.
CheckPrompt ==
    /\ gen.pc = "check_prompt"
    /\ \/ /\ gen.off < Len(gen.prompt) /\ interrupt
          /\ Returns
       \/ /\ gen.off < Len(gen.prompt) /\ ~interrupt
          /\ gen' = [gen EXCEPT !.pc = "decode_prompt"]
       \/ /\ gen.off >= Len(gen.prompt) /\ gen.budget > 0
          /\ gen' = [gen EXCEPT !.pc = "sample"]
       \/ /\ gen.off >= Len(gen.prompt) /\ gen.budget = 0
          /\ Returns
    /\ UNCHANGED <<vars, hist, interrupt, saved>>

\* toks are decoded on sequence 0 and join the history if it is valid.
Decodes(toks) ==
    /\ Fits(mem, toks)
    /\ mem' = Appended(mem, toks)
    /\ hist' = IF hist_valid THEN hist \o toks ELSE hist

\* llama_decode refuses them: generate returns an error.
DecodeRefused(toks) ==
    /\ DecodeMayFail \/ ~Fits(mem, toks)
    /\ Returns
    /\ UNCHANGED <<mem, hist>>

Late == IF interrupt THEN gen.late + 1 ELSE gen.late

DecodePrompt ==
    LET toks == Piece(gen.prompt, gen.off)
    IN  /\ gen.pc = "decode_prompt"
        /\ \/ /\ Decodes(toks)
              /\ gen' = [gen EXCEPT !.pc = "check_prompt", !.off = @ + NBatch, !.late = Late]
           \/ DecodeRefused(toks)
        /\ SlotsUntouched /\ UNCHANGED <<hist_valid, interrupt, saved>>

\* An end-of-generation token, or a sampler that throws.
GenEos ==
    /\ gen.pc = "sample"
    /\ Returns
    /\ UNCHANGED <<vars, hist, interrupt, saved>>

\* A token is drawn and handed to the sink; it may complete a stop string or
\* use up the budget, and then no one needs its logits.
GenToken(tok, stopped) ==
    /\ gen.pc = "sample"
    /\ IF stopped \/ Len(gen.produced) + 1 = gen.budget
       THEN Returns
       ELSE gen' = [gen EXCEPT !.pc = "check", !.produced = Append(@, tok)]
    /\ UNCHANGED <<vars, hist, interrupt, saved>>

CheckToken ==
    /\ gen.pc = "check"
    /\ IF interrupt THEN Returns ELSE gen' = [gen EXCEPT !.pc = "decode"]
    /\ UNCHANGED <<vars, hist, interrupt, saved>>

DecodeToken ==
    LET toks == <<gen.produced[Len(gen.produced)]>>
    IN  /\ gen.pc = "decode"
        /\ \/ /\ Decodes(toks)
              /\ gen' = [gen EXCEPT !.pc = "sample", !.late = Late]
           \/ DecodeRefused(toks)
        /\ SlotsUntouched /\ UNCHANGED <<hist_valid, interrupt, saved>>

GenerateStep ==
    \/ CheckPrompt
    \/ DecodePrompt
    \/ GenEos
    \/ \E tok \in Sampled, stopped \in BOOLEAN : GenToken(tok, stopped)
    \/ CheckToken
    \/ DecodeToken

-----------------------------------------------------------------------------
(* The other single-sequence calls *)

\* Mutant: eval does not look at the slots.
Eval_Unguarded(text) ==
    /\ phase = "host" /\ gen.pc = "none"
    /\ \E k \in Decodable(mem, text) :
           LET done == SubSeq(text, 1, k)
           IN  /\ mem' = Appended(mem, done)
               /\ hist' = IF hist_valid THEN hist \o done ELSE hist
    /\ SlotsUntouched /\ UNCHANGED <<hist_valid, interrupt, gen, saved>>

\* Mutant: only a text that was decoded whole joins the history.
Eval_AllOrNothing(text) ==
    /\ Free
    /\ \E k \in Decodable(mem, text) :
           LET done == SubSeq(text, 1, k)
           IN  /\ mem' = Appended(mem, done)
               /\ hist' = IF hist_valid /\ k = Len(text) THEN hist \o done ELSE hist
    /\ SlotsUntouched /\ UNCHANGED <<hist_valid, interrupt, gen, saved>>

\* llama_ctx_eval: the text goes on where the cache ends.
Eval(text) ==
    /\ Free
    /\ \E k \in Decodable(mem, text) :
           LET done == SubSeq(text, 1, k)
           IN  /\ mem' = Appended(mem, done)
               /\ hist' = IF hist_valid THEN hist \o done ELSE hist
    /\ SlotsUntouched /\ UNCHANGED <<hist_valid, interrupt, gen, saved>>

\* llama_ctx_score: scratch use of the whole cache.
Score(text) ==
    /\ Free
    /\ \E k \in Decodable({}, text) : mem' = Appended({}, SubSeq(text, 1, k))
    /\ Forget
    /\ SlotsUntouched /\ UNCHANGED <<interrupt, gen, saved>>

\* llama_ctx_embed, llama_ctx_embed_tokens: one batch, whatever its length.
\* llama_decode asserts on more than n_batch rows, and the instance is lost.
Embed(text) ==
    /\ Free
    /\ Forget
    /\ IF Len(text) > NBatch
       THEN mem' = {} /\ gen' = [gen EXCEPT !.pc = "trapped"]
       ELSE /\ UNCHANGED gen
            /\ \/ mem' = Appended({}, text) /\ Fits({}, text)
               \/ mem' = {} /\ (DecodeMayFail \/ ~Fits({}, text))
    /\ SlotsUntouched /\ UNCHANGED <<interrupt, saved>>

\* The cache without the sequences a group of score_choices decodes on.
WithoutSequences(m, ss) ==
    {[c EXCEPT !.seqs = @ \ ss] : c \in {d \in m : ~(d.seqs \subseteq ss)}}

\* llama_ctx_score_choices when it reads the history: the stem's last token
\* is decoded again; each group copies the stem to sequences 1, 2, ..., and
\* removes them.  A choice that fails leaves the stem as it was.
ScoreChoices(choices) ==
    LET spare == {s \in SeqIds : 1 <= s /\ s <= choices}
    IN  /\ Free
        /\ CellsOf(mem, 0) # {} /\ hist_valid /\ hist # <<>>
        /\ mem' = WithoutSequences(mem, spare)
        /\ SlotsUntouched /\ UNCHANGED <<hist, hist_valid, interrupt, gen, saved>>

\* The stem's last token is gone and could not be decoded again.
ScoreChoicesFails ==
    /\ Free
    /\ CellsOf(mem, 0) # {} /\ hist_valid /\ hist # <<>>
    /\ DecodeMayFail
    /\ mem' = SeqRm(mem, 0, EndOf(mem) - 1)
    /\ hist_valid' = FALSE
    /\ SlotsUntouched /\ UNCHANGED <<hist, interrupt, gen, saved>>

\* llama_ctx_lora_set.
ContextLoraSet ==
    /\ gen.pc = "none"
    /\ LoraSet
    /\ hist' = <<>>
    /\ UNCHANGED <<interrupt, gen, saved>>

\* llama_ctx_generate_speculative, which does not look at the slots: the
\* cache, target's or draft's, restarts from its prompt.
Speculative(text) ==
    /\ phase = "host" /\ gen.pc = "none"
    /\ Fits({}, text)
    /\ mem' = Appended({}, text)
    /\ interrupt' = FALSE
    /\ Forget
    /\ SlotsUntouched /\ UNCHANGED <<gen, saved>>

StateSave ==
    /\ Saves /\ Free
    /\ saved' = [mem |-> mem, hist |-> IF hist_valid THEN hist ELSE <<>>,
                 valid |-> hist_valid, there |-> TRUE]
    /\ UNCHANGED <<vars, hist, interrupt, gen>>

\* llama_ctx_state_load of that blob, or of the bare engine state in it.
StateLoad(bare) ==
    /\ Free /\ saved.there
    /\ mem' = saved.mem
    /\ hist' = IF bare THEN <<>> ELSE saved.hist
    /\ hist_valid' = (saved.valid /\ ~bare)
    /\ SlotsUntouched /\ UNCHANGED <<interrupt, gen, saved>>

\* A blob llama_state_set_data rejects: an error, before the history is seen to.
StateRejected ==
    /\ Saves /\ Free
    /\ mem' = IF RejectClears THEN {} ELSE mem
    /\ SlotsUntouched /\ UNCHANGED <<hist, hist_valid, interrupt, gen, saved>>

-----------------------------------------------------------------------------
\* The slots' calls, which leave the history but for its flag.
SlotsCall ==
    /\ gen.pc = "none"
    /\ \/ \E prompt \in Prompt, n \in NPredict : Post(prompt, n)
       \/ \E i \in DOMAIN queue : CancelQueued(i)
       \/ \E s \in SlotIds : CancelBusy(s)
       \/ \E toks \in SystemPrompt : SetSystem(toks)
       \/ ClearSystem
       \/ UpdateBegin
       \/ UpdateStep
    /\ UNCHANGED ctxVars

ContextReset ==
    /\ gen.pc = "none"
    /\ Reset
    /\ hist' = <<>>
    /\ UNCHANGED <<interrupt, gen, saved>>

SingleCall ==
    \/ \E prompt \in GenPrompt, n \in GenPredict, c \in BOOLEAN : Generate(prompt, n, c)
    \/ RaiseInterrupt
    \/ GenerateStep
    \/ \E text \in EvalText : Eval(text)
    \/ \E text \in ScoreText : Score(text)
    \/ \E text \in EmbedText : Embed(text)
    \/ \E n \in 0 .. MaxChoices : ScoreChoices(n)
    \/ ScoreChoicesFails
    \/ ContextLoraSet
    \/ \E text \in SpecLeft : Speculative(text)
    \/ StateSave
    \/ \E bare \in BOOLEAN : StateLoad(bare)
    \/ StateRejected

CtxNext == SlotsCall \/ ContextReset \/ SingleCall

CtxSpec == CtxInit /\ [][CtxNext]_<<vars, ctxVars>>

-----------------------------------------------------------------------------
(* Properties *)

\* Module Slots, with a sequence 0 that may come to hold any text.
AllTexts == UNION {[1 .. n -> Token] : n \in 0 .. NCtxSeq}
S == INSTANCE Slots WITH Leftover <- AllTexts

(* A valid history is what sequence 0 holds, token for token, so that a      *)
(* cache_prompt generate splices its prompt onto cells of the same tokens    *)
(* (the comment at CtxState::hist: every path that decodes maintains it, or  *)
(* flips hist_valid).                                                        *)
HistMirrors == hist_valid => Held(mem, 0) = Placed(hist)

(* The logits generate samples from condition on its prompt and on all it    *)
(* produced, each token once and at its position, whatever prefix came from  *)
(* the cache; without cache_prompt, on top of what the cache held.           *)
SampledFromItsPrompt ==
    gen.pc = "sample" =>
        Held(mem, 0) = gen.base \cup
            {<<gen.from + p[1], p[2]>> : p \in Placed(gen.prompt \o gen.produced)}

(* Once the host has raised the interrupt word of a running generate, at     *)
(* most one more batch is decoded (llama_ctx_interrupt_addr: it stops at its *)
(* next token).                                                              *)
InterruptStops == gen.late <= 1

(* While slots hold tasks the single-sequence calls leave the cache alone,   *)
(* and between batches they touch sequence 0 at most: seen from the slots    *)
(* they are UseSequence0, and the context implements module Slots.           *)
SlotsSeeSequence0 == S!Spec

(* What llama_api.h says of n_predict -1, until EOS or context end: a        *)
(* generate that was given no count never runs into the end of the cache.    *)
RunsToContextEnd ==
    gen.pc = "decode" /\ gen.to_end => Fits(mem, <<gen.produced[Len(gen.produced)]>>)

(* What the comment in llama_ctx_score says every caller must see to: no      *)
(* batch of more than n_batch rows, for llama_decode asserts on it and the   *)
(* wasm module traps.                                                        *)
DecodeWithinBatch == gen.pc # "trapped"
=============================================================================
