---------------------------- MODULE Speculative ----------------------------
(***************************************************************************)
(* llama_ctx_generate_speculative: a draft context proposes tokens, the    *)
(* target verifies them in one batch and emits only what its own sampler   *)
(* picked.  The caches of both contexts are cut back to a common position  *)
(* at each disagreement.                                                   *)
(*                                                                         *)
(* A cache is the text it holds: both are cleared at the start and only    *)
(* sequence 0 is used.  llama_decode (external) refuses a batch that does  *)
(* not continue the text or finds no cells, and traps on one with more     *)
(* rows than n_batch.  What a sampler draws is a free choice, and so is    *)
(* whether a token completes a stop string.                                *)
(***************************************************************************)
EXTENDS Integers, Sequences

CONSTANTS
    Token,          \* the vocabulary, without the end-of-generation tokens
    EOG,            \* any of those
    Prompt,         \* tokenized prompts
    NPredict,       \* n_predict values
    NDraft,         \* n_draft, 8 when the caller passes none
    NCtx,           \* llama_n_ctx of the target
    Cells,          \* cells of sequence 0, of the target and of the draft
    Batch,          \* n_batch of the target and of the draft
    DecodeMayFail   \* llama_decode may fail for a reason of its own

Contexts == {"target", "draft"}

ASSUME SpeculativeAssumption ==
    /\ EOG \notin Token
    /\ Prompt \subseteq Seq(Token) \ {<<>>}
    /\ NPredict \subseteq Int
    /\ {NDraft, NCtx} \subseteq Nat \ {0}
    /\ {Cells, Batch} \subseteq [Contexts -> Nat \ {0}]
    /\ Cells["target"] <= NCtx
    /\ DecodeMayFail \in BOOLEAN

VARIABLES
    pc,          \* where the call is
    prompt, budget,
    kv,          \* the text each cache holds
    tpos, dpos,  \* the lengths the code believes they have
    off,         \* tokens of the prompt decoded
    interrupt,   \* one of the two interrupt words is raised
    pending,     \* the last emitted token, in neither cache
    drafts, base, k, i,
    logits,      \* the text each row of the target's last decode was computed after
    produced,
    given,       \* ghost: the text each produced token was sampled after
    late,        \* ghost: tokens emitted since the interrupt was raised
    outcome      \* how the last call ended

callVars == <<prompt, budget>>
roundVars == <<pending, drafts, base, k, i>>
outVars == <<produced, given, late>>
vars == <<pc, callVars, kv, tpos, dpos, off, interrupt, roundVars, logits, outVars, outcome>>

Min2(x, y) == IF x < y THEN x ELSE y
First(text, n) == SubSeq(text, 1, n)

Init ==
    /\ pc = "idle" /\ prompt = <<>> /\ budget = 0
    /\ kv = [c \in Contexts |-> <<>>] /\ tpos = 0 /\ dpos = 0 /\ off = 0
    /\ interrupt = FALSE
    /\ pending = EOG /\ drafts = <<>> /\ base = 0 /\ k = 0 /\ i = 0
    /\ logits = <<>> /\ produced = <<>> /\ given = <<>> /\ late = 0
    /\ outcome = "none"

-----------------------------------------------------------------------------
\* The call returns; fail drops the text, End reports it.
Return(how) == pc' = "idle" /\ outcome' = how
Go(where) == pc' = where /\ UNCHANGED outcome

HasRoom(c, toks) == Len(kv[c]) + Len(toks) <= Cells[c]

\* A decode of toks on c goes well.
Decodes(c, toks) == /\ HasRoom(c, toks)
                    /\ kv' = [kv EXCEPT ![c] = @ \o toks]

\* It fails: nothing of the batch stays.
DecodeFails(c, toks) == /\ DecodeMayFail \/ ~HasRoom(c, toks)
                        /\ Return("error")
                        /\ UNCHANGED kv

-----------------------------------------------------------------------------
Budget(p, n) == IF n >= 0 THEN n ELSE IF Len(p) <= NCtx THEN NCtx - Len(p) ELSE 0

\* Mutant: the draft's cache keeps the text of the last call.
Cleared_TargetOnly == [kv EXCEPT !["target"] = <<>>]

Cleared == [c \in Contexts |-> <<>>]

Begin(p, n) ==
    /\ pc = "idle"
    /\ prompt' = p
    /\ budget' = Budget(p, n)
    /\ interrupt' = FALSE
    /\ kv' = Cleared
    /\ off' = 0 /\ produced' = <<>> /\ given' = <<>> /\ late' = 0
    /\ logits' = <<>>
    /\ pc' = "prefill" /\ outcome' = "none"
    /\ UNCHANGED <<tpos, dpos, roundVars>>

\* The next n_batch tokens of the prompt.
Piece(c) == SubSeq(prompt, off + 1, Min2(off + Batch[c], Len(prompt)))

\* prefill: one piece of the prompt on one context, then the other.
Prefill(c, where, then) ==
    /\ pc = where
    /\ \/ /\ interrupt
          /\ Return("interrupted")
          /\ UNCHANGED <<kv, off, logits>>
       \/ /\ ~interrupt
          /\ Decodes(c, Piece(c))
          /\ logits' = IF c = "target" THEN <<kv'[c]>> ELSE logits
          /\ IF off + Batch[c] < Len(prompt)
             THEN off' = off + Batch[c] /\ Go(where)
             ELSE off' = 0 /\ Go(then)
       \/ /\ ~interrupt
          /\ DecodeFails(c, Piece(c))
          /\ UNCHANGED <<off, logits>>
    /\ UNCHANGED <<callVars, tpos, dpos, interrupt, roundVars, outVars>>

PrefillTarget == Prefill("target", "prefill", "prefilldraft")
PrefillDraft  == Prefill("draft", "prefilldraft", "first")

-----------------------------------------------------------------------------
\* Mutant: the budget is looked at before the token is counted.
Spent_Late == Len(produced) >= budget

\* produced.size() < budget, with the token just emitted.
Spent == Len(produced') >= budget

\* emit(t), with what comes after it unless generation stops.
Emit(t, row, then) ==
    /\ produced' = Append(produced, t)
    /\ given' = Append(given, logits[row + 1])
    /\ late' = IF interrupt THEN late + 1 ELSE 0
    /\ \/ Return("stop")
       \/ IF Spent THEN Return("length") ELSE then

FirstSample ==
    /\ pc = "first"
    /\ tpos' = Len(prompt) /\ dpos' = Len(prompt)
    /\ \/ /\ budget = 0
          /\ Return("length")
          /\ UNCHANGED <<pending, outVars>>
       \/ /\ budget # 0
          /\ pending' = EOG
          /\ Return("eos")
          /\ UNCHANGED outVars
       \/ /\ budget # 0
          /\ pending' \in Token
          /\ Emit(pending', 0, Go("round"))
    /\ UNCHANGED <<callVars, kv, off, interrupt, drafts, base, k, i, logits>>

-----------------------------------------------------------------------------
\* One round.

\* Mutant: the window does not bound the proposals.
Proposals_BudgetOnly == Min2(NDraft, budget - Len(produced))

\* k, how many tokens the draft may propose.
Proposals == LET n == Min2(Min2(NDraft, budget - Len(produced)), NCtx - tpos - 1)
             IN  IF n < 0 THEN 0 ELSE n

\* Mutant: rejected drafts stay in the draft's cache.
CaughtUp_Kept == kv["draft"]

\* The draft's cache without the drafts the target rejected.
CaughtUp == IF dpos > tpos THEN First(kv["draft"], tpos) ELSE kv["draft"]

\* Mutant: the loop does not look at the interrupt words.
Interrupted_Never == FALSE

Interrupted == interrupt

Round ==
    /\ pc = "round"
    /\ \/ /\ Interrupted
          /\ Return("interrupted")
          /\ UNCHANGED <<kv, dpos, drafts, k>>
       \/ /\ ~Interrupted
          /\ Len(CaughtUp) < Cells["draft"]
          /\ kv' = [kv EXCEPT !["draft"] = Append(CaughtUp, pending)]
          /\ dpos' = Min2(dpos, tpos) + 1
          /\ k' = Proposals
          /\ drafts' = <<>>
          /\ Go(IF k' = 0 THEN "verify" ELSE "draft")
       \/ /\ ~Interrupted
          /\ DecodeMayFail \/ Len(CaughtUp) >= Cells["draft"]
          /\ kv' = [kv EXCEPT !["draft"] = CaughtUp]
          /\ dpos' = Min2(dpos, tpos)
          /\ Return("error")
          /\ UNCHANGED <<drafts, k>>
    /\ UNCHANGED <<callVars, tpos, off, interrupt, pending, base, i, logits, outVars>>

\* One proposal; the draft's own end of generation ends the proposals.
Draft ==
    /\ pc = "draft"
    /\ \/ Go("verify") /\ UNCHANGED <<kv, dpos, drafts>>
       \/ \E d \in Token :
             /\ drafts' = Append(drafts, d)
             /\ \/ /\ Decodes("draft", <<d>>)
                   /\ dpos' = dpos + 1
                   /\ Go(IF Len(drafts') = k THEN "verify" ELSE "draft")
                \/ DecodeFails("draft", <<d>>) /\ UNCHANGED dpos
    /\ UNCHANGED <<callVars, tpos, off, interrupt, pending, base, k, i, logits, outVars>>

\* The verification batch: pending and the drafts, at positions from tpos on.
Verification == <<pending>> \o drafts

Verify ==
    /\ pc = "verify"
    /\ base' = tpos
    /\ i' = 0
    /\ \/ /\ Len(Verification) > Batch["target"]
          /\ Go("trapped")
          /\ UNCHANGED <<kv, tpos, logits>>
       \/ /\ Len(Verification) <= Batch["target"]
          /\ tpos = Len(kv["target"])
          /\ Decodes("target", Verification)
          /\ tpos' = tpos + Len(Verification)
          /\ logits' = [j \in DOMAIN Verification |-> First(kv'["target"], tpos + j)]
          /\ Go("walk")
       \/ /\ Len(Verification) <= Batch["target"]
          /\ \/ DecodeFails("target", Verification)
             \/ tpos # Len(kv["target"]) /\ Return("error") /\ UNCHANGED kv
          /\ UNCHANGED <<tpos, logits>>
    /\ UNCHANGED <<callVars, dpos, off, interrupt, pending, drafts, k, outVars>>

\* Mutant: the sample that disagrees with draft i leaves draft i in place.
Accepted_OneMore == base + 2 + i

\* The target's length when draft i is rejected.
Accepted == base + 1 + i

\* One row of the verification: the target's own sample t.
Walk(t) ==
    LET judged == i < Len(drafts)
        keep == judged /\ t = drafts[i + 1]
    IN  /\ pc = "walk"
        /\ IF judged /\ ~keep
           THEN /\ kv' = [kv EXCEPT !["target"] = First(@, Accepted)]
                /\ tpos' = Accepted
           ELSE UNCHANGED <<kv, tpos>>
        /\ IF t = EOG
           THEN Return("eos") /\ UNCHANGED <<pending, i, outVars>>
           ELSE IF keep
           THEN Emit(t, i, Go("walk")) /\ i' = i + 1 /\ UNCHANGED pending
           ELSE Emit(t, i, Go("round")) /\ pending' = t /\ UNCHANGED i
        /\ UNCHANGED <<callVars, dpos, off, interrupt, drafts, base, k, logits>>

\* The host raises one of the two words while the call runs.
Interrupt == /\ pc \notin {"idle", "trapped"}
             /\ ~interrupt
             /\ interrupt' = TRUE
             /\ UNCHANGED <<pc, callVars, kv, tpos, dpos, off, roundVars, logits,
                            outVars, outcome>>

Step == \/ PrefillTarget \/ PrefillDraft \/ FirstSample \/ Round \/ Draft \/ Verify
        \/ \E t \in Token \cup {EOG} : Walk(t)

Next == \/ \E p \in Prompt, n \in NPredict : Begin(p, n)
        \/ Step
        \/ Interrupt

Spec == Init /\ [][Next]_vars

-----------------------------------------------------------------------------
(* Properties *)

AR == INSTANCE Autoregressive WITH
    Budgets <- {Budget(p, n) : p \in Prompt, n \in NPredict},
    open <- pc \notin {"idle", "trapped"},
    request <- [prompt |-> prompt, budget |-> budget],
    text <- [j \in DOMAIN produced |-> [tok |-> produced[j], after |-> given[j]]]

\* The draft only decides how much work a batch does: every token emitted was
\* sampled by the target after exactly the prompt and the tokens emitted
\* before it, within the budget, whatever the draft proposed and however the
\* caches were cut back (llama_api.h: "the output distribution is exactly the
\* target's").
ImplementsAutoregressive == AR!Spec

\* Between rounds the target holds the text but its last token, and the draft
\* what the target holds; while it proposes, the draft holds the text and its
\* own proposals: it never proposes from a text the target left.
CachesAgree ==
    /\ pc = "round" =>
          /\ kv["target"] \o <<pending>> = prompt \o produced
          /\ tpos = Len(kv["target"]) /\ dpos = Len(kv["draft"])
          /\ dpos >= tpos /\ First(kv["draft"], tpos) = kv["target"]
    /\ pc \in {"draft", "verify"} => kv["draft"] = prompt \o produced \o drafts

\* A call fails only where one without a draft would: when the next token of
\* the text has no cell in the target's cache.  The proposals never overrun
\* either cache, and never a batch.
FailsOnlyWhenFull ==
    /\ pc # "trapped"
    /\ outcome = "error" => Len(prompt) + Len(produced) > Cells["target"]

\* After an interrupt at most the round that runs is finished: one sample for
\* each of its drafts and one more.
InterruptEndsRound == late <= NDraft + 1
=============================================================================
