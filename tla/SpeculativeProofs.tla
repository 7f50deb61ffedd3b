-------------------------- MODULE SpeculativeProofs --------------------------
(***************************************************************************)
(* Proofs about Speculative, for every vocabulary, prompt, window, batch   *)
(* and number of drafts.                                                   *)
(*                                                                         *)
(* The argument: IInv says, for each point of the call, which text each    *)
(* cache holds, as an equation with the prompt and the tokens emitted so   *)
(* far.  While a verification is walked, the rows of its logits are the    *)
(* prefixes of the target's cache, and the cache up to the row that is     *)
(* looked at is the text emitted; so a sample is always drawn after that   *)
(* text, and cutting the cache there when a draft is rejected restores the *)
(* equation of the next round.                                             *)
(***************************************************************************)
EXTENDS Speculative, SequenceTheorems, TLAPS

Text == prompt \o produced

Places == {"idle", "prefill", "prefilldraft", "first", "round", "draft", "verify",
           "walk", "trapped"}

SpecTypes ==
    /\ pc \in Places
    /\ prompt \in Seq(Token) /\ budget \in Nat
    /\ kv \in [Contexts -> Seq(Token)]
    /\ tpos \in Nat /\ dpos \in Nat /\ off \in Nat
    /\ base \in Nat /\ k \in Nat /\ i \in Nat
    /\ interrupt \in BOOLEAN /\ late \in Nat
    /\ pending \in Token \cup {EOG}
    /\ drafts \in Seq(Token) /\ produced \in Seq(Token)
    /\ given \in Seq(Seq(Token)) /\ Len(given) = Len(produced)

Prefilling ==
    /\ off <= Len(prompt) /\ produced = <<>>
    /\ kv["target"] = First(prompt, off) /\ kv["draft"] = <<>>

PrefillingDraft ==
    /\ off <= Len(prompt) /\ produced = <<>> /\ logits = <<prompt>>
    /\ kv["target"] = prompt /\ kv["draft"] = First(prompt, off)

Prefilled ==
    /\ produced = <<>> /\ logits = <<prompt>>
    /\ kv["target"] = prompt /\ kv["draft"] = prompt

(* The target lacks the last token of the text, and there is budget left.  *)
OneBehind ==
    /\ pending \in Token /\ Len(produced) < budget
    /\ kv["target"] \o <<pending>> = Text
    /\ tpos = Len(kv["target"]) /\ dpos = Len(kv["draft"])

Between ==
    /\ OneBehind
    /\ dpos >= tpos /\ First(kv["draft"], tpos) = kv["target"]

Proposing == OneBehind /\ kv["draft"] = Text \o drafts

Walking ==
    /\ Len(produced) < budget /\ i <= Len(drafts)
    /\ kv["draft"] = kv["target"] /\ dpos = Len(kv["draft"])
    /\ tpos = Len(kv["target"]) /\ tpos = base + 1 + Len(drafts)
    /\ First(kv["target"], base + 1 + i) = Text
    /\ \A j \in 1 .. Len(drafts) : kv["target"][base + 1 + j] = drafts[j]
    /\ \A j \in 1 .. Len(drafts) + 1 : logits[j] = First(kv["target"], base + j)

IInv ==
    /\ SpecTypes
    /\ pc = "prefill" => Prefilling
    /\ pc = "prefilldraft" => PrefillingDraft
    /\ pc = "first" => Prefilled
    /\ pc = "round" => Between
    /\ pc \in {"draft", "verify"} => Proposing
    /\ pc = "walk" => Walking

-----------------------------------------------------------------------------
(* The first n elements of a text.                                         *)
LEMMA FirstType ==
    ASSUME NEW s \in Seq(Token), NEW n \in 0 .. Len(s)
    PROVE  /\ First(s, n) \in Seq(Token)
           /\ Len(First(s, n)) = n
           /\ \A j \in 1 .. n : First(s, n)[j] = s[j]
<1>1. \A j \in 1 .. n : s[j] \in Token
  BY LenProperties, ElementOfSeq
<1> QED
  BY <1>1, SubSeqProperties, LenProperties DEF First

LEMMA FirstAll ==
    ASSUME NEW s \in Seq(Token)
    PROVE  First(s, Len(s)) = s
  BY SubSeqFull DEF First

(* What follows a text does not change what it starts with.                *)
LEMMA FirstOfConcat ==
    ASSUME NEW s \in Seq(Token), NEW t \in Seq(Token), NEW n \in 0 .. Len(s)
    PROVE  First(s \o t, n) = First(s, n)
<1>1. s \o t \in Seq(Token) /\ Len(s \o t) = Len(s) + Len(t)
  BY ConcatProperties
<1>2. n \in 0 .. Len(s \o t)
  BY <1>1, LenProperties
<1>3. \A j \in 1 .. n : (s \o t)[j] = s[j]
  BY ConcatProperties, LenProperties
<1>4. /\ First(s \o t, n) \in Seq(Token) /\ Len(First(s \o t, n)) = n
      /\ \A j \in 1 .. n : First(s \o t, n)[j] = (s \o t)[j]
  BY <1>1, <1>2, FirstType
<1>5. /\ First(s, n) \in Seq(Token) /\ Len(First(s, n)) = n
      /\ \A j \in 1 .. n : First(s, n)[j] = s[j]
  BY FirstType
<1>6. \A j \in 1 .. Len(First(s, n)) : First(s \o t, n)[j] = First(s, n)[j]
  BY <1>3, <1>4, <1>5
<1> QED
  BY <1>4, <1>5, <1>6, SeqEqual

(* A text is what it starts with and one more token.                       *)
LEMMA FirstStep ==
    ASSUME NEW s \in Seq(Token), NEW n \in 0 .. Len(s) - 1
    PROVE  First(s, n + 1) = First(s, n) \o <<s[n + 1]>>
<1>1. Len(s) \in Nat
  BY LenProperties
<1>2. 1 \in 1 .. Len(s) /\ n + 1 \in 1 .. Len(s)
  BY <1>1
<1>3. SubSeq(s, 1, n + 1) = SubSeq(s, 1, (n + 1) - 1) \o <<s[n + 1]>>
  BY <1>2, SubSeqRecursiveSecond
<1> QED
  BY <1>3 DEF First

(* A piece that starts where the first n elements end.                     *)
LEMMA FirstAndPiece ==
    ASSUME NEW s \in Seq(Token), NEW n \in 0 .. Len(s), NEW m \in n .. Len(s)
    PROVE  /\ SubSeq(s, n + 1, m) \in Seq(Token)
           /\ Len(SubSeq(s, n + 1, m)) = m - n
           /\ First(s, n) \o SubSeq(s, n + 1, m) = First(s, m)
<1>1. Len(s) \in Nat
  BY LenProperties
<1>2. \A j \in n + 1 .. m : s[j] \in Token
  BY <1>1, LenProperties, ElementOfSeq
<1>3. SubSeq(s, 1, n) \o SubSeq(s, n + 1, m) = SubSeq(s, 1, m)
  <2>1. 1 \in 1 .. Len(s) + 1 /\ n \in 1 - 1 .. Len(s)
    BY <1>1
  <2> QED
    BY <2>1, ConcatAdjacentSubSeq
<1>4. /\ SubSeq(s, n + 1, m) \in Seq(Token)
      /\ Len(SubSeq(s, n + 1, m)) = m - n
  BY <1>1, <1>2, SubSeqProperties
<1> QED
  BY <1>3, <1>4 DEF First

LEMMA OneToken ==
    ASSUME NEW t \in Token
    PROVE  <<t>> \in Seq(Token) /\ Len(<<t>>) = 1
  OBVIOUS

(* One more token emitted is one more token of the text.                   *)
LEMMA TextGrows ==
    ASSUME prompt \in Seq(Token), produced \in Seq(Token), NEW t \in Token,
           prompt' = prompt, produced' = Append(produced, t)
    PROVE  /\ Text \in Seq(Token) /\ Text' \in Seq(Token)
           /\ Text' = Text \o <<t>>
           /\ produced' \in Seq(Token) /\ Len(produced') = Len(produced) + 1
<1>1. produced' = produced \o <<t>>
  BY AppendIsConcat
<1>2. (prompt \o produced) \o <<t>> = prompt \o (produced \o <<t>>)
  BY ConcatAssociative, OneToken
<1>3. produced' \in Seq(Token) /\ Len(produced') = Len(produced) + 1
  BY AppendProperties
<1> QED
  BY <1>1, <1>2, <1>3, ConcatProperties DEF Text

-----------------------------------------------------------------------------
LEMMA BudgetNat ==
    ASSUME NEW p \in Prompt, NEW n \in NPredict
    PROVE  Budget(p, n) \in Nat
<1>1. p \in Seq(Token) /\ n \in Int /\ NCtx \in Nat
  BY SpeculativeAssumption
<1>2. Len(p) \in Nat
  BY <1>1, LenProperties
<1> QED
  BY <1>1, <1>2 DEF Budget

LEMMA Sizes ==
    /\ \A c \in Contexts : Batch[c] \in Nat \ {0} /\ Cells[c] \in Nat \ {0}
    /\ NDraft \in Nat \ {0} /\ NCtx \in Nat \ {0}
    /\ EOG \notin Token
  BY SpeculativeAssumption

LEMMA InitInv == Init => IInv
<1> SUFFICES ASSUME Init PROVE IInv
  OBVIOUS
<1>1. <<>> \in Seq(Token) /\ <<>> \in Seq(Seq(Token)) /\ Len(<<>>) = 0
  BY EmptySeq
<1>2. kv \in [Contexts -> Seq(Token)]
  BY <1>1 DEF Init
<1> QED
  BY <1>1, <1>2 DEF Init, IInv, SpecTypes, Places

LEMMA BeginInv ==
    ASSUME IInv, NEW p \in Prompt, NEW n \in NPredict, Begin(p, n)
    PROVE  IInv'
<1>1. p \in Seq(Token) /\ Budget(p, n) \in Nat
  BY SpeculativeAssumption, BudgetNat
<1>2. <<>> \in Seq(Token) /\ <<>> \in Seq(Seq(Token)) /\ Len(<<>>) = 0
  BY EmptySeq
<1>3. kv' \in [Contexts -> Seq(Token)] /\ kv'["target"] = <<>> /\ kv'["draft"] = <<>>
  BY <1>2 DEF Begin, Cleared, Contexts
<1>4. SpecTypes'
  BY <1>1, <1>2, <1>3 DEF Begin, IInv, SpecTypes, Places, roundVars
<1>5. First(p, 0) = <<>> /\ Len(p) \in Nat
  BY <1>1, SubSeqEmpty, LenProperties DEF First
<1>6. Prefilling'
  BY <1>3, <1>5 DEF Begin, Prefilling
<1>7. pc' = "prefill"
  BY DEF Begin
<1> QED
  BY <1>4, <1>6, <1>7 DEF IInv

(* A piece of the prompt takes a cache from its first off tokens to the    *)
(* first off' of them, or to all.                                          *)
LEMMA PieceExtends ==
    ASSUME prompt \in Seq(Token), off \in 0 .. Len(prompt), NEW c \in Contexts
    PROVE  /\ Piece(c) \in Seq(Token)
           /\ off + Batch[c] < Len(prompt) =>
                 First(prompt, off) \o Piece(c) = First(prompt, off + Batch[c])
           /\ off + Batch[c] >= Len(prompt) => First(prompt, off) \o Piece(c) = prompt
<1> DEFINE m == Min2(off + Batch[c], Len(prompt))
<1>1. Len(prompt) \in Nat /\ Batch[c] \in Nat \ {0}
  BY LenProperties, Sizes
<1>2. m \in off .. Len(prompt)
  BY <1>1 DEF Min2
<1>3. /\ SubSeq(prompt, off + 1, m) \in Seq(Token)
      /\ First(prompt, off) \o SubSeq(prompt, off + 1, m) = First(prompt, m)
  BY <1>2, FirstAndPiece
<1>4. /\ off + Batch[c] < Len(prompt) => m = off + Batch[c]
      /\ off + Batch[c] >= Len(prompt) => m = Len(prompt)
  BY <1>1 DEF Min2
<1>5. First(prompt, Len(prompt)) = prompt
  BY FirstAll
<1> QED
  BY <1>3, <1>4, <1>5 DEF Piece

LEMMA PrefillTypes ==
    ASSUME IInv, NEW c \in Contexts, NEW where \in Places, NEW then \in Places,
           off \in 0 .. Len(prompt), Prefill(c, where, then)
    PROVE  SpecTypes'
<1>1. Piece(c) \in Seq(Token) /\ Batch[c] \in Nat
  BY PieceExtends, Sizes DEF IInv, SpecTypes
<1>2. kv[c] \o Piece(c) \in Seq(Token)
  BY <1>1, ConcatProperties DEF IInv, SpecTypes
<1>3. kv' \in [Contexts -> Seq(Token)]
  BY <1>2 DEF Prefill, Decodes, DecodeFails, IInv, SpecTypes
<1>4. pc' \in {where, then, "idle"} /\ off' \in {off, off + Batch[c], 0}
  BY Zenon DEF Prefill, DecodeFails, Go, Return
<1>5. pc' \in Places
  BY <1>4 DEF Places
<1>6. off' \in Nat
  BY <1>1, <1>4 DEF IInv, SpecTypes
<1> QED
  BY <1>3, <1>5, <1>6 DEF Prefill, callVars, roundVars, outVars, IInv, SpecTypes

LEMMA PrefillTargetInv ==
    ASSUME IInv, PrefillTarget
    PROVE  IInv'
<1> USE DEF PrefillTarget
<1>1. Prefilling /\ prompt \in Seq(Token) /\ pc = "prefill" /\ Len(prompt) \in Nat
  BY LenProperties DEF IInv, SpecTypes, Prefill
<1>2. off \in 0 .. Len(prompt)
  <2>1. off \in Nat
    BY DEF IInv, SpecTypes
  <2>2. off <= Len(prompt)
    BY <1>1 DEF Prefilling
  <2> QED
    BY <1>1, <2>1, <2>2
<1>3. SpecTypes'
  BY <1>2, PrefillTypes DEF Contexts, Places
<1>4. prompt' = prompt /\ produced' = produced
  BY DEF Prefill, callVars, outVars
<1>5. CASE pc' = "idle"
  BY <1>3, <1>5 DEF IInv
<1>6. CASE pc' # "idle"
  <2>1. Decodes("target", Piece("target"))
    BY <1>6 DEF Prefill, DecodeFails, Return
  <2>2. /\ kv'["target"] = First(prompt, off) \o Piece("target")
        /\ kv'["draft"] = <<>>
    BY <1>1, <2>1 DEF Decodes, Prefilling, IInv, SpecTypes, Contexts
  <2>3. logits' = <<kv'["target"]>>
    BY <1>6 DEF Prefill, DecodeFails, Return
  <2>4. CASE off + Batch["target"] < Len(prompt)
    <3>0. off + Batch["target"] <= Len(prompt)
      <4>1. Batch["target"] \in Nat
        BY Sizes DEF Contexts
      <4> QED
        BY <1>1, <1>2, <2>4, <4>1
    <3>1. off' = off + Batch["target"] /\ pc' = "prefill"
      BY <1>6, <2>4 DEF Prefill, DecodeFails, Return, Go
    <3>2. kv'["target"] = First(prompt, off')
      BY <1>1, <1>2, <2>2, <2>4, <3>1, PieceExtends DEF Contexts
    <3>3. Prefilling'
      BY <1>1, <1>4, <2>2, <3>0, <3>1, <3>2 DEF Prefilling
    <3> QED
      BY <1>3, <3>1, <3>3 DEF IInv
  <2>5. CASE ~(off + Batch["target"] < Len(prompt))
    <3>1. off' = 0 /\ pc' = "prefilldraft"
      BY <1>6, <2>5 DEF Prefill, DecodeFails, Return, Go
    <3>2. off + Batch["target"] >= Len(prompt)
      <4>1. Batch["target"] \in Nat
        BY Sizes DEF Contexts
      <4> QED
        BY <1>1, <1>2, <2>5, <4>1
    <3>3. kv'["target"] = prompt
      BY <1>1, <1>2, <2>2, <3>2, PieceExtends DEF Contexts
    <3>4. First(prompt, 0) = <<>>
      BY SubSeqEmpty, 0 < 1 DEF First
    <3>5. PrefillingDraft'
      BY <1>1, <1>4, <2>2, <2>3, <3>1, <3>3, <3>4 DEF PrefillingDraft, Prefilling
    <3> QED
      BY <1>3, <3>1, <3>5 DEF IInv
  <2> QED
    BY <2>4, <2>5
<1> QED
  BY <1>5, <1>6

LEMMA PrefillDraftInv ==
    ASSUME IInv, PrefillDraft
    PROVE  IInv'
<1> USE DEF PrefillDraft
<1>1. PrefillingDraft /\ prompt \in Seq(Token) /\ pc = "prefilldraft" /\ Len(prompt) \in Nat
  BY LenProperties DEF IInv, SpecTypes, Prefill
<1>2. off \in 0 .. Len(prompt)
  <2>1. off \in Nat
    BY DEF IInv, SpecTypes
  <2>2. off <= Len(prompt)
    BY <1>1 DEF PrefillingDraft
  <2> QED
    BY <1>1, <2>1, <2>2
<1>3. SpecTypes'
  BY <1>2, PrefillTypes DEF Contexts, Places
<1>4. prompt' = prompt /\ produced' = produced
  BY DEF Prefill, callVars, outVars
<1>5. CASE pc' = "idle"
  BY <1>3, <1>5 DEF IInv
<1>6. CASE pc' # "idle"
  <2>1. Decodes("draft", Piece("draft"))
    BY <1>6 DEF Prefill, DecodeFails, Return
  <2>2. /\ kv'["draft"] = First(prompt, off) \o Piece("draft")
        /\ kv'["target"] = prompt
    BY <1>1, <2>1 DEF Decodes, PrefillingDraft, IInv, SpecTypes, Contexts
  <2>3. logits' = logits
    BY <1>6 DEF Prefill, DecodeFails, Return
  <2>4. CASE off + Batch["draft"] < Len(prompt)
    <3>0. off + Batch["draft"] <= Len(prompt)
      <4>1. Batch["draft"] \in Nat
        BY Sizes DEF Contexts
      <4> QED
        BY <1>1, <1>2, <2>4, <4>1
    <3>1. off' = off + Batch["draft"] /\ pc' = "prefilldraft"
      BY <1>6, <2>4 DEF Prefill, DecodeFails, Return, Go
    <3>2. kv'["draft"] = First(prompt, off')
      BY <1>1, <1>2, <2>2, <2>4, <3>1, PieceExtends DEF Contexts
    <3>3. PrefillingDraft'
      BY <1>1, <1>4, <2>2, <2>3, <3>0, <3>1, <3>2 DEF PrefillingDraft
    <3> QED
      BY <1>3, <3>1, <3>3 DEF IInv
  <2>5. CASE ~(off + Batch["draft"] < Len(prompt))
    <3>1. pc' = "first"
      BY <1>6, <2>5 DEF Prefill, DecodeFails, Return, Go
    <3>2. off + Batch["draft"] >= Len(prompt)
      <4>1. Batch["draft"] \in Nat
        BY Sizes DEF Contexts
      <4> QED
        BY <1>1, <1>2, <2>5, <4>1
    <3>3. kv'["draft"] = prompt
      BY <1>1, <1>2, <2>2, <3>2, PieceExtends DEF Contexts
    <3>4. Prefilled'
      BY <1>1, <1>4, <2>2, <2>3, <3>3 DEF PrefillingDraft, Prefilled
    <3> QED
      BY <1>3, <3>1, <3>4 DEF IInv
  <2> QED
    BY <2>4, <2>5
<1> QED
  BY <1>5, <1>6

-----------------------------------------------------------------------------
(* What a token emitted after the text g leaves.                           *)
LEMMA EmitTypes ==
    ASSUME SpecTypes, NEW t \in Token, NEW row \in Nat, NEW ACTION then,
           prompt' = prompt, logits[row + 1] \in Seq(Token), Emit(t, row, then)
    PROVE  /\ produced' \in Seq(Token) /\ Len(produced') = Len(produced) + 1
           /\ given' \in Seq(Seq(Token)) /\ Len(given') = Len(produced')
           /\ late' \in Nat
           /\ Text \in Seq(Token) /\ Text' = Text \o <<t>>
<1>1. /\ produced' = Append(produced, t) /\ given' = Append(given, logits[row + 1])
      /\ late' = IF interrupt THEN late + 1 ELSE 0
  BY DEF Emit
<1>2. /\ prompt \in Seq(Token) /\ produced \in Seq(Token) /\ given \in Seq(Seq(Token))
      /\ Len(given) = Len(produced) /\ late \in Nat
  BY DEF SpecTypes
<1>3. /\ produced' \in Seq(Token) /\ Len(produced') = Len(produced) + 1
      /\ Text \in Seq(Token) /\ Text' = Text \o <<t>>
  BY <1>1, <1>2, TextGrows
<1>4. given' \in Seq(Seq(Token)) /\ Len(given') = Len(given) + 1
  BY <1>1, <1>2, AppendProperties
<1>5. late' \in Nat
  BY <1>1, <1>2
<1> QED
  BY <1>2, <1>3, <1>4, <1>5

LEMMA FirstSampleInv ==
    ASSUME IInv, FirstSample
    PROVE  IInv'
<1>1. Prefilled /\ SpecTypes
  BY DEF FirstSample, IInv
<1>2. prompt \in Seq(Token) /\ Len(prompt) \in Nat
  BY <1>1, LenProperties DEF SpecTypes
<1>3. logits[0 + 1] = prompt /\ kv["target"] = prompt /\ kv["draft"] = prompt
  BY <1>1 DEF Prefilled
<1>4. /\ prompt' = prompt /\ budget' = budget /\ kv' = kv /\ tpos' = Len(prompt)
      /\ dpos' = Len(prompt)
      /\ UNCHANGED <<off, interrupt, drafts, base, k, i>>
  BY DEF FirstSample, callVars
<1>5. CASE UNCHANGED outVars /\ pc' = "idle" /\ pending' \in {pending, EOG}
  <2>1. SpecTypes'
    BY <1>1, <1>2, <1>4, <1>5 DEF SpecTypes, Places, outVars
  <2> QED
    BY <1>5, <2>1 DEF IInv
<1>6. CASE pending' \in Token /\ Emit(pending', 0, Go("round"))
  <2>1. /\ produced' \in Seq(Token) /\ Len(produced') = Len(produced) + 1
        /\ given' \in Seq(Seq(Token)) /\ Len(given') = Len(produced')
        /\ late' \in Nat
        /\ Text' = Text \o <<pending'>>
    BY <1>1, <1>2, <1>3, <1>4, <1>6, EmitTypes
  <2>2. pc' = "idle" \/ (pc' = "round" /\ ~Spent)
    BY <1>6 DEF Emit, Go, Return
  <2>3. SpecTypes'
    BY <1>1, <1>2, <1>4, <1>6, <2>1, <2>2 DEF SpecTypes, Places
  <2>4. CASE pc' = "round" /\ ~Spent
    <3>1. Text = prompt
      BY <1>1, <1>2, ConcatEmptySeq DEF Text, Prefilled
    <3>2. Len(produced') < budget'
      <4>1. Len(produced') \in Nat /\ budget \in Nat
        BY <1>1, <2>1, LenProperties DEF SpecTypes
      <4> QED
        BY <1>4, <2>4, <4>1 DEF Spent
    <3>3. First(prompt, Len(prompt)) = prompt
      BY <1>2, FirstAll
    <3>4. OneBehind'
      BY <1>3, <1>4, <1>6, <2>1, <3>1, <3>2 DEF OneBehind
    <3>5. Between'
      BY <1>2, <1>3, <1>4, <3>3, <3>4 DEF Between
    <3> QED
      BY <2>3, <2>4, <3>5 DEF IInv
  <2> QED
    BY <2>2, <2>3, <2>4 DEF IInv
<1> QED
  BY <1>5, <1>6, Zenon DEF FirstSample, Return

(* The draft's cache without rejected drafts is the target's.              *)
LEMMA CaughtUpIsTarget ==
    ASSUME SpecTypes, Between
    PROVE  CaughtUp = kv["target"]
<1>1. kv["draft"] \in Seq(Token)
  BY DEF SpecTypes, Contexts
<1>2. First(kv["draft"], Len(kv["draft"])) = kv["draft"]
  BY <1>1, FirstAll
<1>3. /\ dpos >= tpos /\ First(kv["draft"], tpos) = kv["target"]
      /\ dpos = Len(kv["draft"]) /\ dpos \in Nat /\ tpos \in Nat
  BY DEF Between, OneBehind, SpecTypes
<1> QED
  BY <1>2, <1>3 DEF CaughtUp

(* A proposal is one of n_draft, and leaves the window room for the token  *)
(* it comes after.                                                         *)
LEMMA ProposalsFit ==
    ASSUME SpecTypes
    PROVE  /\ Proposals \in Nat /\ Proposals <= NDraft
           /\ Proposals = 0 \/ Proposals <= NCtx - tpos - 1
<1>1. Len(produced) \in Nat /\ budget \in Nat /\ tpos \in Nat
  BY LenProperties DEF SpecTypes
<1>2. NDraft \in Nat /\ NCtx \in Nat
  BY Sizes
<1> QED
  BY <1>1, <1>2 DEF Proposals, Min2

LEMMA RoundInv ==
    ASSUME IInv, Round
    PROVE  IInv'
<1>1. Between /\ SpecTypes
  BY DEF Round, IInv
<1>2. CaughtUp = kv["target"] /\ kv["target"] \in Seq(Token)
  BY <1>1, CaughtUpIsTarget DEF SpecTypes, Contexts
<1>3. UNCHANGED <<prompt, budget, tpos, off, interrupt, pending, base, i, produced, given, late>>
  BY DEF Round, callVars, outVars
<1>4. Min2(dpos, tpos) = tpos /\ tpos \in Nat /\ dpos \in Nat
  BY <1>1 DEF Min2, Between, SpecTypes
<1>5. CASE /\ kv' = [kv EXCEPT !["draft"] = Append(CaughtUp, pending)]
           /\ dpos' = Min2(dpos, tpos) + 1 /\ k' = Proposals /\ drafts' = <<>>
           /\ pc' \in {"draft", "verify"}
  <2>1. pending \in Token
    BY <1>1 DEF Between, OneBehind
  <2>2. /\ Append(CaughtUp, pending) = Text /\ Text \in Seq(Token)
        /\ Len(Text) = tpos + 1
    <3>1. kv["target"] \o <<pending>> = Text /\ tpos = Len(kv["target"])
      BY <1>1 DEF Between, OneBehind
    <3> QED
      BY <1>2, <2>1, <3>1, AppendIsConcat, AppendProperties
  <2>3. kv' \in [Contexts -> Seq(Token)] /\ kv'["draft"] = Text /\ kv'["target"] = kv["target"]
    BY <1>1, <1>5, <2>2 DEF SpecTypes, Contexts
  <2>4. SpecTypes'
    BY <1>1, <1>3, <1>4, <1>5, <2>3, ProposalsFit, EmptySeq DEF SpecTypes, Places
  <2>5. Text' = Text /\ Text \o drafts' = Text
    BY <1>3, <1>5, <2>2, ConcatEmptySeq DEF Text
  <2>6. Proposing'
    BY <1>1, <1>3, <1>4, <1>5, <2>2, <2>3, <2>5 DEF Between, OneBehind, Proposing
  <2> QED
    BY <1>5, <2>4, <2>6 DEF IInv
<1>6. CASE /\ kv' \in {kv, [kv EXCEPT !["draft"] = CaughtUp]}
           /\ dpos' \in {dpos, Min2(dpos, tpos)}
           /\ UNCHANGED <<drafts, k>> /\ pc' = "idle"
  <2>1. kv' \in [Contexts -> Seq(Token)]
    BY <1>1, <1>2, <1>6 DEF SpecTypes
  <2>2. SpecTypes'
    BY <1>1, <1>3, <1>4, <1>6, <2>1 DEF SpecTypes, Places
  <2> QED
    BY <1>6, <2>2 DEF IInv
<1> QED
  BY <1>5, <1>6, Zenon DEF Round, Return, Go

LEMMA DraftInv ==
    ASSUME IInv, Draft
    PROVE  IInv'
<1>1. Proposing /\ SpecTypes
  BY DEF Draft, IInv
<1>2. UNCHANGED <<prompt, budget, tpos, off, interrupt, pending, base, k, i, produced, given, late>>
  BY DEF Draft, callVars, outVars
<1>3. Text' = Text /\ Text \in Seq(Token) /\ drafts \in Seq(Token) /\ kv["draft"] = Text \o drafts
  BY <1>1, <1>2, ConcatProperties DEF Text, SpecTypes, Proposing
<1>4. CASE pc' = "verify" /\ UNCHANGED <<kv, dpos, drafts>>
  <2>1. SpecTypes' /\ Proposing'
    BY <1>1, <1>2, <1>3, <1>4 DEF SpecTypes, Places, Proposing, OneBehind
  <2> QED
    BY <1>4, <2>1 DEF IInv
<1>5. ASSUME NEW d \in Token, drafts' = Append(drafts, d),
             Decodes("draft", <<d>>), dpos' = dpos + 1, pc' \in {"draft", "verify"}
      PROVE  IInv'
  <2>1. /\ drafts' = drafts \o <<d>> /\ drafts' \in Seq(Token) /\ <<d>> \in Seq(Token)
        /\ Len(<<d>>) = 1
    BY <1>3, <1>5, AppendIsConcat, AppendProperties
  <2>2. kv["draft"] \in Seq(Token) /\ kv["draft"] \o <<d>> = Text \o drafts'
    BY <1>3, <2>1, ConcatAssociative, ConcatProperties
  <2>3. /\ kv["draft"] \o <<d>> \in Seq(Token)
        /\ Len(kv["draft"] \o <<d>>) = Len(kv["draft"]) + 1
    BY <2>1, <2>2, ConcatProperties
  <2>4. /\ kv' \in [Contexts -> Seq(Token)] /\ kv'["target"] = kv["target"]
        /\ kv'["draft"] = kv["draft"] \o <<d>>
    BY <1>1, <1>5, <2>3 DEF Decodes, SpecTypes, Contexts
  <2>5. SpecTypes'
    BY <1>1, <1>2, <1>5, <2>1, <2>4 DEF SpecTypes, Places
  <2>6. Proposing'
    BY <1>1, <1>2, <1>3, <1>5, <2>2, <2>3, <2>4 DEF Proposing, OneBehind
  <2> QED
    BY <1>5, <2>5, <2>6 DEF IInv
<1>6. ASSUME NEW d \in Token, drafts' = Append(drafts, d),
             DecodeFails("draft", <<d>>), dpos' = dpos
      PROVE  IInv'
  <2>1. drafts' \in Seq(Token)
    BY <1>3, <1>6, AppendProperties
  <2>2. kv' = kv /\ pc' = "idle"
    BY <1>6 DEF DecodeFails, Return
  <2>3. SpecTypes'
    BY <1>1, <1>2, <1>6, <2>1, <2>2 DEF SpecTypes, Places
  <2> QED
    BY <2>2, <2>3 DEF IInv
<1> QED
  BY <1>4, <1>5, <1>6, Zenon DEF Draft, Go

(* A text, then one token p and the tokens d.                              *)
LEMMA ThenTokens ==
    ASSUME NEW s \in Seq(Token), NEW p \in Token, NEW d \in Seq(Token)
    PROVE  /\ <<p>> \o d \in Seq(Token) /\ Len(<<p>> \o d) = Len(d) + 1
           /\ DOMAIN (<<p>> \o d) = 1 .. Len(d) + 1
           /\ s \o (<<p>> \o d) = (s \o <<p>>) \o d
           /\ (s \o <<p>>) \o d \in Seq(Token)
           /\ Len((s \o <<p>>) \o d) = Len(s) + 1 + Len(d)
           /\ First((s \o <<p>>) \o d, Len(s) + 1) = s \o <<p>>
           /\ \A j \in 1 .. Len(d) : ((s \o <<p>>) \o d)[Len(s) + 1 + j] = d[j]
<1>1. <<p>> \in Seq(Token) /\ Len(<<p>>) = 1 /\ Len(s) \in Nat /\ Len(d) \in Nat
  BY OneToken, LenProperties
<1>2. <<p>> \o d \in Seq(Token) /\ Len(<<p>> \o d) = Len(d) + 1
  BY <1>1, ConcatProperties
<1>3. DOMAIN (<<p>> \o d) = 1 .. Len(d) + 1
  BY <1>2, LenProperties
<1>4. s \o (<<p>> \o d) = (s \o <<p>>) \o d
  BY <1>1, ConcatAssociative
<1>5. s \o <<p>> \in Seq(Token) /\ Len(s \o <<p>>) = Len(s) + 1
  BY <1>1, ConcatProperties
<1> DEFINE q == s \o <<p>>
<1> HIDE DEF q
<1>6. q \in Seq(Token) /\ Len(q) = Len(s) + 1
  BY <1>5 DEF q
<1>7. q \o d \in Seq(Token) /\ Len(q \o d) = Len(s) + 1 + Len(d)
  BY <1>1, <1>6, ConcatProperties
<1>8. First(q \o d, Len(s) + 1) = q
  <2>1. Len(q) \in 0 .. Len(q)
    BY <1>1, <1>6
  <2>2. First(q \o d, Len(q)) = First(q, Len(q))
    BY <1>6, <2>1, FirstOfConcat
  <2> QED
    BY <1>6, <2>2, FirstAll
<1>9. \A j \in 1 .. Len(d) : (q \o d)[Len(s) + 1 + j] = d[j]
  <2> SUFFICES ASSUME NEW j \in 1 .. Len(d)
               PROVE  (q \o d)[Len(s) + 1 + j] = d[j]
    OBVIOUS
  <2>1. Len(q) + j \in 1 .. Len(q) + Len(d) /\ ~(Len(q) + j <= Len(q))
        /\ Len(q) + j - Len(q) = j /\ Len(s) + 1 + j = Len(q) + j
    BY <1>1, <1>6
  <2>2. (q \o d)[Len(q) + j] = IF Len(q) + j <= Len(q) THEN q[Len(q) + j]
                               ELSE d[Len(q) + j - Len(q)]
    BY <1>6, <2>1, ConcatProperties
  <2> QED
    BY <2>1, <2>2
<1> QED
  BY <1>2, <1>3, <1>4, <1>7, <1>8, <1>9 DEF q

(* The verification takes the target to the text and all drafts; its rows  *)
(* are the prefixes that end in pending and in each draft.                 *)
LEMMA VerifyInv ==
    ASSUME IInv, Verify
    PROVE  IInv'
<1>1. Proposing /\ SpecTypes
  BY DEF Verify, IInv
<1>2. /\ UNCHANGED <<prompt, budget, dpos, off, interrupt, pending, drafts, k,
                     produced, given, late>>
      /\ base' = tpos /\ i' = 0
  BY DEF Verify, callVars, outVars
<1>3. CASE UNCHANGED <<kv, tpos>> /\ pc' \in {"idle", "trapped"}
  <2>1. SpecTypes'
    BY <1>1, <1>2, <1>3 DEF SpecTypes, Places
  <2> QED
    BY <1>3, <2>1 DEF IInv
<1>4. CASE /\ Decodes("target", Verification) /\ pc' = "walk"
           /\ tpos' = tpos + Len(Verification)
           /\ logits' = [j \in DOMAIN Verification |-> First(kv'["target"], tpos + j)]
  <2>1. /\ pending \in Token /\ kv["target"] \in Seq(Token) /\ drafts \in Seq(Token)
        /\ tpos \in Nat
    BY <1>1 DEF Proposing, OneBehind, SpecTypes, Contexts
  <2>2. /\ kv["target"] \o <<pending>> = Text /\ tpos = Len(kv["target"])
        /\ dpos = Len(kv["draft"]) /\ Len(produced) < budget
        /\ kv["draft"] = Text \o drafts
    BY <1>1 DEF Proposing, OneBehind
  <2>3. /\ Len(Verification) = Len(drafts) + 1
        /\ DOMAIN Verification = 1 .. Len(drafts) + 1
        /\ kv["target"] \o Verification = Text \o drafts
        /\ Text \o drafts \in Seq(Token)
        /\ Len(Text \o drafts) = tpos + 1 + Len(drafts)
        /\ First(Text \o drafts, tpos + 1) = Text
        /\ \A j \in 1 .. Len(drafts) : (Text \o drafts)[tpos + 1 + j] = drafts[j]
    <3> DEFINE q == kv["target"] \o <<pending>>
    <3>1. /\ Len(Verification) = Len(drafts) + 1
          /\ DOMAIN Verification = 1 .. Len(drafts) + 1
          /\ kv["target"] \o Verification = q \o drafts
          /\ q \o drafts \in Seq(Token)
          /\ Len(q \o drafts) = Len(kv["target"]) + 1 + Len(drafts)
          /\ First(q \o drafts, Len(kv["target"]) + 1) = q
          /\ \A j \in 1 .. Len(drafts) : (q \o drafts)[Len(kv["target"]) + 1 + j] = drafts[j]
      BY <2>1, ThenTokens, Zenon DEF Verification
    <3>2. q = Text /\ tpos = Len(kv["target"])
      BY <2>2
    <3> HIDE DEF q
    <3> QED
      BY <3>1, <3>2
  <2>4. Len(drafts) \in Nat
    BY <2>1, LenProperties
  <2>5. kv' = [kv EXCEPT !["target"] = Text \o drafts]
    BY <1>4, <2>3 DEF Decodes
  <2>6. /\ kv' \in [Contexts -> Seq(Token)] /\ kv'["target"] = Text \o drafts
        /\ kv'["draft"] = Text \o drafts
    BY <1>1, <2>2, <2>3, <2>5 DEF SpecTypes, Contexts
  <2>7. tpos' \in Nat /\ tpos' = base' + 1 + Len(drafts) /\ base' + 1 + i' = tpos + 1
    BY <1>2, <1>4, <2>1, <2>3, <2>4
  <2>8. SpecTypes'
    BY <1>1, <1>2, <1>4, <2>1, <2>6, <2>7 DEF SpecTypes, Places
  <2>9. Text' = Text
    BY <1>2 DEF Text
  <2>10. \A j \in 1 .. Len(drafts) + 1 : logits'[j] = First(kv'["target"], base' + j)
    BY <1>2, <1>4, <2>3
  <2>11. i' <= Len(drafts')
    BY <1>2, <2>4
  <2>12. \A j \in 1 .. Len(drafts') : kv'["target"][base' + 1 + j] = drafts'[j]
    BY <1>2, <2>3, <2>6
  <2>13. First(kv'["target"], base' + 1 + i') = Text'
    BY <2>3, <2>6, <2>7, <2>9
  <2>14. /\ kv'["draft"] = kv'["target"] /\ dpos' = Len(kv'["draft"])
         /\ tpos' = Len(kv'["target"]) /\ tpos' = base' + 1 + Len(drafts')
         /\ Len(produced') < budget'
    BY <1>2, <2>2, <2>3, <2>6, <2>7
  <2>15. Walking'
    BY <1>2, <2>10, <2>11, <2>12, <2>13, <2>14 DEF Walking
  <2> QED
    BY <1>4, <2>8, <2>15 DEF IInv
<1> QED
  BY <1>3, <1>4, Zenon DEF Verify, DecodeFails, Return, Go

-----------------------------------------------------------------------------
(* The row that is looked at was computed after the text.                  *)
LEMMA WalkRow ==
    ASSUME SpecTypes, Walking
    PROVE  /\ Text \in Seq(Token) /\ kv["target"] \in Seq(Token)
           /\ i + 1 \in 1 .. Len(drafts) + 1 /\ Len(drafts) \in Nat
           /\ base + 1 + i \in 0 .. Len(kv["target"])
           /\ logits[i + 1] = Text
<1>1. Text \in Seq(Token) /\ kv["target"] \in Seq(Token) /\ Len(drafts) \in Nat
  BY ConcatProperties, LenProperties DEF SpecTypes, Contexts, Text
<1>2. i \in Nat /\ base \in Nat /\ i <= Len(drafts)
      /\ Len(kv["target"]) = base + 1 + Len(drafts)
  BY DEF SpecTypes, Walking
<1>3. i + 1 \in 1 .. Len(drafts) + 1 /\ base + (i + 1) = base + 1 + i
  BY <1>1, <1>2
<1>4. logits[i + 1] = First(kv["target"], base + (i + 1))
  BY <1>3 DEF Walking
<1> QED
  BY <1>1, <1>2, <1>3, <1>4 DEF Walking

(* The target agrees with draft i + 1 : the next row is computed after it. *)
LEMMA KeepInv ==
    ASSUME IInv, pc = "walk", NEW t \in Token, i < Len(drafts), t = drafts[i + 1],
           UNCHANGED <<callVars, kv, tpos, pending, dpos, off, interrupt, drafts, base,
                       k, logits>>,
           Emit(t, i, Go("walk")), i' = i + 1
    PROVE  IInv'
<1>1. Walking /\ SpecTypes
  BY DEF IInv
<1>2. /\ Text \in Seq(Token) /\ kv["target"] \in Seq(Token) /\ Len(drafts) \in Nat
      /\ logits[i + 1] = Text /\ i \in Nat /\ base \in Nat
      /\ Len(kv["target"]) = base + 1 + Len(drafts)
  BY <1>1, WalkRow DEF SpecTypes, Walking
<1>3. /\ produced' \in Seq(Token) /\ Len(produced') = Len(produced) + 1
      /\ given' \in Seq(Seq(Token)) /\ Len(given') = Len(produced')
      /\ late' \in Nat /\ Text' = Text \o <<t>>
  BY <1>1, <1>2, EmitTypes DEF callVars
<1>4. pc' = "idle" \/ (pc' = "walk" /\ ~Spent)
  BY DEF Emit, Go, Return
<1>5. SpecTypes'
  BY <1>1, <1>2, <1>3, <1>4 DEF SpecTypes, Places, callVars
<1>6. First(kv["target"], base + 1 + (i + 1)) = Text \o <<t>>
  <2>1. base + 1 + i \in 0 .. Len(kv["target"]) - 1 /\ i + 1 \in 1 .. Len(drafts)
    BY <1>2
  <2>2. First(kv["target"], (base + 1 + i) + 1) =
            First(kv["target"], base + 1 + i) \o <<kv["target"][(base + 1 + i) + 1]>>
    BY <1>2, <2>1, FirstStep
  <2>3. kv["target"][base + 1 + (i + 1)] = t /\ First(kv["target"], base + 1 + i) = Text
    BY <1>1, <2>1 DEF Walking
  <2>4. (base + 1 + i) + 1 = base + 1 + (i + 1)
    BY <1>2
  <2> QED
    BY <2>2, <2>3, <2>4
<1>7. CASE pc' = "walk" /\ ~Spent
  <2>1. Len(produced') < budget'
    <3>1. Len(produced') \in Nat /\ budget \in Nat /\ budget' = budget
      BY <1>1, <1>3, LenProperties DEF SpecTypes, callVars
    <3> QED
      BY <1>7, <3>1 DEF Spent
  <2>2. i' <= Len(drafts')
    BY <1>2
  <2>3. First(kv'["target"], base' + 1 + i') = Text'
    BY <1>3, <1>6
  <2>4. Walking'
    BY <1>1, <2>1, <2>2, <2>3 DEF Walking
  <2> QED
    BY <1>5, <1>7, <2>4 DEF IInv
<1> QED
  BY <1>4, <1>5, <1>7 DEF IInv

(* The target samples a token of its own, or one past the last draft: its  *)
(* cache is cut to the text, and the token is pending.                     *)
LEMMA TurnInv ==
    ASSUME IInv, pc = "walk", NEW t \in Token,
           UNCHANGED <<callVars, dpos, off, interrupt, drafts, base, k, logits, i>>,
           \/ /\ kv' = [kv EXCEPT !["target"] = First(@, Accepted)]
              /\ tpos' = Accepted
           \/ ~(i < Len(drafts)) /\ UNCHANGED <<kv, tpos>>,
           Emit(t, i, Go("round")), pending' = t
    PROVE  IInv'
<1>1. Walking /\ SpecTypes
  BY DEF IInv
<1>2. /\ Text \in Seq(Token) /\ kv["target"] \in Seq(Token) /\ Len(drafts) \in Nat
      /\ logits[i + 1] = Text /\ i \in Nat /\ base \in Nat /\ tpos \in Nat
      /\ Accepted \in 0 .. Len(kv["target"])
      /\ Len(kv["target"]) = base + 1 + Len(drafts) /\ i <= Len(drafts)
  BY <1>1, WalkRow DEF SpecTypes, Walking, Accepted
<1>3. /\ produced' \in Seq(Token) /\ Len(produced') = Len(produced) + 1
      /\ given' \in Seq(Seq(Token)) /\ Len(given') = Len(produced')
      /\ late' \in Nat /\ Text' = Text \o <<t>>
  BY <1>1, <1>2, EmitTypes DEF callVars
<1>4. First(kv["target"], Accepted) = Text /\ Len(Text) = Accepted
  <2>1. First(kv["target"], base + 1 + i) = Text
    BY <1>1 DEF Walking
  <2> QED
    BY <1>2, <2>1, FirstType DEF Accepted
<1>5. /\ kv' \in [Contexts -> Seq(Token)] /\ kv'["target"] = Text
      /\ kv'["draft"] = kv["target"] /\ tpos' = Accepted
  <2>1. kv["draft"] = kv["target"] /\ tpos = Len(kv["target"])
    BY <1>1 DEF Walking
  <2>2. CASE kv' = [kv EXCEPT !["target"] = First(@, Accepted)] /\ tpos' = Accepted
    BY <1>1, <1>2, <1>4, <2>1, <2>2 DEF SpecTypes, Contexts
  <2>3. CASE ~(i < Len(drafts)) /\ UNCHANGED <<kv, tpos>>
    <3>1. Accepted = Len(kv["target"])
      BY <1>2, <2>3 DEF Accepted
    <3>2. kv["target"] = Text
      BY <1>2, <1>4, <3>1, FirstAll
    <3> QED
      BY <1>1, <2>1, <2>3, <3>1, <3>2 DEF SpecTypes
  <2> QED
    BY <2>2, <2>3
<1>6. pc' = "idle" \/ (pc' = "round" /\ ~Spent)
  BY DEF Emit, Go, Return
<1>7. SpecTypes'
  BY <1>1, <1>2, <1>3, <1>5, <1>6 DEF SpecTypes, Places, callVars
<1>8. CASE pc' = "round" /\ ~Spent
  <2>1. Len(produced') < budget'
    <3>1. Len(produced') \in Nat /\ budget \in Nat /\ budget' = budget
      BY <1>1, <1>3, LenProperties DEF SpecTypes, callVars
    <3> QED
      BY <1>8, <3>1 DEF Spent
  <2>2. dpos' = Len(kv'["draft"]) /\ dpos' >= tpos'
    BY <1>1, <1>2, <1>5 DEF Walking
  <2>3. OneBehind'
    BY <1>3, <1>4, <1>5, <2>1, <2>2 DEF OneBehind
  <2>4. Between'
    BY <1>4, <1>5, <2>2, <2>3 DEF Between
  <2> QED
    BY <1>7, <1>8, <2>4 DEF IInv
<1> QED
  BY <1>6, <1>7, <1>8 DEF IInv

LEMMA WalkEndInv ==
    ASSUME IInv, pc = "walk", Walk(EOG)
    PROVE  IInv'
<1>1. Walking /\ SpecTypes
  BY DEF IInv
<1>2. /\ kv["target"] \in Seq(Token) /\ Accepted \in 0 .. Len(kv["target"])
  BY <1>1, WalkRow DEF SpecTypes, Accepted
<1>3. kv' \in {kv, [kv EXCEPT !["target"] = First(@, Accepted)]} /\ tpos' \in {tpos, Accepted}
  BY Zenon DEF Walk
<1>4. First(kv["target"], Accepted) \in Seq(Token)
  BY <1>2, FirstType
<1>5. kv' \in [Contexts -> Seq(Token)] /\ tpos' \in Nat
  BY <1>1, <1>2, <1>3, <1>4 DEF SpecTypes, Contexts
<1>6. pc' = "idle" /\ UNCHANGED <<callVars, dpos, off, interrupt, drafts, base, k, logits,
                                 pending, i, outVars>>
  BY DEF Walk, Return
<1>7. SpecTypes'
  BY <1>1, <1>5, <1>6 DEF SpecTypes, Places, callVars, outVars
<1> QED
  BY <1>6, <1>7 DEF IInv

LEMMA WalkInv ==
    ASSUME IInv, NEW t \in Token \cup {EOG}, Walk(t)
    PROVE  IInv'
<1>1. pc = "walk"
  BY DEF Walk
<1>2. CASE t = EOG
  BY <1>1, <1>2, WalkEndInv
<1>3. CASE t # EOG /\ i < Len(drafts) /\ t = drafts[i + 1]
  BY <1>1, <1>3, KeepInv DEF Walk
<1>4. CASE t # EOG /\ ~(i < Len(drafts) /\ t = drafts[i + 1])
  BY <1>1, <1>4, TurnInv DEF Walk
<1> QED
  BY <1>2, <1>3, <1>4

LEMMA UnchangedInv ==
    ASSUME IInv, interrupt' \in BOOLEAN,
           UNCHANGED <<pc, callVars, kv, tpos, dpos, off, roundVars, logits, outVars>>
    PROVE  IInv'
<1>1. UNCHANGED <<pc, prompt, budget, kv, tpos, dpos, off, pending, drafts, base, k, i, logits,
                  produced, given, late>>
  BY DEF callVars, roundVars, outVars
<1>2. SpecTypes'
  BY <1>1 DEF IInv, SpecTypes
<1> QED
  BY <1>1, <1>2 DEF IInv, Prefilling, PrefillingDraft, Prefilled, Between, Proposing,
     OneBehind, Walking, Text

LEMMA StepInv ==
    ASSUME IInv, [Next]_vars
    PROVE  IInv'
<1>1. CASE Next
  <2>1. ASSUME NEW p \in Prompt, NEW n \in NPredict, Begin(p, n) PROVE IInv'
    BY <2>1, BeginInv
  <2>2. CASE PrefillTarget
    BY <2>2, PrefillTargetInv
  <2>3. CASE PrefillDraft
    BY <2>3, PrefillDraftInv
  <2>4. CASE FirstSample
    BY <2>4, FirstSampleInv
  <2>5. CASE Round
    BY <2>5, RoundInv
  <2>6. CASE Draft
    BY <2>6, DraftInv
  <2>7. CASE Verify
    BY <2>7, VerifyInv
  <2>8. ASSUME NEW t \in Token \cup {EOG}, Walk(t) PROVE IInv'
    BY <2>8, WalkInv
  <2>9. CASE Interrupt
    BY <2>9, UnchangedInv DEF Interrupt
  <2> QED
    BY <1>1, <2>1, <2>2, <2>3, <2>4, <2>5, <2>6, <2>7, <2>8, <2>9 DEF Next, Step
<1>2. CASE UNCHANGED vars
  <2>1. interrupt' \in BOOLEAN
    BY <1>2 DEF vars, IInv, SpecTypes
  <2> QED
    BY <1>2, <2>1, UnchangedInv DEF vars
<1> QED
  BY <1>1, <1>2

(* At each point of the call both caches hold what IInv says.              *)
THEOREM TextsOfCaches == Spec => []IInv
<1> QED
  BY InitInv, StepInv, PTL DEF Spec

(* Between rounds the draft's cache starts with the target's, and the two  *)
(* positions the code keeps are the lengths of the caches.                 *)
THEOREM CachesAlwaysAgree == Spec => []CachesAgree
<1>1. IInv => CachesAgree
  BY DEF IInv, CachesAgree, Between, Proposing, OneBehind, Text
<1> QED
  BY <1>1, TextsOfCaches, PTL

-----------------------------------------------------------------------------
(* Autoregressive, under the refinement mapping of Speculative.            *)
Mapped == [j \in DOMAIN produced |-> [tok |-> produced[j], after |-> given[j]]]
Open == pc \notin {"idle", "trapped"}
Request == [prompt |-> prompt, budget |-> budget]

LEMMA MappedTokens ==
    ASSUME SpecTypes
    PROVE  /\ AR!Tokens(Mapped) = produced
           /\ Mapped \in Seq([tok : Token, after : Seq(Token)])
           /\ Len(Mapped) = Len(produced)
<1>1. /\ produced \in [1 .. Len(produced) -> Token] /\ DOMAIN produced = 1 .. Len(produced)
      /\ given \in [1 .. Len(produced) -> Seq(Token)] /\ Len(produced) \in Nat
  BY LenProperties DEF SpecTypes
<1>2. /\ Mapped = [j \in 1 .. Len(produced) |-> [tok |-> produced[j], after |-> given[j]]]
      /\ \A j \in 1 .. Len(produced) :
            [tok |-> produced[j], after |-> given[j]] \in [tok : Token, after : Seq(Token)]
  BY <1>1 DEF Mapped
<1>3. /\ Mapped \in Seq([tok : Token, after : Seq(Token)]) /\ Len(Mapped) = Len(produced)
  BY <1>1, <1>2
<1>4. AR!Tokens(Mapped) = [j \in 1 .. Len(produced) |-> produced[j]]
  BY <1>1 DEF AR!Tokens, Mapped
<1>5. [j \in 1 .. Len(produced) |-> produced[j]] = produced
  BY <1>1
<1> QED
  BY <1>3, <1>4, <1>5

(* A token emitted after the text is a step of Autoregressive.             *)
LEMMA EmitIsSample ==
    ASSUME SpecTypes, NEW t \in Token, NEW row \in Nat, NEW ACTION then,
           UNCHANGED callVars, logits[row + 1] = Text, Emit(t, row, then),
           Open, Len(produced) < budget
    PROVE  AR!Sample(t)
<1>1. produced' = Append(produced, t) /\ given' = Append(given, Text)
  BY DEF Emit
<1>2. /\ produced \in Seq(Token) /\ given \in Seq(Seq(Token)) /\ Len(given) = Len(produced)
      /\ Text \in Seq(Token) /\ Len(produced) \in Nat
  BY ConcatProperties, LenProperties DEF SpecTypes, Text
<1>3. /\ Mapped \in Seq([tok : Token, after : Seq(Token)]) /\ Len(Mapped) = Len(produced)
      /\ AR!Tokens(Mapped) = produced
  BY MappedTokens
<1> DEFINE e == [tok |-> t, after |-> Text]
<1>4. Mapped' = Append(Mapped, e)
  <2>1. /\ Len(produced') = Len(produced) + 1 /\ produced' \in Seq(Token)
        /\ \A j \in 1 .. Len(produced) : produced'[j] = produced[j]
        /\ produced'[Len(produced) + 1] = t
    BY <1>1, <1>2, AppendProperties
  <2>2. /\ given' \in Seq(Seq(Token)) /\ Len(given') = Len(produced) + 1
        /\ \A j \in 1 .. Len(produced) : given'[j] = given[j]
        /\ given'[Len(produced) + 1] = Text
    BY <1>1, <1>2, AppendProperties
  <2>3. DOMAIN produced' = 1 .. Len(produced) + 1 /\ DOMAIN produced = 1 .. Len(produced)
    BY <1>2, <2>1, LenProperties
  <2>4. Mapped' = [j \in 1 .. Len(produced) + 1 |-> [tok |-> produced'[j], after |-> given'[j]]]
    BY <2>3 DEF Mapped
  <2>5. /\ Mapped' \in Seq([tok : Token, after : Seq(Token)]) /\ Len(Mapped') = Len(produced) + 1
    <3>1. \A j \in 1 .. Len(produced) + 1 :
             [tok |-> produced'[j], after |-> given'[j]] \in [tok : Token, after : Seq(Token)]
      BY <1>2, <2>1, <2>2, LenProperties, ElementOfSeq
    <3> QED
      BY <1>2, <2>4, <3>1
  <2>6. e \in [tok : Token, after : Seq(Token)]
    BY <1>2
  <2>7. /\ Append(Mapped, e) \in Seq([tok : Token, after : Seq(Token)])
        /\ Len(Append(Mapped, e)) = Len(produced) + 1
        /\ \A j \in 1 .. Len(produced) : Append(Mapped, e)[j] = Mapped[j]
        /\ Append(Mapped, e)[Len(produced) + 1] = e
    BY <1>3, <2>6, AppendProperties
  <2>8. \A j \in 1 .. Len(produced) + 1 : Mapped'[j] = Append(Mapped, e)[j]
    <3>1. \A j \in 1 .. Len(produced) : Mapped'[j] = Mapped[j]
      <4>1. \A j \in 1 .. Len(produced) : Mapped[j] = [tok |-> produced[j], after |-> given[j]]
        BY <2>3 DEF Mapped
      <4>2. \A j \in 1 .. Len(produced) : Mapped'[j] = [tok |-> produced'[j], after |-> given'[j]]
        BY <1>2, <2>4
      <4> QED
        BY <2>1, <2>2, <4>1, <4>2
    <3>2. Mapped'[Len(produced) + 1] = e
      BY <1>2, <2>1, <2>2, <2>4
    <3>3. \A j \in 1 .. Len(produced) + 1 : j \in 1 .. Len(produced) \/ j = Len(produced) + 1
      BY <1>2
    <3> QED
      BY <2>7, <3>1, <3>2, <3>3
  <2> QED
    BY <2>5, <2>7, <2>8, SeqEqual
<1>5. Open' \in BOOLEAN
  BY DEF Open
<1> QED
  BY <1>3, <1>4, <1>5 DEF AR!Sample, Mapped, Open, Request, Text, callVars

LEMMA InitIsInit == Init => AR!Init
<1> SUFFICES ASSUME Init PROVE AR!Init
  OBVIOUS
<1>1. produced = <<>> /\ DOMAIN <<>> = {} /\ <<>> = [j \in {} |-> 0]
  BY DEF Init
<1>2. Mapped = <<>>
  BY <1>1 DEF Mapped
<1> QED
  BY <1>2 DEF Init, AR!Init, Mapped

(* Every step is one of Autoregressive or changes nothing it sees.         *)
LEMMA StepIsStep ==
    ASSUME IInv, [Next]_vars
    PROVE  [AR!Next]_(AR!autoVars)
<1> DEFINE Same == Open' = Open /\ UNCHANGED callVars /\ UNCHANGED <<produced, given>>
           Ends == Open /\ ~Open' /\ UNCHANGED callVars /\ UNCHANGED <<produced, given>>
<1>1. ASSUME Same PROVE UNCHANGED AR!autoVars
  BY <1>1 DEF AR!autoVars, Open, callVars
<1>2. ASSUME Ends PROVE AR!Next
  BY <1>2 DEF AR!Next, AR!End, Open, callVars
<1>3. ASSUME NEW p \in Prompt, NEW n \in NPredict, Begin(p, n) PROVE AR!Next
  <2>1. produced' = <<>> /\ DOMAIN <<>> = {} /\ <<>> = [j \in {} |-> 0]
    BY <1>3 DEF Begin
  <2>2. Mapped' = <<>>
    BY <2>1 DEF Mapped
  <2>3. AR!Begin
    BY <1>3, <2>2 DEF Begin, AR!Begin, Mapped
  <2> QED
    BY <2>3 DEF AR!Next
<1>4. CASE PrefillTarget
  <2>1. Same \/ Ends
    BY <1>4 DEF PrefillTarget, Prefill, DecodeFails, Return, Go, Open, outVars
  <2> QED
    BY <1>1, <1>2, <2>1
<1>5. CASE PrefillDraft
  <2>1. Same \/ Ends
    BY <1>5 DEF PrefillDraft, Prefill, DecodeFails, Return, Go, Open, outVars
  <2> QED
    BY <1>1, <1>2, <2>1
<1>6. CASE FirstSample
  <2>1. Prefilled /\ SpecTypes /\ pc = "first"
    BY <1>6 DEF FirstSample, IInv
  <2>2. CASE UNCHANGED outVars /\ pc' = "idle"
    <3>1. Ends
      BY <1>6, <2>1, <2>2 DEF FirstSample, Open, outVars
    <3> QED
      BY <1>2, <3>1
  <2>3. CASE budget # 0 /\ pending' \in Token /\ Emit(pending', 0, Go("round"))
    <3>1. logits[0 + 1] = Text /\ Len(produced) < budget
      <4>1. Text = prompt
        BY <2>1, ConcatEmptySeq DEF Text, Prefilled, SpecTypes
      <4>2. budget \in Nat /\ Len(produced) = 0 /\ logits = <<prompt>>
        BY <2>1 DEF SpecTypes, Prefilled
      <4> QED
        BY <2>3, <4>1, <4>2
    <3>2. Open /\ UNCHANGED callVars
      BY <1>6, <2>1 DEF FirstSample, Open
    <3>3. PICK t \in Token : t = pending' /\ Emit(t, 0, Go("round"))
      BY <2>3
    <3>4. AR!Sample(t)
      BY <2>1, <3>1, <3>2, <3>3, EmitIsSample
    <3> QED
      BY <3>4 DEF AR!Next
  <2> QED
    BY <1>6, <2>2, <2>3, Zenon DEF FirstSample, Return
<1>7. CASE Round
  <2>1. Same \/ Ends
    BY <1>7 DEF Round, Return, Go, Open, outVars
  <2> QED
    BY <1>1, <1>2, <2>1
<1>8. CASE Draft
  <2>1. Same \/ Ends
    BY <1>8 DEF Draft, DecodeFails, Return, Go, Open, outVars
  <2> QED
    BY <1>1, <1>2, <2>1
<1>9. CASE Verify
  <2>1. Same \/ Ends
    BY <1>9 DEF Verify, DecodeFails, Return, Go, Open, outVars
  <2> QED
    BY <1>1, <1>2, <2>1
<1>10. ASSUME NEW t \in Token \cup {EOG}, Walk(t) PROVE AR!Next
  <2>1. Walking /\ SpecTypes /\ pc = "walk" /\ Open /\ UNCHANGED callVars
    BY <1>10 DEF Walk, IInv, Open
  <2>2. CASE t = EOG
    <3>1. Ends
      BY <1>10, <2>1, <2>2 DEF Walk, Return, Open, outVars
    <3> QED
      BY <1>2, <3>1
  <2>3. CASE t # EOG
    <3>1. t \in Token /\ i \in Nat /\ logits[i + 1] = Text /\ Len(produced) < budget
      BY <2>1, <2>3, WalkRow DEF SpecTypes, Walking
    <3>2. Emit(t, i, Go("walk")) \/ Emit(t, i, Go("round"))
      BY <1>10, <2>3 DEF Walk
    <3>3. CASE Emit(t, i, Go("walk"))
      BY <2>1, <3>1, <3>3, EmitIsSample DEF AR!Next
    <3>4. CASE Emit(t, i, Go("round"))
      BY <2>1, <3>1, <3>4, EmitIsSample DEF AR!Next
    <3> QED
      BY <3>2, <3>3, <3>4
  <2> QED
    BY <2>2, <2>3
<1>11. CASE Interrupt
  <2>1. Same
    BY <1>11 DEF Interrupt, Open, outVars
  <2> QED
    BY <1>1, <2>1
<1>12. CASE UNCHANGED vars
  <2>1. Same
    BY <1>12 DEF vars, Open, outVars
  <2> QED
    BY <1>1, <2>1
<1> QED
  BY <1>3, <1>4, <1>5, <1>6, <1>7, <1>8, <1>9, <1>10, <1>11, <1>12 DEF Next, Step

(* Speculative decoding is generation token after token: each was sampled  *)
(* by the target after exactly the prompt and the tokens before it, within *)
(* the budget.                                                             *)
THEOREM GenerationIsAutoregressive == Spec => ImplementsAutoregressive
<1> QED
  BY TextsOfCaches, InitIsInit, StepIsStep, PTL DEF Spec, ImplementsAutoregressive, AR!Spec

-----------------------------------------------------------------------------
(* How many drafts there are, and how many tokens follow an interrupt.     *)
DraftsFit == /\ Len(drafts) <= k /\ k <= NDraft
             /\ k = 0 \/ k <= NCtx - tpos - 1

Counts ==
    /\ ~interrupt => late = 0
    /\ late <= NDraft + 1
    /\ pc \in {"prefill", "prefilldraft", "first"} => late = 0
    /\ pc = "draft" => Len(drafts) < k
    /\ pc \in {"draft", "verify"} => late = 0 /\ DraftsFit
    /\ pc = "walk" => Len(drafts) <= NDraft /\ late <= i

LEMMA EmitCounts ==
    ASSUME SpecTypes, Counts, NEW t, NEW row \in Nat, NEW ACTION then, late <= row,
           Emit(t, row, then), interrupt' = interrupt
    PROVE  late' <= row + 1 /\ (~interrupt' => late' = 0)
<1>1. late' = IF interrupt THEN late + 1 ELSE 0
  BY DEF Emit
<1> QED
  BY <1>1 DEF SpecTypes

LEMMA CountsStep ==
    ASSUME IInv, Counts, [Next]_vars
    PROVE  Counts'
<1>1. SpecTypes /\ NDraft \in Nat \ {0} /\ late \in Nat
  BY Sizes DEF IInv, SpecTypes
<1>2. ASSUME NEW p \in Prompt, NEW n \in NPredict, Begin(p, n) PROVE Counts'
  BY <1>1, <1>2 DEF Begin, Counts
<1>3. CASE PrefillTarget
  <2>1. pc = "prefill" /\ pc' \in {"idle", "prefill", "prefilldraft"} /\ UNCHANGED <<late, interrupt>>
    BY <1>3 DEF PrefillTarget, Prefill, DecodeFails, Return, Go, outVars
  <2> QED
    BY <2>1 DEF Counts
<1>4. CASE PrefillDraft
  <2>1. pc = "prefilldraft" /\ pc' \in {"idle", "prefilldraft", "first"} /\ UNCHANGED <<late, interrupt>>
    BY <1>4 DEF PrefillDraft, Prefill, DecodeFails, Return, Go, outVars
  <2> QED
    BY <2>1 DEF Counts
<1>5. CASE FirstSample
  <2>1. pc = "first" /\ pc' \in {"idle", "round"} /\ interrupt' = interrupt
    BY <1>5 DEF FirstSample, Emit, Return, Go
  <2>2. late' = late \/ Emit(pending', 0, Go("round"))
    BY <1>5 DEF FirstSample, outVars
  <2>3. late' <= 1 /\ (~interrupt' => late' = 0)
    <3>1. late = 0
      BY <2>1 DEF Counts
    <3>2. CASE late' = late
      BY <2>1, <3>1, <3>2
    <3>3. CASE Emit(pending', 0, Go("round"))
      BY <1>1, <2>1, <3>1, <3>3 DEF Emit
    <3> QED
      BY <2>2, <3>2, <3>3
  <2>4. late' \in Nat
    BY <1>5, FirstSampleInv DEF IInv, SpecTypes
  <2> QED
    BY <1>1, <2>1, <2>3, <2>4 DEF Counts
<1>6. CASE Round
  <2>1. pc = "round" /\ UNCHANGED <<late, interrupt, tpos>>
    BY <1>6 DEF Round, outVars
  <2>2. CASE pc' = "idle"
    BY <2>1, <2>2 DEF Counts
  <2>3. CASE pc' # "idle"
    <3>1. /\ ~interrupt /\ k' = Proposals /\ drafts' = <<>>
          /\ pc' = IF k' = 0 THEN "verify" ELSE "draft"
      BY <1>6, <2>3 DEF Round, Interrupted, Return, Go
    <3>2. k' \in Nat /\ DraftsFit'
      BY <1>1, <2>1, <3>1, ProposalsFit, EmptySeq DEF DraftsFit
    <3>3. pc' = "draft" => Len(drafts') < k'
      BY <3>1, <3>2, EmptySeq
    <3> QED
      BY <2>1, <3>1, <3>2, <3>3 DEF Counts
  <2> QED
    BY <2>2, <2>3
<1>7. CASE Draft
  <2>1. pc = "draft" /\ UNCHANGED <<late, interrupt, k, tpos>>
    BY <1>7 DEF Draft, outVars
  <2>2. late = 0 /\ DraftsFit /\ Len(drafts) < k /\ k \in Nat
    BY <1>1, <2>1 DEF Counts, SpecTypes
  <2>3. CASE pc' = "idle"
    BY <2>1, <2>3 DEF Counts
  <2>4. CASE pc' = "verify" /\ drafts' = drafts
    BY <2>1, <2>2, <2>4 DEF Counts, DraftsFit
  <2>5. ASSUME NEW d \in Token, drafts' = Append(drafts, d),
               pc' = IF Len(drafts') = k THEN "verify" ELSE "draft"
        PROVE  Counts'
    <3>1. Len(drafts') = Len(drafts) + 1 /\ Len(drafts) \in Nat
      BY <1>1, <2>5, AppendProperties, LenProperties DEF SpecTypes
    <3>2. Len(drafts') <= k /\ (pc' = "draft" => Len(drafts') < k)
      BY <2>2, <2>5, <3>1
    <3> QED
      BY <2>1, <2>2, <2>5, <3>2 DEF Counts, DraftsFit
  <2> QED
    BY <1>7, <2>3, <2>4, <2>5, Zenon DEF Draft, DecodeFails, Return, Go
<1>8. CASE Verify
  <2>1. pc = "verify" /\ i' = 0 /\ UNCHANGED <<late, interrupt, drafts>>
        /\ pc' \in {"idle", "trapped", "walk"}
    BY <1>8 DEF Verify, DecodeFails, Return, Go, outVars
  <2>2. late = 0 /\ Len(drafts) <= NDraft
    <3>1. Len(drafts) \in Nat /\ k \in Nat
      BY <1>1, LenProperties DEF SpecTypes
    <3> QED
      BY <1>1, <2>1, <3>1 DEF Counts, DraftsFit
  <2> QED
    BY <1>1, <2>1, <2>2 DEF Counts
<1>9. ASSUME NEW t \in Token \cup {EOG}, Walk(t) PROVE Counts'
  <2>1. pc = "walk" /\ UNCHANGED <<interrupt, drafts>> /\ i \in Nat /\ Len(drafts) \in Nat
    BY <1>1, <1>9, LenProperties DEF Walk, SpecTypes
  <2>2. Len(drafts) <= NDraft /\ late <= i /\ i <= Len(drafts)
    BY <2>1 DEF Counts, IInv, Walking
  <2>3. CASE UNCHANGED <<late, i>> /\ pc' = "idle"
    BY <2>1, <2>3 DEF Counts
  <2>4. CASE i < Len(drafts) /\ i' = i + 1 /\ Emit(t, i, Go("walk"))
    <3>1. late' <= i + 1 /\ (~interrupt' => late' = 0) /\ pc' \in {"idle", "walk"}
      BY <1>1, <2>1, <2>2, <2>4, EmitCounts DEF Emit, Return, Go
    <3>2. late' \in Nat
      BY <1>9, WalkInv DEF IInv, SpecTypes
    <3> QED
      BY <1>1, <2>1, <2>2, <2>4, <3>1, <3>2 DEF Counts
  <2>5. CASE Emit(t, i, Go("round"))
    <3>1. late' <= i + 1 /\ (~interrupt' => late' = 0) /\ pc' \in {"idle", "round"}
      BY <1>1, <2>1, <2>2, <2>5, EmitCounts DEF Emit, Return, Go
    <3>2. late' \in Nat
      BY <1>9, WalkInv DEF IInv, SpecTypes
    <3> QED
      BY <1>1, <2>1, <2>2, <3>1, <3>2 DEF Counts
  <2> QED
    BY <1>9, <2>3, <2>4, <2>5, Zenon DEF Walk, Return, outVars
<1>10. CASE Interrupt
  BY <1>1, <1>10 DEF Interrupt, Counts, DraftsFit, outVars, roundVars
<1>11. CASE UNCHANGED vars
  BY <1>11 DEF vars, Counts, DraftsFit, outVars, roundVars
<1> QED
  BY <1>2, <1>3, <1>4, <1>5, <1>6, <1>7, <1>8, <1>9, <1>10, <1>11 DEF Next, Step

THEOREM DraftsCounted == Spec => []Counts
<1>1. Init => Counts
  BY Sizes DEF Init, Counts
<1> QED
  BY <1>1, CountsStep, TextsOfCaches, PTL DEF Spec

(* After an interrupt a call emits at most what one round can.             *)
THEOREM InterruptsEndRounds == Spec => []InterruptEndsRound
<1>1. Counts => InterruptEndsRound
  BY DEF Counts, InterruptEndsRound
<1> QED
  BY <1>1, DraftsCounted, PTL

-----------------------------------------------------------------------------
(* The draft's window is no smaller than the target's, all of which is     *)
(* cells of sequence 0, and a verification fits a batch.                   *)
Roomy == /\ ~DecodeMayFail
         /\ Cells["target"] = NCtx /\ NCtx <= Cells["draft"]
         /\ NDraft + 1 <= Batch["target"]

TextTooLong == Len(prompt) + Len(produced) > Cells["target"]

Failures == /\ pc # "trapped"
            /\ pc # "idle" => outcome # "error"
            /\ outcome = "error" => TextTooLong

LEMMA LenText ==
    ASSUME SpecTypes
    PROVE  /\ Len(Text) = Len(prompt) + Len(produced)
           /\ Len(prompt) \in Nat /\ Len(produced) \in Nat
  BY ConcatProperties, LenProperties DEF Text, SpecTypes

LEMMA BehindLen ==
    ASSUME SpecTypes, OneBehind
    PROVE  Len(prompt) + Len(produced) = tpos + 1
<1>1. kv["target"] \in Seq(Token) /\ pending \in Token
  BY DEF SpecTypes, OneBehind, Contexts
<1>2. Len(kv["target"] \o <<pending>>) = Len(kv["target"]) + 1
  BY <1>1, OneToken, ConcatProperties
<1> QED
  BY <1>2, LenText DEF OneBehind

(* A piece of the prompt that finds no cells: the prompt has more tokens.  *)
LEMMA PieceTooLong ==
    ASSUME SpecTypes, NEW c \in Contexts, off <= Len(prompt), produced = <<>>,
           kv[c] = First(prompt, off), Cells["target"] <= Cells[c], ~HasRoom(c, Piece(c))
    PROVE  TextTooLong
<1> DEFINE m == Min2(off + Batch[c], Len(prompt))
<1>1. /\ prompt \in Seq(Token) /\ off \in Nat /\ Len(prompt) \in Nat
      /\ Batch[c] \in Nat /\ Cells[c] \in Nat /\ Cells["target"] \in Nat
  BY LenProperties, Sizes DEF SpecTypes, Contexts
<1>2. m \in off .. Len(prompt) /\ off \in 0 .. Len(prompt)
  BY <1>1 DEF Min2
<1>3. Len(SubSeq(prompt, off + 1, m)) = m - off
  BY <1>1, <1>2, FirstAndPiece
<1>4. Len(First(prompt, off)) = off
  BY <1>1, <1>2, FirstType
<1>5. ~(off + (m - off) <= Cells[c])
  BY <1>3, <1>4 DEF HasRoom, Piece
<1> HIDE DEF m
<1>6. Len(prompt) > Cells["target"]
  BY <1>1, <1>2, <1>5
<1> QED
  BY <1>1, <1>6, EmptySeq DEF TextTooLong

LEMMA FailuresStep ==
    ASSUME Roomy, IInv, Counts, Failures, [Next]_vars
    PROVE  Failures'
<1>1. /\ SpecTypes /\ NDraft \in Nat /\ NCtx \in Nat /\ ~DecodeMayFail
      /\ Cells["target"] \in Nat /\ Cells["draft"] \in Nat /\ Batch["target"] \in Nat
      /\ Cells["target"] <= Cells["draft"] /\ Cells["target"] = NCtx
      /\ NCtx <= Cells["draft"] /\ NDraft + 1 <= Batch["target"]
  BY Sizes DEF IInv, Roomy, Contexts
<1>2. ASSUME NEW p \in Prompt, NEW n \in NPredict, Begin(p, n) PROVE Failures'
  BY <1>2 DEF Begin, Failures
<1> DEFINE Fine == pc' # "trapped" /\ (pc' # "idle" => outcome' = outcome) /\ outcome' # "error"
<1>3. ASSUME Fine, pc # "idle" PROVE Failures'
  BY <1>3 DEF Failures
<1>4. CASE PrefillTarget
  <2>1. /\ pc = "prefill" /\ outcome # "error" /\ Prefilling
        /\ UNCHANGED <<prompt, produced>>
    BY <1>4 DEF PrefillTarget, Prefill, IInv, Failures, callVars, outVars
  <2>2. Fine \/ (DecodeFails("target", Piece("target")) /\ pc' = "idle")
    BY <1>4, <2>1 DEF PrefillTarget, Prefill, Return, Go, DecodeFails
  <2>3. ASSUME DecodeFails("target", Piece("target")), pc' = "idle" PROVE Failures'
    <3>1. ~HasRoom("target", Piece("target"))
      BY <1>1, <2>3 DEF DecodeFails
    <3>2. TextTooLong
      BY <1>1, <2>1, <3>1, PieceTooLong DEF Prefilling, Contexts
    <3> QED
      BY <2>1, <2>3, <3>2 DEF Failures, TextTooLong
  <2> QED
    BY <1>3, <2>1, <2>2, <2>3
<1>5. CASE PrefillDraft
  <2>1. /\ pc = "prefilldraft" /\ outcome # "error" /\ PrefillingDraft
        /\ UNCHANGED <<prompt, produced>>
    BY <1>5 DEF PrefillDraft, Prefill, IInv, Failures, callVars, outVars
  <2>2. Fine \/ (DecodeFails("draft", Piece("draft")) /\ pc' = "idle")
    BY <1>5, <2>1 DEF PrefillDraft, Prefill, Return, Go, DecodeFails
  <2>3. ASSUME DecodeFails("draft", Piece("draft")), pc' = "idle" PROVE Failures'
    <3>1. ~HasRoom("draft", Piece("draft"))
      BY <1>1, <2>3 DEF DecodeFails
    <3>2. TextTooLong
      BY <1>1, <2>1, <3>1, PieceTooLong DEF PrefillingDraft, Contexts
    <3> QED
      BY <2>1, <2>3, <3>2 DEF Failures, TextTooLong
  <2> QED
    BY <1>3, <2>1, <2>2, <2>3
<1>6. CASE FirstSample
  <2>1. pc = "first" /\ outcome # "error"
    BY <1>6 DEF FirstSample, Failures
  <2>2. Fine
    BY <1>6, <2>1 DEF FirstSample, Emit, Return, Go
  <2> QED
    BY <1>3, <2>1, <2>2
<1>7. CASE Round
  <2>1. pc = "round" /\ outcome # "error" /\ Between /\ UNCHANGED <<prompt, produced>>
    BY <1>7 DEF Round, IInv, Failures, callVars, outVars
  <2>2. Fine \/ (Len(CaughtUp) >= Cells["draft"] /\ pc' = "idle")
    BY <1>1, <1>7, <2>1 DEF Round, Return, Go
  <2>3. ASSUME Len(CaughtUp) >= Cells["draft"], pc' = "idle" PROVE Failures'
    <3>1. tpos >= Cells["draft"] /\ tpos \in Nat /\ OneBehind
      BY <1>1, <2>1, <2>3, CaughtUpIsTarget DEF Between, OneBehind, SpecTypes
    <3>2. TextTooLong
      BY <1>1, <3>1, BehindLen DEF TextTooLong
    <3> QED
      BY <2>1, <2>3, <3>2 DEF Failures, TextTooLong
  <2> QED
    BY <1>3, <2>1, <2>2, <2>3
<1>8. CASE Draft
  <2>1. /\ pc = "draft" /\ outcome # "error" /\ Proposing /\ DraftsFit /\ Len(drafts) < k
    BY <1>8 DEF Draft, IInv, Failures, Counts
  <2>2. ASSUME NEW d \in Token, DecodeFails("draft", <<d>>) PROVE FALSE
    <3>1. ~HasRoom("draft", <<d>>) /\ Len(<<d>>) = 1
      BY <1>1, <2>2 DEF DecodeFails
    <3>2. Len(kv["draft"]) = tpos + 1 + Len(drafts)
      <4>1. Text \in Seq(Token) /\ drafts \in Seq(Token)
        BY <1>1, ConcatProperties DEF SpecTypes, Text
      <4>2. Len(Text \o drafts) = Len(Text) + Len(drafts)
        BY <4>1, ConcatProperties
      <4> QED
        BY <1>1, <2>1, <4>2, LenText, BehindLen DEF Proposing
    <3>3. Len(drafts) \in Nat /\ k \in Nat /\ tpos \in Nat
      BY <1>1, LenProperties DEF SpecTypes
    <3>4. k <= NCtx - tpos - 1
      BY <2>1, <3>3 DEF DraftsFit
    <3> QED
      BY <1>1, <2>1, <3>1, <3>2, <3>3, <3>4 DEF HasRoom
  <2>3. Fine
    BY <1>8, <2>1, <2>2, Zenon DEF Draft, Go
  <2> QED
    BY <1>3, <2>1, <2>3
<1>9. CASE Verify
  <2>1. /\ pc = "verify" /\ outcome # "error" /\ Proposing /\ DraftsFit
        /\ UNCHANGED <<prompt, produced>>
    BY <1>9 DEF Verify, IInv, Failures, Counts, callVars, outVars
  <2>2. /\ Len(Verification) = Len(drafts) + 1 /\ Len(drafts) \in Nat /\ k \in Nat
        /\ tpos \in Nat
    BY <1>1, <2>1, ThenTokens, LenProperties, OneToken, ConcatProperties
    DEF SpecTypes, Verification, Proposing, OneBehind
  <2>3. Len(Verification) <= Batch["target"] /\ tpos = Len(kv["target"])
    BY <1>1, <2>1, <2>2 DEF DraftsFit, Proposing, OneBehind
  <2>4. Fine \/ (DecodeFails("target", Verification) /\ pc' = "idle")
    <3>1. ~(Len(Verification) > Batch["target"]) /\ ~(tpos # Len(kv["target"]))
      BY <1>1, <2>2, <2>3
    <3>2. \/ Decodes("target", Verification) /\ Go("walk")
          \/ DecodeFails("target", Verification)
      BY <1>9, <3>1, Zenon DEF Verify
    <3> QED
      BY <2>1, <3>2, Zenon DEF Go, Return, DecodeFails
  <2>5. ASSUME DecodeFails("target", Verification), pc' = "idle" PROVE Failures'
    <3>1. ~(tpos + (Len(drafts) + 1) <= Cells["target"])
      BY <1>1, <2>2, <2>3, <2>5 DEF DecodeFails, HasRoom
    <3>2. k = 0
      BY <1>1, <2>1, <2>2, <3>1 DEF DraftsFit
    <3>3. tpos + 1 > Cells["target"]
      BY <1>1, <2>1, <2>2, <3>1, <3>2 DEF DraftsFit
    <3>4. TextTooLong
      BY <1>1, <2>1, <3>3, BehindLen DEF TextTooLong, Proposing
    <3> QED
      BY <2>1, <2>5, <3>4 DEF Failures, TextTooLong
  <2> QED
    BY <1>3, <2>1, <2>4, <2>5
<1>10. ASSUME NEW t \in Token \cup {EOG}, Walk(t) PROVE Failures'
  <2>1. pc = "walk" /\ outcome # "error"
    BY <1>10 DEF Walk, Failures
  <2>2. Fine
    BY <1>10, <2>1 DEF Walk, Emit, Return, Go
  <2> QED
    BY <1>3, <2>1, <2>2
<1>11. CASE Interrupt
  BY <1>11 DEF Interrupt, Failures, TextTooLong, callVars, outVars
<1>12. CASE UNCHANGED vars
  BY <1>12 DEF vars, Failures, TextTooLong, callVars, outVars
<1> QED
  BY <1>2, <1>4, <1>5, <1>6, <1>7, <1>8, <1>9, <1>10, <1>11, <1>12 DEF Next, Step

(* With a draft as roomy as the target, speculation never fails a call     *)
(* that would succeed without it.                                          *)
THEOREM DraftNeverFailsACall ==
    ASSUME Roomy
    PROVE  Spec => []FailsOnlyWhenFull
<1>1. Init => Failures
  BY DEF Init, Failures
<1>2. IInv /\ Counts /\ Failures /\ [Next]_vars => Failures'
  BY FailuresStep
<1>3. Failures => FailsOnlyWhenFull
  BY DEF Failures, FailsOnlyWhenFull, TextTooLong
<1> QED
  BY <1>1, <1>2, <1>3, TextsOfCaches, DraftsCounted, PTL DEF Spec
=============================================================================
