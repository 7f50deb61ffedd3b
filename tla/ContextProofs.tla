---------------------------- MODULE ContextProofs ----------------------------
(***************************************************************************)
(* What is proved of Slots and of Context, which composes them, for every  *)
(* value of their constants.                                               *)
(*                                                                         *)
(* Slots: its types and the batch; then the life of a task, from the queue *)
(* to its ending; then the cells the tasks hold and share, and the room    *)
(* admission leaves them.                                                  *)
(*                                                                         *)
(* Context: the prompt history mirrors the cache, generate samples after   *)
(* its own text, and an interrupt is heard in time.  What lies on sequence *)
(* 0 is followed as a set of places with their tokens.  A decode appends   *)
(* to it where it ends, and it ends where the decoded text does, for a     *)
(* text has no gaps.  The history is only valid between two calls and      *)
(* while no slot has a task, so that all the slots do to sequence 0 they   *)
(* do while it is not.                                                     *)
(***************************************************************************)
EXTENDS Context, FiniteSetTheorems, SequenceTheorems, TLAPS

(* Every set of naturals that is not empty has a least element: the loops   *)
(* that pick the first slot, or the longest prefix, find one.               *)
LEMMA LeastElement ==
    ASSUME NEW W, W \subseteq Nat, W # {}
    PROVE  \E x \in W : \A y \in W : x <= y
<1>1. PICK x \in W : \A y \in W : ~ (<<y, x>> \in OpToRel(<, Nat))
  BY NatLessThanWellFounded, WFMin, Zenon
<1>2. \A y \in W : ~(y < x)
  BY <1>1 DEF OpToRel
<1> QED
  BY <1>2

LEMMA GreatestElement ==
    ASSUME NEW n \in Nat, NEW W, W \subseteq 0 .. n, W # {}
    PROVE  \E x \in W : \A y \in W : y <= x
<1> DEFINE T == {n - y : y \in W}
<1>1. T \subseteq Nat /\ T # {}
  <2>1. PICK e \in W : TRUE
    OBVIOUS
  <2>2. n - e \in T
    BY <2>1
  <2>3. \A y \in W : n - y \in Nat
    OBVIOUS
  <2> QED
    BY <2>2, <2>3
<1>2. PICK x \in T : \A y \in T : x <= y
  BY <1>1, LeastElement
<1>3. PICK z \in W : x = n - z
  OBVIOUS
<1>4. \A y \in W : n - z <= n - y
  BY <1>2, <1>3
<1> QED
  BY <1>4

LEMMA SlotIdsFinite == IsFiniteSet(SlotIds) /\ SlotIds \subseteq Nat
BY FS_Interval, SizesAssumption DEF SlotIds, SeqIds

LEMMA FirstFreeType ==
    ASSUME FreeSlots # {}
    PROVE  FirstFree \in FreeSlots /\ FirstFree \in SlotIds
<1>1. FreeSlots \subseteq Nat
  BY SlotIdsFinite DEF FreeSlots
<1>2. \E s \in FreeSlots : \A t \in FreeSlots : s <= t
  BY <1>1, LeastElement
<1> QED
  BY <1>2 DEF FirstFree, FreeSlots

LEMMA ReusedType ==
    ASSUME NEW prompt \in Seq(Token) \ {<<>>}, system \in Seq(Token)
    PROVE  /\ Reused(prompt) \in Reusable(prompt)
           /\ Reused(prompt) \in Nat
           /\ Reused(prompt) < Len(prompt)
           /\ Reused(prompt) <= Len(system)
<1>1. Len(system) \in Nat /\ Len(prompt) \in Nat /\ Len(prompt) > 0
  OBVIOUS
<1>2. Reusable(prompt) \subseteq 0 .. Len(system)
  BY DEF Reusable
<1>3. 0 \in Reusable(prompt)
  BY <1>1 DEF Reusable
<1>4. \E k \in Reusable(prompt) : \A j \in Reusable(prompt) : j <= k
  BY <1>1, <1>2, <1>3, GreatestElement
<1>5. Reused(prompt) \in Reusable(prompt)
  BY <1>4 DEF Reused
<1> QED
  BY <1>1, <1>5 DEF Reusable

-----------------------------------------------------------------------------
(* What the operations on the cache return is a cache again. *)

LEMMA SeqRmType ==
    ASSUME NEW m, m \subseteq Cell, NEW s, NEW from
    PROVE  SeqRm(m, s, from) \subseteq Cell
BY DEF SeqRm, CellsOf, Cell

LEMMA SeqCpType ==
    ASSUME NEW m, m \subseteq Cell, NEW src, NEW dst \in SeqIds
    PROVE  SeqCp(m, src, dst) \subseteq Cell
BY DEF SeqCp, CellsOf, Cell

LEMMA NewCellsType ==
    ASSUME NEW s \in SeqIds, NEW first \in Nat, NEW toks \in Seq(Token)
    PROVE  NewCells(s, first, toks) \subseteq Cell
<1> SUFFICES ASSUME NEW i \in DOMAIN toks
             PROVE  [pos |-> first + i - 1, tok |-> toks[i], seqs |-> {s}] \in Cell
  BY DEF NewCells
<1>1. i \in 1 .. Len(toks) /\ toks[i] \in Token
  BY LenProperties, ElementOfSeq
<1>2. first + i - 1 \in Nat
  BY <1>1
<1> QED
  BY <1>1, <1>2 DEF Cell

LEMMA ReleasedType ==
    ASSUME mem \subseteq Cell, NEW ss
    PROVE  Released(ss) \subseteq Cell
BY DEF Released, Cell

LEMMA TellType ==
    ASSUME NEW f \in [Ids -> Seq(Event)], NEW id, NEW kind \in {"token"} \cup Endings,
           NEW tok \in Token \cup {NoToken}
    PROVE  Tell(f, id, kind, tok) \in [Ids -> Seq(Event)]
<1>1. [kind |-> kind, tok |-> tok] \in Event
  BY DEF Event
<1>2. \A i \in Ids : Append(f[i], [kind |-> kind, tok |-> tok]) \in Seq(Event)
  BY <1>1
<1> QED
  BY <1>2 DEF Tell

LEMMA ReturnType ==
    ASSUME NEW evs \in [Ids -> Seq(Event)],
           heard \in [Ids -> Seq(Event)], Return(evs)
    PROVE  /\ heard' \in [Ids -> Seq(Event)]
           /\ events' \in [Ids -> Seq(Event)]
           /\ phase' = "host" /\ at' = 0 /\ rows' = 0
<1>1. \A i \in Ids : heard[i] \o evs[i] \in Seq(Event)
  OBVIOUS
<1> QED
  BY <1>1 DEF Return, Quiet

-----------------------------------------------------------------------------
(* The inductive invariant behind TypeOK and the size of the batch.         *)

\* The slots that have, or will have, a row with logits: a token to decode, a
\* chunk of prompt in the batch, or logits to sample.
RowHolders ==
    {s \in SlotIds : slots[s].pending # NoToken \/ slots[s].take > 0 \/ slots[s].logits}

\* Only a slot past its prompt has a token to decode or logits to sample; only a slot still in its
\* prompt has a chunk in the batch, and the chunk is what is left of it at most.
RowKinds ==
    \A s \in SlotIds :
        /\ slots[s].pending # NoToken \/ slots[s].logits => slots[s].generating
        /\ slots[s].take > 0 =>
               /\ ~Idle(s) /\ ~slots[s].generating
               /\ slots[s].n_past + slots[s].take <= Len(slots[s].prompt)

\* No more slots hold rows than a batch has; while it is assembled, no more
\* than the rows counted.
RowCount ==
    /\ Cardinality(RowHolders) <= NBatch
    /\ phase \in {"chunks", "decode"} => Cardinality(RowHolders) <= rows /\ rows <= NBatch

IInv == TypeOK /\ RowKinds /\ RowCount

LEMMA RowHoldersFinite ==
    /\ IsFiniteSet(RowHolders) /\ Cardinality(RowHolders) \in Nat
    /\ IsFiniteSet(RowHolders') /\ Cardinality(RowHolders') \in Nat
<1>1. IsFiniteSet(RowHolders)
  BY SlotIdsFinite, FS_Subset DEF RowHolders
<1>2. IsFiniteSet(RowHolders')
  BY SlotIdsFinite, FS_Subset DEF RowHolders
<1> QED
  BY <1>1, <1>2, FS_CardinalityType

(* A step that gives no slot a row keeps the count. *)
LEMMA FewerRowHolders ==
    ASSUME RowHolders' \subseteq RowHolders
    PROVE  Cardinality(RowHolders') <= Cardinality(RowHolders)
BY RowHoldersFinite, FS_Subset

LEMMA InitIInv == Init => IInv
<1> SUFFICES ASSUME Init PROVE IInv
  OBVIOUS
<1>1. TypeOK
  BY SizesAssumption DEF Init, TypeOK, IdleSlot, Slot, Quiet, SlotIds, SeqIds
<1>2. RowKinds
  BY DEF Init, RowKinds, IdleSlot
<1>3. RowHolders = {}
  BY DEF Init, RowHolders, IdleSlot
<1>4. RowCount
  BY <1>3, FS_EmptySet, SlotsAssumption DEF Init, RowCount
<1> QED
  BY <1>1, <1>2, <1>4 DEF IInv

-----------------------------------------------------------------------------
(* The host's calls. *)

LEMMA BudgetType ==
    ASSUME NEW prompt \in Seq(Token), NEW n \in Int
    PROVE  BudgetOf(prompt, n) \in Nat
<1>1. NCtxSeq \in Nat
  BY SizesAssumption DEF NCtxSeq
<1> QED
  BY <1>1 DEF BudgetOf

LEMMA QuietType == Quiet \in [Ids -> Seq(Event)]
<1>1. <<>> \in Seq(Event)
  BY EmptySeq
<1> QED
  BY <1>1 DEF Quiet

LEMMA IdleSlotType == IdleSlot \in Slot
BY DEF IdleSlot, Slot

LEMMA PostIInv ==
    ASSUME IInv, NEW prompt \in Prompt, NEW n \in NPredict, Post(prompt, n)
    PROVE  IInv'
<1>1. [id |-> next_id, prompt |-> prompt, budget |-> BudgetOf(prompt, n)] \in Task
  BY BudgetType, SlotsAssumption DEF IInv, TypeOK, Task
<1>2. TypeOK'
  BY <1>1 DEF IInv, TypeOK, Post, updateVars
<1>3. RowKinds' /\ RowCount'
  BY DEF IInv, RowKinds, RowCount, RowHolders, Idle, Post, updateVars
<1> QED
  BY <1>2, <1>3 DEF IInv

(* A cancelled task leaves the queue and the others keep their order. *)
LEMMA OneTaskLess ==
    ASSUME NEW q \in Seq(Task), NEW i \in 1 .. Len(q)
    PROVE  LET r == SubSeq(q, 1, i - 1) \o SubSeq(q, i + 1, Len(q))
           IN  /\ DOMAIN r = 1 .. Len(q) - 1
               /\ \A k \in 1 .. Len(q) - 1 : r[k] = IF k < i THEN q[k] ELSE q[k + 1]
<1> DEFINE front == SubSeq(q, 1, i - 1)
           back  == SubSeq(q, i + 1, Len(q))
<1>1. /\ Len(q) \in Nat /\ i \in Nat /\ i >= 1 /\ i <= Len(q)
      /\ \A k \in 1 .. Len(q) : q[k] \in Task
  BY ElementOfSeq, LenProperties
<1>2. /\ front \in Seq(Task) /\ Len(front) = i - 1
      /\ \A k \in 1 .. i - 1 : front[k] = q[k]
  BY <1>1, SubSeqProperties
<1>3. /\ back \in Seq(Task) /\ Len(back) = Len(q) - i
      /\ \A k \in 1 .. Len(q) - i : back[k] = q[i + k]
  BY <1>1, SubSeqProperties
<1>4. /\ front \o back \in Seq(Task) /\ Len(front \o back) = Len(q) - 1
      /\ \A k \in 1 .. Len(q) - 1 : (front \o back)[k] =
             IF k <= i - 1 THEN front[k] ELSE back[k - (i - 1)]
  <2>1. /\ front \o back \in Seq(Task) /\ Len(front \o back) = Len(front) + Len(back)
        /\ \A k \in 1 .. Len(front) + Len(back) : (front \o back)[k] =
               IF k <= Len(front) THEN front[k] ELSE back[k - Len(front)]
    BY <1>2, <1>3, ConcatProperties
  <2> HIDE DEF front, back
  <2>2. Len(front) + Len(back) = Len(q) - 1
    BY <1>1, <1>2, <1>3
  <2>3. Len(front) = i - 1
    BY <1>2
  <2> QED
    BY <2>1, <2>2, <2>3
<1>5. \A k \in 1 .. Len(q) - 1 : (front \o back)[k] = IF k < i THEN q[k] ELSE q[k + 1]
  <2> SUFFICES ASSUME NEW k \in 1 .. Len(q) - 1
               PROVE  (front \o back)[k] = IF k < i THEN q[k] ELSE q[k + 1]
    OBVIOUS
  <2>1. CASE k < i
    <3>1. k \in 1 .. i - 1 /\ k <= i - 1
      BY <1>1, <2>1
    <3>2. (front \o back)[k] = front[k]
      BY <1>4, <3>1
    <3>3. front[k] = q[k]
      BY <1>2, <3>1
    <3> QED
      BY <2>1, <3>2, <3>3
  <2>2. CASE ~(k < i)
    <3>1. k - (i - 1) \in 1 .. Len(q) - i /\ i + (k - (i - 1)) = k + 1 /\ ~(k <= i - 1)
      BY <1>1, <2>2
    <3>2. back[k - (i - 1)] = q[k + 1]
      BY <1>3, <3>1
    <3>3. (front \o back)[k] = back[k - (i - 1)]
      BY <1>4, <3>1
    <3> QED
      BY <2>2, <3>2, <3>3
  <2> QED
    BY <2>1, <2>2
<1>6. DOMAIN (front \o back) = 1 .. Len(q) - 1
  BY <1>4, LenProperties
<1> QED
  BY <1>5, <1>6

LEMMA CancelQueuedIInv ==
    ASSUME IInv, NEW i \in DOMAIN queue, CancelQueued(i)
    PROVE  IInv'
<1>1. heard' \in [Ids -> Seq(Event)]
  BY TellType DEF IInv, TypeOK, CancelQueued, Endings
<1>2. queue' \in Seq(Task)
  <2>1. i \in 1 .. Len(queue)
    BY DEF IInv, TypeOK
  <2>2. SubSeq(queue, 1, i - 1) \in Seq(Task) /\ SubSeq(queue, i + 1, Len(queue)) \in Seq(Task)
    BY <2>1 DEF IInv, TypeOK
  <2> QED
    BY <2>2 DEF CancelQueued
<1>3. TypeOK'
  BY <1>1, <1>2 DEF IInv, TypeOK, CancelQueued, updateVars
<1>4. RowKinds' /\ RowCount'
  BY DEF IInv, RowKinds, RowCount, RowHolders, Idle, CancelQueued, updateVars
<1> QED
  BY <1>3, <1>4 DEF IInv

LEMMA CancelBusyIInv ==
    ASSUME IInv, NEW s \in SlotIds, CancelBusy(s)
    PROVE  IInv'
<1>1. heard' \in [Ids -> Seq(Event)]
  BY TellType DEF IInv, TypeOK, CancelBusy, Endings
<1>2. mem' \subseteq Cell
  BY SeqRmType DEF IInv, TypeOK, CancelBusy
<1>3. slots' = [slots EXCEPT ![s] = IdleSlot]
  BY DEF CancelBusy
<1>4. TypeOK'
  BY <1>1, <1>2, <1>3, IdleSlotType DEF IInv, TypeOK, CancelBusy, updateVars
<1>5. RowKinds'
  BY <1>3 DEF IInv, TypeOK, RowKinds, Idle, IdleSlot
<1>6. RowHolders' \subseteq RowHolders
  BY <1>3 DEF IInv, TypeOK, RowHolders, IdleSlot
<1>7. RowCount'
  BY <1>6, FewerRowHolders, RowHoldersFinite, SlotsAssumption
     DEF IInv, RowCount, CancelBusy, updateVars
<1> QED
  BY <1>4, <1>5, <1>7 DEF IInv

LEMMA WithoutSystemType ==
    ASSUME TypeOK
    PROVE  WithoutSystem \subseteq Cell
BY SeqRmType DEF TypeOK, WithoutSystem

LEMMA SetSystemIInv ==
    ASSUME IInv, NEW toks \in SystemPrompt, SetSystem(toks)
    PROVE  IInv'
<1>1. NSeqMax - 1 \in SeqIds
  BY SizesAssumption DEF SeqIds
<1>2. toks \in Seq(Token)
  BY SlotsAssumption
<1>3. NewCells(NSeqMax - 1, 0, toks) \subseteq Cell
  BY <1>1, <1>2, NewCellsType
<1>4. TypeOK'
  <2>1. /\ mem' = WithoutSystem \cup NewCells(NSeqMax - 1, 0, toks)
        /\ system' = toks /\ system_seq' = NSeqMax - 1
        /\ created' = TRUE /\ hist_valid' = FALSE
        /\ UNCHANGED <<queue, next_id, slots, phase, at, rows, events, heard>>
    BY DEF SetSystem, updateVars
  <2>2. mem' \subseteq Cell
    BY <1>3, <2>1, WithoutSystemType DEF IInv
  <2> QED
    BY <1>1, <1>2, <2>1, <2>2 DEF IInv, TypeOK
<1>5. RowKinds' /\ RowCount'
  BY DEF IInv, RowKinds, RowCount, RowHolders, Idle, SetSystem, updateVars
<1> QED
  BY <1>4, <1>5 DEF IInv

LEMMA ClearSystemIInv ==
    ASSUME IInv, ClearSystem
    PROVE  IInv'
<1>1. WithoutSystem \subseteq Cell
  BY WithoutSystemType DEF IInv, TypeOK
<1>2. SeqRm(WithoutSystem, NSeqMax - 1, 0) \subseteq Cell
  BY <1>1, SeqRmType
<1>3. mem' \subseteq Cell
  BY <1>1, <1>2 DEF ClearSystem
<1>4. TypeOK'
  BY <1>3, EmptySeq DEF IInv, TypeOK, ClearSystem, updateVars
<1>5. RowKinds' /\ RowCount'
  BY DEF IInv, RowKinds, RowCount, RowHolders, Idle, ClearSystem, updateVars
<1> QED
  BY <1>4, <1>5 DEF IInv

LEMMA ResetIInv ==
    ASSUME IInv, Reset
    PROVE  IInv'
<1>1. TypeOK'
  <2>1. <<>> \in Seq(Task) /\ <<>> \in Seq(Token)
    BY EmptySeq
  <2>2. slots' \in [SlotIds -> Slot] /\ heard' \in [Ids -> Seq(Event)]
    BY IdleSlotType, QuietType DEF Reset
  <2>3. /\ mem' = {} /\ queue' = <<>> /\ next_id' = 1 /\ system' = <<>>
        /\ system_seq' = -1 /\ created' = FALSE /\ hist_valid' = TRUE
        /\ UNCHANGED <<phase, at, rows, events>>
    BY DEF Reset, updateVars
  <2>4. queue' \in Seq(Task) /\ system' \in Seq(Token)
    BY <2>1, <2>3
  <2>5. mem' \subseteq Cell
    BY <2>3
  <2>6. next_id' \in Nat \ {0} /\ system_seq' \in {-1} \cup SeqIds
    BY <2>3
  <2>7. created' \in BOOLEAN /\ hist_valid' \in BOOLEAN
    BY <2>3
  <2> QED
    BY <2>2, <2>3, <2>4, <2>5, <2>6, <2>7 DEF IInv, TypeOK
<1>2. RowKinds'
  BY DEF RowKinds, Reset, IdleSlot
<1>3. RowHolders' = {}
  BY DEF RowHolders, Reset, IdleSlot
<1>4. RowCount'
  BY <1>3, FS_EmptySet, SlotsAssumption DEF RowCount, Reset, IInv, updateVars
<1> QED
  BY <1>1, <1>2, <1>4 DEF IInv

LEMMA LoraSetIInv ==
    ASSUME IInv, LoraSet
    PROVE  IInv'
<1>1. TypeOK'
  BY DEF IInv, TypeOK, LoraSet, updateVars
<1>2. RowKinds' /\ RowCount'
  BY DEF IInv, RowKinds, RowCount, RowHolders, Idle, LoraSet, updateVars
<1> QED
  BY <1>1, <1>2 DEF IInv

LEMMA UseSequence0IInv ==
    ASSUME IInv, NEW text \in Leftover, UseSequence0(text)
    PROVE  IInv'
<1>1. 0 \in SeqIds
  BY SizesAssumption DEF SeqIds
<1>2. text \in Seq(Token)
  BY SlotsAssumption
<1>3. mem' \subseteq Cell
  BY <1>1, <1>2, NewCellsType, SeqRmType DEF IInv, TypeOK, UseSequence0
<1>4. TypeOK'
  BY <1>3 DEF IInv, TypeOK, UseSequence0, updateVars
<1>5. RowKinds' /\ RowCount'
  BY DEF IInv, RowKinds, RowCount, RowHolders, Idle, UseSequence0, updateVars
<1> QED
  BY <1>4, <1>5 DEF IInv

-----------------------------------------------------------------------------
(* The steps of slots_update. *)

LEMMA UpdateBeginIInv ==
    ASSUME IInv, UpdateBegin
    PROVE  IInv'
<1>1. TypeOK'
  BY QuietType DEF IInv, TypeOK, UpdateBegin
<1>2. RowKinds' /\ RowCount'
  BY DEF IInv, RowKinds, RowCount, RowHolders, Idle, UpdateBegin
<1> QED
  BY <1>1, <1>2 DEF IInv

LEMMA LaunchHeadIInv ==
    ASSUME IInv, LaunchHead
    PROVE  IInv'
<1> DEFINE t    == Head(queue)
           s    == FirstFree
           keep == Reused(t.prompt)
<1>1. /\ t \in Task /\ Tail(queue) \in Seq(Task)
      /\ s \in SlotIds /\ Idle(s)
      /\ phase = "launch"
  BY FirstFreeType DEF IInv, TypeOK, LaunchHead, CanLaunch, FreeSlots
<1>2. keep \in Nat
  BY <1>1, ReusedType DEF IInv, TypeOK, Task
<1>3. slots' = [slots EXCEPT ![s] =
          [@ EXCEPT !.id_task = t.id, !.prompt = t.prompt, !.budget = t.budget,
                    !.generating = FALSE, !.n_cached = keep, !.n_past = keep,
                    !.pending = NoToken, !.logits = FALSE]]
  BY DEF LaunchHead
<1>4. slots'[s] \in Slot
  <2>1. t.id \in Nat /\ t.prompt \in Seq(Token) /\ t.budget \in Nat
    BY <1>1 DEF Task
  <2>2. slots[s] \in Slot
    BY <1>1 DEF IInv, TypeOK
  <2>3. slots'[s] =
            [slots[s] EXCEPT !.id_task = t.id, !.prompt = t.prompt, !.budget = t.budget,
                             !.generating = FALSE, !.n_cached = keep, !.n_past = keep,
                             !.pending = NoToken, !.logits = FALSE]
    BY <1>1, <1>3 DEF IInv, TypeOK
  <2> QED
    BY <1>2, <2>1, <2>2, <2>3 DEF Slot
<1>5. slots' \in [SlotIds -> Slot]
  BY <1>1, <1>3, <1>4 DEF IInv, TypeOK
<1>6. mem' \subseteq Cell
  <2>1. mem' = Adopted(SeqRm(mem, s, 0), s, keep)
    BY DEF LaunchHead
  <2>2. SeqRm(mem, s, 0) \subseteq Cell
    BY SeqRmType DEF IInv, TypeOK
  <2> QED
    BY <1>1, <2>1, <2>2, SeqRmType, SeqCpType DEF Adopted, SlotIds
<1>7. TypeOK'
  BY <1>1, <1>5, <1>6 DEF IInv, TypeOK, LaunchHead, updateVars
<1>8. slots[s].take = 0
  BY <1>1 DEF IInv, TypeOK, RowKinds, Slot
<1>9. /\ slots'[s].take = 0 /\ slots'[s].pending = NoToken /\ ~slots'[s].logits
      /\ \A r \in SlotIds \ {s} : slots'[r] = slots[r]
  BY <1>1, <1>3, <1>8 DEF IInv, TypeOK, Slot
<1>10. RowKinds'
  BY <1>1, <1>9 DEF IInv, RowKinds, Idle
<1>11. RowHolders' \subseteq RowHolders
  BY <1>1, <1>9 DEF RowHolders
<1>12. RowCount'
  BY <1>1, <1>11, FewerRowHolders, RowHoldersFinite, SlotsAssumption
     DEF IInv, RowCount, LaunchHead, updateVars
<1> QED
  BY <1>7, <1>10, <1>12 DEF IInv

LEMMA LaunchDoneIInv ==
    ASSUME IInv, LaunchDone
    PROVE  IInv'
<1>1. slots' = [s \in SlotIds |-> [slots[s] EXCEPT !.take = 0, !.logits = FALSE]]
  BY DEF LaunchDone
<1>2. \A s \in SlotIds : /\ slots'[s] \in Slot
                         /\ slots'[s].take = 0 /\ ~slots'[s].logits
                         /\ slots'[s].pending = slots[s].pending
                         /\ slots'[s].generating = slots[s].generating
  BY <1>1 DEF IInv, TypeOK, Slot
<1>3. RowHolders' \subseteq RowHolders /\ RowHolders' = Decoding
  BY <1>2 DEF RowHolders, Decoding, IInv, RowKinds
<1>4. rows' = Cardinality(RowHolders') /\ rows' \in Nat
  <2>1. rows' = Cardinality(Decoding)
    BY DEF LaunchDone
  <2> QED
    BY <1>3, <2>1, RowHoldersFinite
<1>5. TypeOK'
  <2>1. slots' \in [SlotIds -> Slot]
    BY <1>1, <1>2
  <2>2. /\ UNCHANGED <<mem, queue, next_id, system, system_seq, created, hist_valid,
                        events, heard>>
        /\ phase' = "chunks" /\ at' = 0
    BY DEF LaunchDone
  <2> QED
    BY <1>4, <2>1, <2>2, SizesAssumption DEF IInv, TypeOK
<1>6. RowKinds'
  BY <1>2 DEF IInv, RowKinds
<1>7. RowCount'
  BY <1>3, <1>4, FewerRowHolders, RowHoldersFinite, SlotsAssumption
     DEF IInv, RowCount
<1> QED
  BY <1>5, <1>6, <1>7 DEF IInv

LEMMA ChunkBounds ==
    ASSUME TypeOK, NEW s \in SlotIds
    PROVE  /\ ChunkOf(s) \in Nat
           /\ ChunkOf(s) > 0 =>
                  /\ ~Idle(s) /\ ~slots[s].generating
                  /\ slots[s].n_past + ChunkOf(s) <= Len(slots[s].prompt)
                  /\ rows + ChunkOf(s) <= NBatch
<1>1. /\ Len(slots[s].prompt) \in Nat /\ slots[s].n_past \in Nat
      /\ rows \in Nat /\ NBatch \in Nat
  BY SlotsAssumption DEF TypeOK, Slot
<1> QED
  BY <1>1 DEF ChunkOf

LEMMA TakeChunkIInv ==
    ASSUME IInv, TakeChunk
    PROVE  IInv'
<1>1. /\ phase = "chunks" /\ phase' = phase /\ at \in SlotIds
      /\ at' = at + 1 /\ at' \in 0 .. NSeqMax
      /\ slots' = [slots EXCEPT ![at].take = ChunkOf(at)]
      /\ rows' = rows + ChunkOf(at)
  BY SizesAssumption DEF IInv, TypeOK, TakeChunk, SlotIds, SeqIds
<1>2. /\ ChunkOf(at) \in Nat
      /\ ChunkOf(at) > 0 =>
             /\ ~Idle(at) /\ ~slots[at].generating
             /\ slots[at].n_past + ChunkOf(at) <= Len(slots[at].prompt)
             /\ rows + ChunkOf(at) <= NBatch
  BY <1>1, ChunkBounds DEF IInv
<1>3. /\ slots' \in [SlotIds -> Slot]
      /\ slots'[at] = [slots[at] EXCEPT !.take = ChunkOf(at)]
      /\ \A r \in SlotIds \ {at} : slots'[r] = slots[r]
  <2>1. slots \in [SlotIds -> Slot] /\ slots[at] \in Slot
    BY <1>1 DEF IInv, TypeOK
  <2>2. [slots[at] EXCEPT !.take = ChunkOf(at)] \in Slot
    BY <1>2, <2>1 DEF Slot
  <2> QED
    BY <1>1, <2>1, <2>2
<1>4. TypeOK'
  BY <1>1, <1>2, <1>3 DEF IInv, TypeOK, TakeChunk
<1>5. RowKinds'
  <2>1. /\ slots'[at].take = ChunkOf(at) /\ slots'[at].n_past = slots[at].n_past
        /\ slots'[at].prompt = slots[at].prompt /\ slots'[at].id_task = slots[at].id_task
        /\ slots'[at].pending = slots[at].pending
    BY <1>1, <1>3 DEF IInv, TypeOK, Slot
  <2>2. /\ slots'[at].logits <=> slots[at].logits
        /\ slots'[at].generating <=> slots[at].generating
    BY <1>1, <1>3 DEF IInv, TypeOK, Slot
  <2> QED
    BY <1>1, <1>2, <1>3, <2>1, <2>2 DEF IInv, RowKinds, Idle
<1>6. RowCount'
  <2>1. rows \in Nat /\ NBatch \in Nat
    BY SlotsAssumption DEF IInv, TypeOK
  <2>2. CASE ChunkOf(at) = 0
    <3>1. RowHolders' \subseteq RowHolders
      BY <1>1, <1>3, <2>2 DEF RowHolders, IInv, TypeOK, Slot
    <3> QED
      BY <1>1, <2>1, <2>2, <3>1, FewerRowHolders, RowHoldersFinite
         DEF IInv, RowCount
  <2>3. CASE ChunkOf(at) > 0
    <3>1. RowHolders' \subseteq RowHolders \cup {at}
      BY <1>1, <1>3 DEF RowHolders, IInv, TypeOK, Slot
    <3>2. /\ IsFiniteSet(RowHolders \cup {at})
          /\ Cardinality(RowHolders \cup {at}) <= Cardinality(RowHolders) + 1
      BY RowHoldersFinite, FS_AddElement
    <3>3. Cardinality(RowHolders') <= Cardinality(RowHolders) + 1
      <4>1. Cardinality(RowHolders') <= Cardinality(RowHolders \cup {at})
        BY <3>1, <3>2, FS_Subset
      <4>2. /\ Cardinality(RowHolders') \in Nat /\ Cardinality(RowHolders) \in Nat
            /\ Cardinality(RowHolders \cup {at}) \in Nat
        BY <3>2, RowHoldersFinite, FS_CardinalityType
      <4> QED
        BY <3>2, <4>1, <4>2
    <3> QED
      BY <1>1, <1>2, <2>1, <2>3, <3>3, RowHoldersFinite
         DEF IInv, RowCount
  <2> QED
    BY <1>2, <2>2, <2>3
<1> QED
  BY <1>4, <1>5, <1>6 DEF IInv

LEMMA BatchReadyIInv ==
    ASSUME IInv, BatchReady
    PROVE  IInv'
BY DEF IInv, TypeOK, RowKinds, RowCount, RowHolders, Idle, BatchReady, stateVars

LEMMA NothingToDecodeIInv ==
    ASSUME IInv, NothingToDecode
    PROVE  IInv'
<1>1. Return(events) /\ UNCHANGED stateVars
  BY DEF NothingToDecode
<1>2. TypeOK'
  <2>1. /\ heard' \in [Ids -> Seq(Event)] /\ events' \in [Ids -> Seq(Event)]
        /\ phase' = "host" /\ at' = 0 /\ rows' = 0
    BY <1>1, ReturnType DEF IInv, TypeOK
  <2> QED
    BY <1>1, <2>1, SizesAssumption DEF IInv, TypeOK, stateVars
<1>3. RowKinds' /\ RowCount'
  BY <1>1 DEF IInv, RowKinds, RowCount, RowHolders, Idle, Return, stateVars
<1> QED
  BY <1>2, <1>3 DEF IInv

(* What a slot puts in the batch are tokens, at positions of its sequence. *)
LEMMA RowsOfType ==
    ASSUME TypeOK, RowKinds, NEW s \in InBatch
    PROVE  s \in SlotIds /\ slots[s].n_past \in Nat /\ RowsOf(s) \in Seq(Token)
<1>1. s \in SlotIds /\ slots[s] \in Slot
  BY DEF InBatch, Decoding, Chunked, TypeOK
<1>2. RowsOf(s) \in Seq(Token)
  <2>1. CASE s \in Decoding
    <3>1. slots[s].pending \in Token
      BY <1>1, <2>1 DEF Decoding, Slot
    <3> QED
      BY <2>1, <3>1 DEF RowsOf
  <2>2. CASE s \notin Decoding
    <3>1. slots[s].take > 0
      BY <2>2 DEF InBatch, Chunked
    <3>2. /\ slots[s].prompt \in Seq(Token)
          /\ slots[s].n_past \in Nat /\ slots[s].take \in Nat
          /\ slots[s].n_past + slots[s].take <= Len(slots[s].prompt)
      BY <1>1, <3>1 DEF RowKinds, Slot
    <3>3. \A i \in slots[s].n_past + 1 .. slots[s].n_past + slots[s].take :
              slots[s].prompt[i] \in Token
      BY <3>2, ElementOfSeq
    <3> QED
      BY <2>2, <3>2, <3>3, SubSeqProperties DEF RowsOf
  <2> QED
    BY <2>1, <2>2
<1> QED
  BY <1>1, <1>2 DEF Slot

LEMMA BatchCellsType ==
    ASSUME TypeOK, RowKinds
    PROVE  BatchCells \subseteq Cell
<1> SUFFICES ASSUME NEW s \in InBatch
             PROVE  NewCells(s, slots[s].n_past, RowsOf(s)) \subseteq Cell
  BY DEF BatchCells
<1> QED
  BY RowsOfType, NewCellsType DEF SlotIds

LEMMA DecodeOkIInv ==
    ASSUME IInv, DecodeOk
    PROVE  IInv'
<1> DEFINE Decoded(s) ==
      IF s \in Decoding
      THEN [slots[s] EXCEPT !.n_past = @ + 1, !.pending = NoToken, !.logits = TRUE]
      ELSE IF s \in Chunked
      THEN [slots[s] EXCEPT !.n_past = @ + slots[s].take, !.take = 0,
                            !.logits = LastChunk(s), !.generating = LastChunk(s)]
      ELSE slots[s]
<1>1. slots' = [s \in SlotIds |-> Decoded(s)]
  BY DEF DecodeOk
<1>2. /\ mem' = mem \cup BatchCells /\ phase' = "sample" /\ at' = 0
      /\ UNCHANGED <<queue, next_id, system, system_seq, created, hist_valid,
                      rows, events, heard>>
  BY DEF DecodeOk
<1>3. ASSUME NEW s \in SlotIds
      PROVE  /\ slots'[s] \in Slot
             /\ slots'[s].pending = NoToken
             /\ slots'[s].take = 0
             /\ slots'[s].logits => s \in RowHolders /\ slots'[s].generating
  <2>1. slots[s] \in Slot
    BY DEF IInv, TypeOK
  <2>2. slots'[s] = Decoded(s)
    BY <1>1
  <2>3. CASE s \in Decoding
    <3>1. slots[s].take = 0
      BY <2>1, <2>3 DEF Decoding, IInv, RowKinds, Slot
    <3>2. slots'[s] = [slots[s] EXCEPT !.n_past = @ + 1, !.pending = NoToken, !.logits = TRUE]
      BY <2>2, <2>3
    <3>3. s \in RowHolders /\ slots[s].generating
      BY <2>3 DEF Decoding, RowHolders
    <3>4. slots'[s] \in Slot
      <4>1. slots[s].n_past + 1 \in Nat
        BY <2>1 DEF Slot
      <4>2. [slots[s] EXCEPT !.n_past = @ + 1, !.pending = NoToken, !.logits = TRUE] \in Slot
        BY <2>1, <4>1, Zenon DEF Slot
      <4> QED
        BY <3>2, <4>2
    <3>5. slots'[s].pending = NoToken /\ slots'[s].take = slots[s].take
      BY <2>1, <3>2 DEF Slot
    <3>6. slots'[s].generating = slots[s].generating
      BY <2>1, <3>2 DEF Slot
    <3> QED
      BY <3>1, <3>3, <3>4, <3>5, <3>6, Zenon
  <2>4. CASE s \in Chunked /\ s \notin Decoding
    <3>1. slots'[s] = [slots[s] EXCEPT !.n_past = @ + slots[s].take, !.take = 0,
                            !.logits = LastChunk(s), !.generating = LastChunk(s)]
      BY <2>2, <2>4
    <3>2. LastChunk(s) \in BOOLEAN
      BY DEF LastChunk
    <3>3. slots[s].pending = NoToken
      BY <2>4 DEF Chunked, IInv, RowKinds
    <3>4. s \in RowHolders
      BY <2>4 DEF Chunked, RowHolders
    <3>5. slots'[s] \in Slot
      <4>1. slots[s].n_past + slots[s].take \in Nat /\ 0 \in Nat
        BY <2>1 DEF Slot
      <4>2. [slots[s] EXCEPT !.n_past = @ + slots[s].take, !.take = 0,
                             !.logits = LastChunk(s), !.generating = LastChunk(s)] \in Slot
        BY <2>1, <3>2, <4>1, Zenon DEF Slot
      <4> QED
        BY <3>1, <4>2
    <3>6. slots'[s].pending = slots[s].pending /\ slots'[s].take = 0
      BY <2>1, <3>1 DEF Slot
    <3>7. slots'[s].logits = LastChunk(s) /\ slots'[s].generating = LastChunk(s)
      BY <2>1, <3>1 DEF Slot
    <3> QED
      BY <3>3, <3>4, <3>5, <3>6, <3>7, Zenon
  <2>5. CASE s \notin Chunked /\ s \notin Decoding
    <3>1. slots'[s] = slots[s]
      BY <2>2, <2>5
    <3>2. slots[s].pending = NoToken
      BY <2>5 DEF Decoding, IInv, RowKinds
    <3>3. slots[s].take = 0
      BY <2>1, <2>5 DEF Chunked, Slot
    <3>4. slots[s].logits => s \in RowHolders /\ slots[s].generating
      BY DEF IInv, RowKinds, RowHolders
    <3> QED
      BY <2>1, <3>1, <3>2, <3>3, <3>4, Zenon
  <2> QED
    BY <2>3, <2>4, <2>5
<1>4. TypeOK'
  <2>1. mem' \subseteq Cell
    BY <1>2, BatchCellsType DEF IInv, TypeOK
  <2>2. slots' \in [SlotIds -> Slot]
    BY <1>1, <1>3
  <2> QED
    BY <1>2, <2>1, <2>2, SizesAssumption DEF IInv, TypeOK
<1>5. RowKinds'
  BY <1>3 DEF RowKinds
<1>6. RowHolders' \subseteq RowHolders
  BY <1>3 DEF RowHolders
<1>7. RowCount'
  BY <1>2, <1>6, FewerRowHolders, RowHoldersFinite, SlotsAssumption DEF IInv, RowCount
<1> QED
  BY <1>4, <1>5, <1>7 DEF IInv

LEMMA DecodeFailsIInv ==
    ASSUME IInv, DecodeFails
    PROVE  IInv'
<1> DEFINE evs == [i \in Ids |-> IF i \in Failed THEN Tell(events, i, "error", NoToken)[i]
                                ELSE events[i]]
<1>1. /\ slots' = [s \in SlotIds |-> IF s \in InBatch THEN IdleSlot ELSE slots[s]]
      /\ mem' = Released(InBatch)
      /\ Return(evs)
      /\ UNCHANGED <<queue, next_id, system, system_seq, created, hist_valid>>
  BY DEF DecodeFails
<1>2. evs \in [Ids -> Seq(Event)]
  <2>1. \A i \in Ids : Tell(events, i, "error", NoToken) \in [Ids -> Seq(Event)]
    BY TellType DEF IInv, TypeOK, Endings
  <2> QED
    BY <2>1 DEF IInv, TypeOK
<1>3. /\ heard' \in [Ids -> Seq(Event)] /\ events' \in [Ids -> Seq(Event)]
      /\ phase' = "host" /\ at' = 0 /\ rows' = 0
  BY <1>1, <1>2, ReturnType DEF IInv, TypeOK
<1>4. TypeOK'
  <2>1. slots' \in [SlotIds -> Slot]
    BY <1>1, IdleSlotType DEF IInv, TypeOK
  <2>2. mem' \subseteq Cell
    BY <1>1, ReleasedType DEF IInv, TypeOK
  <2> QED
    BY <1>1, <1>3, <2>1, <2>2, SizesAssumption DEF IInv, TypeOK
<1>5. \A s \in SlotIds : slots'[s] = IdleSlot \/ slots'[s] = slots[s]
  BY <1>1
<1>6. RowKinds'
  BY <1>5 DEF IInv, RowKinds, Idle, IdleSlot
<1>7. RowHolders' \subseteq RowHolders
  BY <1>5 DEF RowHolders, IdleSlot
<1>8. RowCount'
  BY <1>3, <1>7, FewerRowHolders, RowHoldersFinite, SlotsAssumption DEF IInv, RowCount
<1> QED
  BY <1>4, <1>6, <1>8 DEF IInv

LEMMA PassOverIInv ==
    ASSUME IInv, PassOver
    PROVE  IInv'
<1>1. TypeOK'
  BY SizesAssumption DEF IInv, TypeOK, PassOver, stateVars
<1>2. RowKinds' /\ RowCount'
  BY DEF IInv, RowKinds, RowCount, RowHolders, Idle, PassOver, stateVars
<1> QED
  BY <1>1, <1>2 DEF IInv

LEMMA FinishIInv ==
    ASSUME IInv, Sampling, NEW evs \in [Ids -> Seq(Event)], NEW reason \in Endings,
           Finish(evs, reason)
    PROVE  IInv'
<1>1. /\ at \in SlotIds /\ at + 1 \in 0 .. NSeqMax /\ phase = "sample"
      /\ UNCHANGED <<queue, next_id, system, system_seq, created, hist_valid,
                      phase, rows, heard>>
  BY SizesAssumption DEF IInv, TypeOK, Sampling, Finish, SlotIds, SeqIds
<1>2. /\ slots' = [slots EXCEPT ![at] = IdleSlot]
      /\ mem' = SeqRm(mem, at, 0)
      /\ at' = at + 1
      /\ events' = Tell(evs, slots[at].id_task, reason, NoToken)
  BY DEF Finish
<1>3. events' \in [Ids -> Seq(Event)]
  BY <1>2, TellType
<1>4. TypeOK'
  <2>1. mem' \subseteq Cell
    BY <1>2, SeqRmType DEF IInv, TypeOK
  <2>2. slots' \in [SlotIds -> Slot]
    BY <1>2, IdleSlotType DEF IInv, TypeOK
  <2> QED
    BY <1>1, <1>2, <1>3, <2>1, <2>2 DEF IInv, TypeOK
<1>5. \A s \in SlotIds : slots'[s] = IdleSlot \/ slots'[s] = slots[s]
  BY <1>2 DEF IInv, TypeOK
<1>6. RowKinds'
  BY <1>5 DEF IInv, RowKinds, Idle, IdleSlot
<1>7. RowHolders' \subseteq RowHolders
  BY <1>5 DEF RowHolders, IdleSlot
<1>8. RowCount'
  BY <1>1, <1>7, FewerRowHolders, RowHoldersFinite, SlotsAssumption DEF IInv, RowCount
<1> QED
  BY <1>4, <1>6, <1>8 DEF IInv

LEMMA SampleTokenIInv ==
    ASSUME IInv, NEW tok \in Sampled, NEW stopped \in BOOLEAN, SampleToken(tok, stopped)
    PROVE  IInv'
<1> DEFINE s    == slots[at]
           said == Tell(events, s.id_task, "token", tok)
           next == [s EXCEPT !.produced = Append(@, tok), !.pending = tok, !.logits = FALSE]
<1>1. tok \in Token /\ tok # NoToken
  BY SlotsAssumption
<1>2. said \in [Ids -> Seq(Event)]
  BY <1>1, TellType DEF IInv, TypeOK
<1>3. Sampling
  BY DEF SampleToken
<1>4. CASE Finish(said, "stop") \/ Finish(said, "length")
  BY <1>2, <1>3, <1>4, FinishIInv DEF Endings
<1>5. CASE /\ slots' = [slots EXCEPT ![at] = next]
           /\ events' = said
           /\ at' = at + 1
           /\ UNCHANGED <<mem, phase, rows, heard>>
  <2>1. /\ at \in SlotIds /\ at + 1 \in 0 .. NSeqMax
        /\ slots[at] \in Slot /\ slots[at].logits
        /\ phase = "sample"
        /\ UNCHANGED <<queue, next_id, system, system_seq, created, hist_valid>>
    BY <1>3, SizesAssumption DEF IInv, TypeOK, Sampling, SlotIds, SeqIds
  <2>2. next \in Slot /\ next.take = slots[at].take
    <3>1. Append(slots[at].produced, tok) \in Seq(Token)
      BY <1>1, <2>1 DEF Slot
    <3> QED
      BY <1>1, <2>1, <3>1 DEF Slot
  <2>3. slots'[at] = next /\ \A r \in SlotIds \ {at} : slots'[r] = slots[r]
    BY <1>5, <2>1 DEF IInv, TypeOK
  <2>4. TypeOK'
    <3>1. slots' \in [SlotIds -> Slot]
      BY <1>5, <2>2 DEF IInv, TypeOK
    <3> QED
      BY <1>2, <1>5, <2>1, <3>1 DEF IInv, TypeOK
  <2>5. RowKinds'
    <3>1. slots[at].generating /\ ~(slots[at].take > 0)
      BY <2>1 DEF IInv, RowKinds
    <3>2. next.generating = slots[at].generating
      BY <2>1 DEF Slot
    <3>3. ~(slots'[at].take > 0)
      BY <2>2, <2>3, <3>1
    <3>4. slots'[at].generating
      BY <2>3, <3>1, <3>2, Zenon
    <3> QED
      BY <2>3, <3>3, <3>4 DEF IInv, RowKinds, Idle
  <2>6. RowHolders' \subseteq RowHolders
    BY <2>1, <2>3 DEF RowHolders
  <2>7. RowCount'
    BY <1>5, <2>1, <2>6, FewerRowHolders, RowHoldersFinite, SlotsAssumption
       DEF IInv, RowCount
  <2> QED
    BY <2>4, <2>5, <2>7 DEF IInv
<1> QED
  BY <1>4, <1>5 DEF SampleToken

LEMMA SamplerThrowsIInv ==
    ASSUME IInv, SamplerThrows
    PROVE  IInv'
<1>1. /\ slots' = [slots EXCEPT ![at].logits = FALSE]
      /\ Return(Quiet)
      /\ UNCHANGED <<mem, queue, next_id, system, system_seq, created, hist_valid>>
  BY DEF SamplerThrows, Sampling
<1>2. /\ heard' \in [Ids -> Seq(Event)] /\ events' \in [Ids -> Seq(Event)]
      /\ phase' = "host" /\ at' = 0 /\ rows' = 0
  BY <1>1, QuietType, ReturnType DEF IInv, TypeOK
<1>3. TypeOK'
  <2>1. slots' \in [SlotIds -> Slot]
    <3>1. \A r \in SlotIds : [slots[r] EXCEPT !.logits = FALSE] \in Slot
      BY DEF IInv, TypeOK, Slot
    <3> QED
      BY <1>1, <3>1 DEF IInv, TypeOK
  <2> QED
    BY <1>1, <1>2, <2>1, SizesAssumption DEF IInv, TypeOK
<1>4. \A r \in SlotIds : slots'[r] = slots[r] \/ slots'[r] = [slots[r] EXCEPT !.logits = FALSE]
  BY <1>1 DEF IInv, TypeOK
<1>5. \A r \in SlotIds : /\ slots'[r].pending = slots[r].pending
                         /\ slots'[r].take = slots[r].take
                         /\ slots'[r].id_task = slots[r].id_task
                         /\ slots'[r].n_past = slots[r].n_past
                         /\ slots'[r].prompt = slots[r].prompt
                         /\ slots'[r].generating <=> slots[r].generating
                         /\ slots'[r].logits => slots[r].logits
  <2> SUFFICES ASSUME NEW r \in SlotIds,
                      slots'[r] = [slots[r] EXCEPT !.logits = FALSE]
               PROVE  /\ slots'[r].pending = slots[r].pending
                      /\ slots'[r].take = slots[r].take
                      /\ slots'[r].id_task = slots[r].id_task
                      /\ slots'[r].n_past = slots[r].n_past
                      /\ slots'[r].prompt = slots[r].prompt
                      /\ slots'[r].generating <=> slots[r].generating
                      /\ slots'[r].logits => slots[r].logits
    BY <1>4
  <2>1. slots[r] \in Slot
    BY DEF IInv, TypeOK
  <2> QED
    BY <2>1, Zenon DEF Slot
<1>6. RowKinds'
  BY <1>5, Zenon DEF IInv, RowKinds, Idle
<1>7. RowHolders' \subseteq RowHolders
  BY <1>5, Zenon DEF RowHolders
<1>8. RowCount'
  BY <1>2, <1>7, FewerRowHolders, RowHoldersFinite, SlotsAssumption DEF IInv, RowCount
<1> QED
  BY <1>3, <1>6, <1>8 DEF IInv

LEMMA UpdateDoneIInv ==
    ASSUME IInv, UpdateDone
    PROVE  IInv'
<1>1. Return(events) /\ UNCHANGED stateVars
  BY DEF UpdateDone
<1>2. /\ heard' \in [Ids -> Seq(Event)] /\ events' \in [Ids -> Seq(Event)]
      /\ phase' = "host" /\ at' = 0 /\ rows' = 0
  BY <1>1, ReturnType DEF IInv, TypeOK
<1>3. TypeOK'
  BY <1>1, <1>2, SizesAssumption DEF IInv, TypeOK, stateVars
<1>4. RowKinds' /\ RowCount'
  BY <1>1, <1>2 DEF IInv, RowKinds, RowCount, RowHolders, Idle, stateVars
<1> QED
  BY <1>3, <1>4 DEF IInv

LEMMA NextIInv == IInv /\ [Next]_vars => IInv'
<1> SUFFICES ASSUME IInv, [Next]_vars PROVE IInv'
  OBVIOUS
<1>1. CASE HostCall
  BY <1>1, PostIInv, CancelQueuedIInv, CancelBusyIInv, SetSystemIInv, ClearSystemIInv,
     ResetIInv, LoraSetIInv, UseSequence0IInv DEF HostCall
<1>2. CASE UpdateBegin
  BY <1>2, UpdateBeginIInv
<1>3. CASE LaunchHead \/ LaunchDone
  BY <1>3, LaunchHeadIInv, LaunchDoneIInv
<1>4. CASE TakeChunk \/ BatchReady \/ NothingToDecode
  BY <1>4, TakeChunkIInv, BatchReadyIInv, NothingToDecodeIInv
<1>5. CASE DecodeOk \/ DecodeFails
  BY <1>5, DecodeOkIInv, DecodeFailsIInv
<1>6. CASE NoBudget \/ SampleEos
  <2>1. Sampling /\ (Finish(events, "length") \/ Finish(events, "eos"))
    BY <1>6 DEF NoBudget, SampleEos
  <2>2. events \in [Ids -> Seq(Event)]
    BY DEF IInv, TypeOK
  <2> QED
    BY <2>1, <2>2, FinishIInv DEF Endings
<1>7. CASE \E tok \in Sampled, stopped \in BOOLEAN : SampleToken(tok, stopped)
  BY <1>7, SampleTokenIInv
<1>8. CASE PassOver \/ SamplerThrows \/ UpdateDone
  BY <1>8, PassOverIInv, SamplerThrowsIInv, UpdateDoneIInv
<1>9. CASE UNCHANGED vars
  BY <1>9 DEF IInv, TypeOK, RowKinds, RowCount, RowHolders, Idle,
     vars, stateVars, updateVars
<1> QED
  BY <1>1, <1>2, <1>3, <1>4, <1>5, <1>6, <1>7, <1>8, <1>9 DEF Next, UpdateStep

(* Every variable keeps its type, whatever the host calls and in whatever   *)
(* order, and whatever the samplers and llama_decode do.                    *)
THEOREM TypeCorrect == Spec => []TypeOK
<1>1. IInv => TypeOK
  BY DEF IInv
<1> QED
  BY <1>1, InitIInv, NextIInv, PTL DEF Spec

-----------------------------------------------------------------------------
(* The arrays of the batch are filled exactly.                              *)

\* While the batch is assembled, the rows counted are the rows there will be;
\* the slots the loop has not reached have no chunk yet.
RowsFilled ==
    /\ phase \in {"chunks", "decode"} =>
           IsFiniteSet(BatchCells) /\ rows = Cardinality(BatchCells)
    /\ phase = "chunks" => \A s \in SlotIds : s >= at => slots[s].take = 0

(* A text has as many cells as tokens. *)
LEMMA NewCellsCount ==
    ASSUME NEW s, NEW first \in Nat, NEW toks \in Seq(Token)
    PROVE  /\ IsFiniteSet(NewCells(s, first, toks))
           /\ Cardinality(NewCells(s, first, toks)) = Len(toks)
<1> DEFINE n    == Len(toks)
           cell == [i \in 1 .. n |-> [pos |-> first + i - 1, tok |-> toks[i], seqs |-> {s}]]
<1>1. n \in Nat /\ DOMAIN toks = 1 .. n
  BY LenProperties
<1>2. cell \in Bijection(1 .. n, NewCells(s, first, toks))
  <2>1. cell \in [1 .. n -> NewCells(s, first, toks)]
    BY <1>1 DEF NewCells
  <2>2. \A i, j \in 1 .. n : cell[i] = cell[j] => i = j
    <3> SUFFICES ASSUME NEW i \in 1 .. n, NEW j \in 1 .. n, cell[i] = cell[j]
                 PROVE  i = j
      OBVIOUS
    <3>1. cell[i].pos = first + i - 1 /\ cell[j].pos = first + j - 1
      OBVIOUS
    <3> QED
      BY <3>1
  <2>3. \A c \in NewCells(s, first, toks) : \E i \in 1 .. n : cell[i] = c
    BY <1>1 DEF NewCells
  <2> QED
    BY <2>1, <2>2, <2>3 DEF Bijection, Injection, Surjection, IsInjective
<1>3. ExistsBijection(1 .. n, NewCells(s, first, toks))
  BY <1>2 DEF ExistsBijection
<1> QED
  BY <1>1, <1>3, FS_NatBijection, FS_CountingElements

(* At the end of the launch loop the batch is one row for each slot that has *)
(* a token to decode.                                                        *)
LEMMA LaunchDoneFills ==
    ASSUME IInv, LaunchDone
    PROVE  RowsFilled'
<1>1. /\ slots' = [s \in SlotIds |-> [slots[s] EXCEPT !.take = 0, !.logits = FALSE]]
      /\ rows' = Cardinality(Decoding)
      /\ phase' = "chunks"
  BY DEF LaunchDone
<1>2. ASSUME NEW s \in SlotIds
      PROVE  /\ slots'[s].take = 0
             /\ slots'[s].pending = slots[s].pending
             /\ slots'[s].generating <=> slots[s].generating
             /\ slots'[s].n_past = slots[s].n_past
             /\ slots[s].n_past \in Nat
  <2>1. slots[s] \in Slot
    BY DEF IInv, TypeOK
  <2>2. slots'[s] = [slots[s] EXCEPT !.take = 0, !.logits = FALSE]
    BY <1>1
  <2> QED
    BY <2>1, <2>2, Zenon DEF Slot
<1>3. Decoding' = Decoding
  BY <1>2 DEF Decoding
<1>4. InBatch' = Decoding
  BY <1>2, <1>3 DEF InBatch, Chunked
<1> DEFINE Row(s) == [pos |-> slots[s].n_past, tok |-> slots[s].pending, seqs |-> {s}]
<1>5. ASSUME NEW s \in Decoding
      PROVE  NewCells(s, slots[s].n_past, RowsOf(s))' = {Row(s)}
  <2>1. s \in SlotIds
    BY DEF Decoding
  <2>2. RowsOf(s)' = <<slots[s].pending>>
    BY <1>2, <1>3, <2>1 DEF RowsOf
  <2>3. slots[s].n_past + 1 - 1 = slots[s].n_past
    BY <1>2, <2>1
  <2>4. NewCells(s, slots[s].n_past, <<slots[s].pending>>) = {Row(s)}
    BY <2>3 DEF NewCells
  <2> QED
    BY <1>2, <2>1, <2>2, <2>4 DEF NewCells
<1>6. BatchCells' = {Row(s) : s \in Decoding}
  <2>1. BatchCells' = UNION {NewCells(s, slots[s].n_past, RowsOf(s))' : s \in Decoding}
    BY <1>4 DEF BatchCells
  <2>2. BatchCells' = UNION {{Row(s)} : s \in Decoding}
    BY <1>5, <2>1
  <2> QED
    BY <2>2
<1> DEFINE row == [s \in Decoding |-> Row(s)]
<1>7. row \in Bijection(Decoding, BatchCells')
  <2>1. row \in [Decoding -> BatchCells']
    BY <1>6
  <2>2. \A s, t \in Decoding : row[s] = row[t] => s = t
    <3> SUFFICES ASSUME NEW s \in Decoding, NEW t \in Decoding, row[s] = row[t]
                 PROVE  s = t
      OBVIOUS
    <3>1. row[s].seqs = {s} /\ row[t].seqs = {t}
      OBVIOUS
    <3> QED
      BY <3>1
  <2>3. \A c \in BatchCells' : \E s \in Decoding : row[s] = c
    BY <1>6
  <2> QED
    BY <2>1, <2>2, <2>3 DEF Bijection, Injection, Surjection, IsInjective
<1>8. IsFiniteSet(Decoding)
  BY SlotIdsFinite, FS_Subset DEF Decoding
<1>9. IsFiniteSet(BatchCells') /\ Cardinality(BatchCells') = Cardinality(Decoding)
  BY <1>7, <1>8, FS_Bijection DEF ExistsBijection
<1> QED
  BY <1>1, <1>2, <1>9 DEF RowsFilled

(* A chunk adds as many rows as it takes tokens, all of them new.            *)
LEMMA TakeChunkFills ==
    ASSUME IInv, RowsFilled, TakeChunk
    PROVE  RowsFilled'
<1>1. /\ phase = "chunks" /\ phase' = "chunks" /\ at \in SlotIds /\ at \in Nat
      /\ at' = at + 1
      /\ slots' = [slots EXCEPT ![at].take = ChunkOf(at)]
      /\ rows' = rows + ChunkOf(at)
      /\ slots[at] \in Slot
      /\ slots[at].take = 0
  BY SizesAssumption DEF IInv, TypeOK, TakeChunk, SlotIds, SeqIds, RowsFilled
<1>2. /\ ChunkOf(at) \in Nat
      /\ ChunkOf(at) > 0 =>
             /\ ~slots[at].generating
             /\ slots[at].n_past + ChunkOf(at) <= Len(slots[at].prompt)
  BY <1>1, ChunkBounds DEF IInv
<1>3. /\ slots'[at] = [slots[at] EXCEPT !.take = ChunkOf(at)]
      /\ \A r \in SlotIds \ {at} : slots'[r] = slots[r]
  BY <1>1 DEF IInv, TypeOK
<1>4. \A s \in SlotIds : s >= at' => slots'[s].take = 0
  <2> SUFFICES ASSUME NEW s \in SlotIds, s >= at' PROVE slots'[s].take = 0
    OBVIOUS
  <2>1. s \in SlotIds \ {at} /\ s >= at
    BY <1>1, SlotIdsFinite
  <2> QED
    BY <1>1, <1>3, <2>1 DEF RowsFilled
<1>5. CASE ChunkOf(at) = 0
  <2>1. slots' = slots /\ rows' = rows
    BY <1>1, <1>5 DEF IInv, TypeOK, Slot
  <2>2. BatchCells' = BatchCells
    BY <2>1 DEF BatchCells, InBatch, Decoding, Chunked, NewCells, RowsOf
  <2> QED
    BY <1>1, <1>4, <2>1, <2>2 DEF RowsFilled
<1>6. CASE ChunkOf(at) > 0
  <2> DEFINE chunk == SubSeq(slots[at].prompt, slots[at].n_past + 1,
                             slots[at].n_past + ChunkOf(at))
             added == NewCells(at, slots[at].n_past, chunk)
  <2>1. /\ slots'[at].take = ChunkOf(at) /\ slots'[at].n_past = slots[at].n_past
        /\ slots'[at].prompt = slots[at].prompt
        /\ slots'[at].generating <=> slots[at].generating
    <3>1. slots[at] \in Slot
      BY <1>1 DEF IInv, TypeOK
    <3> QED
      BY <1>3, <3>1 DEF Slot
  <2>2. Decoding' = Decoding /\ at \notin Decoding
    <3>1. at \notin Decoding /\ at \notin Decoding'
      BY <1>2, <1>6, <2>1 DEF Decoding
    <3> QED
      BY <1>3, <3>1 DEF Decoding
  <2>3. InBatch' = InBatch \cup {at} /\ at \notin InBatch
    BY <1>1, <1>3, <1>6, <2>1, <2>2 DEF InBatch, Chunked
  <2> PICK a \in SlotIds : a = at
    BY <1>1
  <2>4. NewCells(a, slots[a].n_past, RowsOf(a))' = added
    <3>1. /\ slots'[a].take = ChunkOf(a) /\ slots'[a].n_past = slots[a].n_past
          /\ slots'[a].prompt = slots[a].prompt
      BY <2>1
    <3>2. a \notin Decoding'
      BY <2>2
    <3>3. RowsOf(a)' = chunk
      BY <3>1, <3>2 DEF RowsOf
    <3> QED
      BY <3>1, <3>3 DEF NewCells
  <2>5. \A s \in InBatch : NewCells(s, slots[s].n_past, RowsOf(s))'
                            = NewCells(s, slots[s].n_past, RowsOf(s))
    <3> SUFFICES ASSUME NEW s \in InBatch
                 PROVE  NewCells(s, slots[s].n_past, RowsOf(s))'
                            = NewCells(s, slots[s].n_past, RowsOf(s))
      OBVIOUS
    <3>1. s \in SlotIds \ {at}
      BY <2>3 DEF InBatch, Decoding, Chunked
    <3>2. slots'[s] = slots[s]
      BY <1>3, <3>1
    <3> QED
      BY <2>2, <3>2 DEF NewCells, RowsOf
  <2>6. BatchCells' = BatchCells \cup added
    BY <2>3, <2>4, <2>5 DEF BatchCells
  <2>7. BatchCells \cap added = {}
    <3>1. \A c \in BatchCells : \E s \in InBatch : c.seqs = {s}
      BY DEF BatchCells, NewCells
    <3>2. \A c \in added : c.seqs = {at}
      BY DEF NewCells
    <3> QED
      BY <2>3, <3>1, <3>2
  <2>8. IsFiniteSet(added) /\ Cardinality(added) = ChunkOf(at)
    <3>1. /\ slots[at].prompt \in Seq(Token) /\ slots[at].n_past \in Nat
          /\ Len(slots[at].prompt) \in Nat
      BY <1>1 DEF Slot
    <3>2. \A i \in slots[at].n_past + 1 .. slots[at].n_past + ChunkOf(at) :
              slots[at].prompt[i] \in Token
      BY <1>2, <1>6, <3>1, ElementOfSeq
    <3>3. chunk \in Seq(Token) /\ Len(chunk) = ChunkOf(at)
      BY <1>2, <1>6, <3>1, <3>2, SubSeqProperties
    <3> QED
      BY <3>1, <3>3, NewCellsCount
  <2>9. IsFiniteSet(BatchCells) /\ rows = Cardinality(BatchCells)
    BY <1>1 DEF RowsFilled
  <2>10. IsFiniteSet(BatchCells') /\ Cardinality(BatchCells') = rows + ChunkOf(at)
    <3>1. Cardinality(BatchCells \cup added)
            = Cardinality(BatchCells) + Cardinality(added) - Cardinality({})
      BY <2>7, <2>8, <2>9, FS_Union
    <3>2. IsFiniteSet(BatchCells \cup added)
      BY <2>8, <2>9, FS_Union
    <3>3. rows \in Nat
      BY DEF IInv, TypeOK
    <3> QED
      BY <1>2, <2>6, <2>8, <2>9, <3>1, <3>2, <3>3, FS_EmptySet
  <2> QED
    BY <1>1, <1>4, <2>10 DEF RowsFilled
<1> QED
  BY <1>2, <1>5, <1>6

LEMMA NextRowsFilled == IInv /\ RowsFilled /\ [Next]_vars => RowsFilled'
<1> SUFFICES ASSUME IInv, RowsFilled, [Next]_vars PROVE RowsFilled'
  OBVIOUS
<1>1. CASE HostCall
  <2>1. phase' = "host"
    BY <1>1 DEF HostCall, Post, CancelQueued, CancelBusy, SetSystem, ClearSystem, Reset,
       LoraSet, UseSequence0, updateVars
  <2> QED
    BY <2>1 DEF RowsFilled
<1>2. CASE UpdateBegin \/ LaunchHead
  <2>1. phase' = "launch"
    BY <1>2 DEF UpdateBegin, LaunchHead, updateVars
  <2> QED
    BY <2>1 DEF RowsFilled
<1>3. CASE LaunchDone
  BY <1>3, LaunchDoneFills
<1>4. CASE TakeChunk
  BY <1>4, TakeChunkFills
<1>5. CASE BatchReady \/ UNCHANGED vars
  <2>1. /\ slots' = slots /\ rows' = rows /\ at' = at
        /\ phase' \in {"chunks", "decode"} => phase \in {"chunks", "decode"}
        /\ phase' = "chunks" => phase = "chunks"
    BY <1>5 DEF BatchReady, vars, stateVars, updateVars
  <2>2. BatchCells' = BatchCells
    BY <2>1 DEF BatchCells, InBatch, Decoding, Chunked, NewCells, RowsOf
  <2> QED
    BY <2>1, <2>2 DEF RowsFilled
<1>6. CASE NothingToDecode \/ DecodeFails \/ SamplerThrows \/ UpdateDone
  <2>1. phase' = "host"
    BY <1>6 DEF NothingToDecode, DecodeFails, SamplerThrows, UpdateDone, Return
  <2> QED
    BY <2>1 DEF RowsFilled
<1>7. CASE \/ DecodeOk \/ PassOver \/ NoBudget \/ SampleEos
           \/ \E tok \in Sampled, stopped \in BOOLEAN : SampleToken(tok, stopped)
  <2>1. phase' = "sample"
    BY <1>7 DEF DecodeOk, PassOver, NoBudget, SampleEos, SampleToken, Sampling, Finish
  <2> QED
    BY <2>1 DEF RowsFilled
<1> QED
  BY <1>1, <1>2, <1>3, <1>4, <1>5, <1>6, <1>7 DEF Next, UpdateStep

(* The batch slots_update builds never has more rows than llama_decode       *)
(* accepts, and its arrays are filled exactly, for any number of slots, any  *)
(* size of batch and any prompts.                                            *)
THEOREM BatchAlwaysFits == Spec => []BatchFits
<1>1. Init => RowsFilled
  BY DEF Init, RowsFilled
<1>2. IInv /\ RowsFilled => BatchFits
  BY DEF IInv, RowCount, RowsFilled, BatchFits
<1> QED
  BY <1>1, <1>2, InitIInv, NextIInv, NextRowsFilled, PTL DEF Spec

-----------------------------------------------------------------------------
(***************************************************************************)
(* Tasks start in the order they were posted, each is in one place at a    *)
(* time, and what the host hears of one ends with its end.                 *)
(***************************************************************************)

\* What is told of a task, the events of the running update included.
Said(i) == heard[i] \o events[i]

OnlyTokens(evs) == \A k \in 1 .. Len(evs) : evs[k].kind = "token"

Closed(evs) ==
    /\ evs # <<>>
    /\ evs[Len(evs)].kind \in Endings
    /\ \A k \in 1 .. Len(evs) - 1 : evs[k].kind = "token"

\* The task has been heard of otherwise than as dropped from the queue: it
\* was launched once.
Spoken(i) == \E k \in 1 .. Len(Said(i)) : Said(i)[k].kind # "dropped"

\* The ids in use have been given.
IdsGiven ==
    /\ next_id <= MaxTasks + 1
    /\ \A k \in DOMAIN queue : queue[k].id < next_id
    /\ \A s \in SlotIds : slots[s].id_task < next_id
    /\ \A i \in Ids : i >= next_id => Said(i) = <<>>

\* What waits is younger than what waits before it, than what runs, and than
\* every task that was launched before.
InOrder ==
    /\ \A j, k \in DOMAIN queue : j < k => queue[j].id < queue[k].id
    /\ \A k \in DOMAIN queue, s \in SlotIds : slots[s].id_task < queue[k].id
    /\ \A k \in DOMAIN queue, i \in Ids : Spoken(i) => i < queue[k].id

OneSlotEach ==
    \A s, t \in Busy : slots[s].id_task = slots[t].id_task => s = t

\* Nothing is said of a task that waits, only tokens of one that runs, and
\* nothing after an ending.
ToldInOrder ==
    \A i \in Ids :
        /\ Queued(i) => Said(i) = <<>>
        /\ Runs(i) => OnlyTokens(Said(i))
        /\ OnlyTokens(Said(i)) \/ Closed(Said(i))

\* Only the sampling loop has events to report.
EventsOfSampling == phase # "sample" => events = Quiet

OrderInv == IdsGiven /\ InOrder /\ OneSlotEach /\ ToldInOrder /\ EventsOfSampling

\* Every task posted waits, runs or is over (unless a sampler threw).
Accounted ==
    \A i \in 1 .. next_id - 1 : Queued(i) \/ Runs(i) \/ Closed(Said(i))

\* What was told of a running task is what its slot produced; an idle slot
\* has produced nothing.
TokensMatch ==
    /\ \A s \in Busy :
           Said(slots[s].id_task) =
               [k \in 1 .. Len(slots[s].produced) |->
                   [kind |-> "token", tok |-> slots[s].produced[k]]]
    /\ \A s \in SlotIds : Idle(s) => slots[s].produced = <<>>

-----------------------------------------------------------------------------
(* Lists of events. *)

LEMMA SaidType ==
    ASSUME TypeOK, NEW i \in Ids
    PROVE  heard[i] \in Seq(Event) /\ events[i] \in Seq(Event) /\ Said(i) \in Seq(Event)
BY DEF TypeOK, Said

LEMMA OneMoreToken ==
    ASSUME NEW evs \in Seq(Event), OnlyTokens(evs), NEW e \in Event, e.kind = "token"
    PROVE  OnlyTokens(Append(evs, e))
BY LenProperties, AppendProperties DEF OnlyTokens

LEMMA AndAnEnding ==
    ASSUME NEW evs \in Seq(Event), OnlyTokens(evs), NEW e \in Event, e.kind \in Endings
    PROVE  Closed(Append(evs, e))
BY LenProperties, AppendProperties DEF OnlyTokens, Closed

(* An update that reports nothing takes back only what it had not reported. *)
LEMMA WhatWasHeard ==
    ASSUME NEW h \in Seq(Event), NEW e \in Seq(Event),
           OnlyTokens(h \o e) \/ Closed(h \o e)
    PROVE  /\ OnlyTokens(h) \/ Closed(h)
           /\ OnlyTokens(h \o e) => OnlyTokens(h)
           /\ \A k \in 1 .. Len(h) : k \in 1 .. Len(h \o e) /\ (h \o e)[k] = h[k]
<1>1. /\ Len(h) \in Nat /\ Len(e) \in Nat
      /\ Len(h \o e) = Len(h) + Len(e)
      /\ \A k \in 1 .. Len(h) : k \in 1 .. Len(h \o e) /\ (h \o e)[k] = h[k]
  BY LenProperties, ConcatProperties
<1>2. OnlyTokens(h \o e) => OnlyTokens(h)
  BY <1>1 DEF OnlyTokens
<1>3. CASE Closed(h \o e) /\ e = <<>>
  BY <1>3, ConcatEmptySeq
<1>4. CASE Closed(h \o e) /\ e # <<>>
  <2>1. Len(e) > 0
    BY <1>4, EmptySeq
  <2>2. \A k \in 1 .. Len(h) : h[k].kind = "token"
    BY <1>1, <1>4, <2>1 DEF Closed
  <2> QED
    BY <1>1, <2>2 DEF OnlyTokens
<1> QED
  BY <1>1, <1>2, <1>3, <1>4

LEMMA NothingIsOnlyTokens == OnlyTokens(<<>>)
BY EmptySeq DEF OnlyTokens

LEMMA EndedIsNotOnlyTokens ==
    ASSUME NEW evs \in Seq(Event), Closed(evs)
    PROVE  evs # <<>> /\ ~OnlyTokens(evs)
<1>1. Len(evs) \in Nat \ {0}
  BY EmptySeq DEF Closed
<1>2. evs[Len(evs)].kind # "token"
  BY DEF Closed, Endings
<1> QED
  BY <1>1, <1>2 DEF OnlyTokens, Closed

LEMMA ConcatOneMore ==
    ASSUME NEW h \in Seq(Event), NEW evs \in Seq(Event), NEW e \in Event
    PROVE  h \o Append(evs, e) = Append(h \o evs, e)
<1>1. /\ h \o evs \in Seq(Event) /\ Append(evs, e) \in Seq(Event)
      /\ Len(h) \in Nat /\ Len(evs) \in Nat
      /\ Len(h \o evs) = Len(h) + Len(evs) /\ Len(Append(evs, e)) = Len(evs) + 1
  BY LenProperties, ConcatProperties, AppendProperties
<1>2. /\ h \o Append(evs, e) \in Seq(Event) /\ Append(h \o evs, e) \in Seq(Event)
      /\ Len(h \o Append(evs, e)) = Len(Append(h \o evs, e))
      /\ Len(h \o Append(evs, e)) = Len(h) + Len(evs) + 1
  BY <1>1, ConcatProperties, AppendProperties
<1>3. \A i \in 1 .. Len(h) + Len(evs) + 1 :
          (h \o Append(evs, e))[i] = Append(h \o evs, e)[i]
  BY <1>1, ConcatProperties, AppendProperties
<1> QED
  BY <1>2, <1>3, SeqEqual

-----------------------------------------------------------------------------
(* Steps that start no task. *)

\* What a step that starts no task may do to what is said of task i.
TalkOf(i) ==
    \/ Said(i)' = Said(i) /\ (Runs(i) => Runs(i)')
    \/ SamplerMayThrow /\ Said(i)' = heard[i]
    \/ Runs(i) /\ Runs(i)' /\ OnlyTokens(Said(i)')
    \/ Runs(i) /\ ~Runs(i)' /\ Closed(Said(i)')

\* Slot s is left, keeps what it produced, or produces the token that is told
\* of its task.
Makes(s) ==
    \/ slots'[s].id_task = 0 /\ slots'[s].produced = <<>>
    \/ /\ slots'[s].id_task = slots[s].id_task
       /\ slots'[s].produced = slots[s].produced
       /\ \A i \in Ids : i = slots[s].id_task => Said(i)' = Said(i)
    \/ \E tok \in Token :
          /\ ~Idle(s) /\ slots'[s].id_task = slots[s].id_task
          /\ slots'[s].produced = Append(slots[s].produced, tok)
          /\ \A i \in Ids : i = slots[s].id_task =>
                 Said(i)' = Append(Said(i), [kind |-> "token", tok |-> tok])

\* No task starts, the queue stays, and a slot may be left.
TalkStep ==
    /\ next_id' = next_id /\ queue' = queue
    /\ \A s \in SlotIds : slots'[s].id_task \in {slots[s].id_task, 0}
    /\ \A i \in Ids : TalkOf(i)
    /\ SamplerMayThrow \/ \A s \in SlotIds : Makes(s)
    /\ EventsOfSampling'

LEMMA QueueAndSlotIds ==
    ASSUME TypeOK
    PROVE  /\ \A k \in DOMAIN queue : queue[k] \in Task /\ queue[k].id \in Nat \ {0}
           /\ \A s \in SlotIds : slots[s].id_task \in Nat
           /\ DOMAIN queue = 1 .. Len(queue) /\ Len(queue) \in Nat
<1>1. DOMAIN queue = 1 .. Len(queue) /\ Len(queue) \in Nat
  BY LenProperties DEF TypeOK
<1>2. \A k \in DOMAIN queue : queue[k] \in Task
  BY <1>1, ElementOfSeq DEF TypeOK
<1> QED
  BY <1>1, <1>2 DEF TypeOK, Slot, Task

LEMMA TalkKeepsOrder ==
    ASSUME TypeOK, TypeOK', OrderInv, TalkStep
    PROVE  OrderInv'
<1>1. /\ next_id \in Nat /\ next_id > 0 /\ next_id' = next_id /\ queue' = queue
      /\ \A s \in SlotIds : slots'[s].id_task = slots[s].id_task \/ slots'[s].id_task = 0
      /\ \A s \in SlotIds : slots[s].id_task \in Nat
      /\ \A k \in DOMAIN queue : queue[k].id \in Nat \ {0}
  BY QueueAndSlotIds DEF TypeOK, TalkStep
<1>2. \A i \in Ids : Runs(i)' => Runs(i)
  BY <1>1 DEF Runs, Busy, Idle
<1>3. \A i \in Ids : Runs(i) => i < next_id
  BY <1>1 DEF Runs, Busy, OrderInv, IdsGiven
<1>4. \A i \in Ids : Queued(i)' <=> Queued(i)
  BY <1>1 DEF Queued
<1>5. \A i \in Ids : ~(Queued(i) /\ Runs(i))
  <2> SUFFICES ASSUME NEW k \in DOMAIN queue, NEW s \in SlotIds,
                      queue[k].id = slots[s].id_task
               PROVE  FALSE
    BY DEF Queued, Runs, Busy
  <2> QED
    BY <1>1 DEF OrderInv, InOrder
<1>6. ASSUME NEW i \in Ids
      PROVE  /\ Said(i)' = Said(i) \/ Said(i)' = heard[i] \/ Runs(i)
             /\ OnlyTokens(heard[i]) \/ Closed(heard[i])
             /\ OnlyTokens(Said(i)) => OnlyTokens(heard[i])
             /\ Said(i) = <<>> => heard[i] = <<>>
             /\ Said(i)' = heard[i] /\ Spoken(i)' => Spoken(i)
  <2>1. heard[i] \in Seq(Event) /\ events[i] \in Seq(Event)
    BY SaidType
  <2>2. OnlyTokens(Said(i)) \/ Closed(Said(i))
    BY DEF OrderInv, ToldInOrder
  <2>3. /\ OnlyTokens(heard[i]) \/ Closed(heard[i])
        /\ OnlyTokens(Said(i)) => OnlyTokens(heard[i])
        /\ \A k \in 1 .. Len(heard[i]) : k \in 1 .. Len(Said(i)) /\ Said(i)[k] = heard[i][k]
    BY <2>1, <2>2, WhatWasHeard DEF Said
  <2>4. Said(i) = <<>> => heard[i] = <<>>
    BY <2>1, ConcatEqualIffEmpty DEF Said
  <2>5. Said(i)' = heard[i] /\ Spoken(i)' => Spoken(i)
    BY <2>3 DEF Spoken
  <2> QED
    BY <2>3, <2>4, <2>5 DEF TalkStep, TalkOf
<1>7. IdsGiven'
  <2>1. \A i \in Ids : i >= next_id => Said(i)' = <<>>
    <3> SUFFICES ASSUME NEW i \in Ids, i >= next_id PROVE Said(i)' = <<>>
      OBVIOUS
    <3>1. Said(i) = <<>>
      BY DEF OrderInv, IdsGiven
    <3>2. ~Runs(i)
      BY <1>1, <1>3 DEF Ids
    <3> QED
      BY <1>6, <3>1, <3>2
  <2>2. \A s \in SlotIds : slots'[s].id_task < next_id
    BY <1>1 DEF OrderInv, IdsGiven
  <2> QED
    BY <1>1, <2>1, <2>2 DEF OrderInv, IdsGiven
<1>8. InOrder'
  <2>1. \A k \in DOMAIN queue, s \in SlotIds : slots'[s].id_task < queue[k].id
    BY <1>1 DEF OrderInv, InOrder
  <2>2. \A k \in DOMAIN queue, i \in Ids : Spoken(i)' => i < queue[k].id
    <3> SUFFICES ASSUME NEW k \in DOMAIN queue, NEW i \in Ids, Spoken(i)'
                 PROVE  i < queue[k].id
      OBVIOUS
    <3>1. CASE Runs(i)
      BY <3>1 DEF Runs, Busy, OrderInv, InOrder
    <3>2. CASE Said(i)' = Said(i)
      BY <3>2 DEF Spoken, OrderInv, InOrder
    <3>3. CASE Said(i)' = heard[i]
      BY <1>6, <3>3 DEF OrderInv, InOrder
    <3> QED
      BY <1>6, <3>1, <3>2, <3>3
  <2> QED
    BY <1>1, <2>1, <2>2 DEF OrderInv, InOrder
<1>9. OneSlotEach'
  BY <1>1 DEF OrderInv, OneSlotEach, Busy, Idle
<1>10. ToldInOrder'
  <2> SUFFICES ASSUME NEW i \in Ids
               PROVE  /\ Queued(i)' => Said(i)' = <<>>
                      /\ Runs(i)' => OnlyTokens(Said(i)')
                      /\ OnlyTokens(Said(i)') \/ Closed(Said(i)')
    BY DEF ToldInOrder, OnlyTokens, Closed
  <2>1. /\ Queued(i) => Said(i) = <<>>
        /\ Runs(i) => OnlyTokens(Said(i))
        /\ OnlyTokens(Said(i)) \/ Closed(Said(i))
    BY DEF OrderInv, ToldInOrder
  <2>2. CASE Said(i)' = Said(i)
    BY <1>2, <1>4, <2>1, <2>2, Zenon
  <2>3. CASE Said(i)' = heard[i]
    BY <1>2, <1>4, <1>6, <2>1, <2>3, Zenon
  <2>4. CASE Runs(i) /\ OnlyTokens(Said(i)')
    BY <1>4, <1>5, <2>4, Zenon
  <2>5. CASE Runs(i) /\ ~Runs(i)' /\ Closed(Said(i)')
    BY <1>4, <1>5, <2>5, Zenon
  <2>6. TalkOf(i)
    BY DEF TalkStep
  <2> QED
    BY <2>2, <2>3, <2>4, <2>5, <2>6, Zenon DEF TalkOf
<1> QED
  BY <1>7, <1>8, <1>9, <1>10 DEF OrderInv, TalkStep

(* A step in which nothing is said and no slot changes hands. *)
LEMMA SilentTalks ==
    ASSUME TypeOK, OrderInv, UNCHANGED <<queue, next_id>>,
           \A s \in SlotIds : /\ slots'[s].id_task = slots[s].id_task
                              /\ slots'[s].produced = slots[s].produced,
           \A i \in Ids : heard'[i] \o events'[i] = heard[i] \o events[i],
           EventsOfSampling'
    PROVE  TalkStep
<1>1. \A i \in Ids : Said(i)' = Said(i) /\ (Runs(i) => Runs(i)')
  BY DEF Said, Runs, Busy, Idle
<1>2. \A i \in Ids : TalkOf(i)
  BY <1>1 DEF TalkOf
<1>3. \A s \in SlotIds : Makes(s)
  BY <1>1 DEF Makes
<1> QED
  BY <1>2, <1>3 DEF TalkStep

LEMMA HostCallsTalk ==
    ASSUME TypeOK, OrderInv,
           \/ \E toks \in SystemPrompt : SetSystem(toks)
           \/ ClearSystem
           \/ LoraSet
           \/ \E text \in Leftover : UseSequence0(text)
    PROVE  TalkStep
<1>1. UNCHANGED <<queue, next_id, slots, phase, events, heard>>
  BY DEF SetSystem, ClearSystem, LoraSet, UseSequence0, updateVars
<1>2. EventsOfSampling'
  BY <1>1 DEF OrderInv, EventsOfSampling
<1> QED
  BY <1>1, <1>2, SilentTalks

(* Reporting the events of an update leaves what is said as it was. *)
LEMMA ReturnTalks ==
    ASSUME TypeOK, OrderInv, Return(events), UNCHANGED stateVars
    PROVE  TalkStep
<1>1. \A i \in Ids : heard'[i] \o events'[i] = heard[i] \o events[i]
  <2> SUFFICES ASSUME NEW i \in Ids
               PROVE  heard'[i] \o events'[i] = heard[i] \o events[i]
    OBVIOUS
  <2>1. heard'[i] = heard[i] \o events[i] /\ events'[i] = <<>>
    BY DEF Return, Quiet
  <2>2. heard[i] \o events[i] \in Seq(Event)
    BY SaidType DEF Said
  <2> QED
    BY <2>1, <2>2, ConcatEmptySeq
<1>2. EventsOfSampling'
  BY DEF Return, EventsOfSampling
<1> QED
  BY <1>1, <1>2, SilentTalks DEF stateVars

LEMMA UpdateBeginTalks ==
    ASSUME TypeOK, OrderInv, UpdateBegin
    PROVE  TalkStep
<1>1. events = Quiet /\ events' = Quiet
  BY DEF UpdateBegin, OrderInv, EventsOfSampling
<1>2. EventsOfSampling'
  BY <1>1 DEF EventsOfSampling
<1> QED
  BY <1>1, <1>2, SilentTalks DEF UpdateBegin

(* The loops that assemble and decode the batch. *)
LEMMA BatchTalks ==
    ASSUME TypeOK, OrderInv,
           LaunchDone \/ TakeChunk \/ BatchReady \/ DecodeOk \/ PassOver
    PROVE  TalkStep
<1>1. UNCHANGED <<queue, next_id, events, heard>>
  BY DEF LaunchDone, TakeChunk, BatchReady, DecodeOk, PassOver, stateVars
<1>2. \A s \in SlotIds : /\ slots'[s].id_task = slots[s].id_task
                         /\ slots'[s].produced = slots[s].produced
  <2> SUFFICES ASSUME NEW s \in SlotIds
               PROVE  /\ slots'[s].id_task = slots[s].id_task
                      /\ slots'[s].produced = slots[s].produced
    OBVIOUS
  <2>1. slots \in [SlotIds -> Slot] /\ slots[s] \in Slot
    BY DEF TypeOK
  <2>2. CASE LaunchDone
    BY <2>1, <2>2 DEF LaunchDone, Slot
  <2>3. CASE TakeChunk
    <3>1. slots' = [slots EXCEPT ![at].take = ChunkOf(at)]
      BY <2>3 DEF TakeChunk
    <3> QED
      BY <2>1, <3>1 DEF Slot
  <2>4. CASE DecodeOk
    <3>1. slots'[s] =
            IF s \in Decoding
            THEN [slots[s] EXCEPT !.n_past = @ + 1, !.pending = NoToken, !.logits = TRUE]
            ELSE IF s \in Chunked
            THEN [slots[s] EXCEPT !.n_past = @ + slots[s].take, !.take = 0,
                                  !.logits = LastChunk(s), !.generating = LastChunk(s)]
            ELSE slots[s]
      BY <2>4 DEF DecodeOk
    <3> QED
      BY <2>1, <3>1 DEF Slot
  <2>5. CASE BatchReady \/ PassOver
    BY <2>5 DEF BatchReady, PassOver, stateVars
  <2> QED
    BY <2>2, <2>3, <2>4, <2>5
<1>3. EventsOfSampling'
  <2>1. phase' = "sample" \/ phase # "sample"
    BY DEF LaunchDone, TakeChunk, BatchReady, DecodeOk, PassOver
  <2> QED
    BY <1>1, <2>1 DEF OrderInv, EventsOfSampling
<1> QED
  BY <1>1, <1>2, <1>3, SilentTalks

(* A slot is left: its task, which no other slot has, runs no more. *)
LEMMA LeavesItsSlot ==
    ASSUME TypeOK, OrderInv, NEW s \in Busy,
           slots' = [slots EXCEPT ![s] = IdleSlot]
    PROVE  /\ \A r \in SlotIds : slots'[r].id_task \in {slots[r].id_task, 0}
           /\ slots[s].id_task \in Ids /\ Runs(slots[s].id_task)
           /\ \A i \in Ids : Runs(i)' <=> Runs(i) /\ i # slots[s].id_task
           /\ slots'[s].id_task = 0 /\ slots'[s].produced = <<>>
           /\ \A r \in SlotIds \ {s} : /\ slots'[r] = slots[r]
                                      /\ \A i \in Ids : i = slots[r].id_task =>
                                             i # slots[s].id_task
<1>1. s \in SlotIds /\ slots[s].id_task # 0
  BY DEF Busy, Idle
<1>2. /\ slots'[s].id_task = 0 /\ slots'[s].produced = <<>>
      /\ \A r \in SlotIds \ {s} : slots'[r] = slots[r]
  BY <1>1 DEF TypeOK, IdleSlot
<1>3. slots[s].id_task \in Ids
  <2>1. slots[s].id_task < next_id /\ next_id <= MaxTasks + 1
    BY <1>1 DEF OrderInv, IdsGiven
  <2>2. slots[s].id_task \in Nat /\ next_id \in Nat /\ MaxTasks \in Nat
    BY <1>1, SlotsAssumption DEF TypeOK, Slot
  <2> QED
    BY <1>1, <2>1, <2>2 DEF Ids
<1>4. Runs(slots[s].id_task)
  BY DEF Runs
<1>5. \A i \in Ids : Runs(i)' <=> Runs(i) /\ i # slots[s].id_task
  <2> SUFFICES ASSUME NEW i \in Ids
               PROVE  Runs(i)' <=> Runs(i) /\ i # slots[s].id_task
    OBVIOUS
  <2>1. Busy' = Busy \ {s}
    BY <1>2 DEF Busy, Idle
  <2>2. \A r \in Busy' : r \in Busy /\ slots'[r].id_task = slots[r].id_task /\ r # s
    BY <1>2, <2>1 DEF Busy
  <2>3. Runs(i)' => Runs(i) /\ i # slots[s].id_task
    BY <2>2 DEF Runs, OrderInv, OneSlotEach
  <2>4. Runs(i) /\ i # slots[s].id_task => Runs(i)'
    BY <2>1, <1>2 DEF Runs, Busy
  <2> QED
    BY <2>3, <2>4
<1>6. \A r \in SlotIds \ {s} : \A i \in Ids : i = slots[r].id_task => i # slots[s].id_task
  BY <1>1 DEF OrderInv, OneSlotEach, Busy, Idle
<1> QED
  BY <1>1, <1>2, <1>3, <1>4, <1>5, <1>6

LEMMA CancelBusyTalks ==
    ASSUME TypeOK, OrderInv, NEW s \in SlotIds, CancelBusy(s)
    PROVE  TalkStep
<1> DEFINE id == slots[s].id_task
           e  == [kind |-> "interrupted", tok |-> NoToken]
<1>1. /\ s \in Busy /\ slots' = [slots EXCEPT ![s] = IdleSlot]
      /\ heard' = Tell(heard, id, "interrupted", NoToken)
      /\ events' = events /\ events = Quiet /\ phase' = phase
      /\ next_id' = next_id /\ queue' = queue
  BY DEF CancelBusy, updateVars, OrderInv, EventsOfSampling
<1>2. \A i \in Ids : TalkOf(i)
  <2> SUFFICES ASSUME NEW i \in Ids PROVE TalkOf(i)
    OBVIOUS
  <2>1. /\ i = id => heard'[i] = Append(heard[i], e)
        /\ i # id => heard'[i] = heard[i]
        /\ e \in Event /\ heard[i] \in Seq(Event)
        /\ events[i] = <<>>
    <3>1. heard \in [Ids -> Seq(Event)] /\ heard[i] \in Seq(Event)
      BY DEF TypeOK
    <3>2. e \in Event
      BY DEF Event, Endings
    <3> QED
      BY <1>1, <3>1, <3>2 DEF Tell, Quiet
  <2>2. Said(i) = heard[i] /\ heard'[i] \o events[i] = heard'[i]
    <3>1. heard'[i] \in Seq(Event)
      BY <2>1, AppendProperties
    <3>2. heard[i] \o <<>> = heard[i] /\ heard'[i] \o <<>> = heard'[i]
      BY <2>1, <3>1, ConcatEmptySeq
    <3> QED
      BY <2>1, <3>2, Zenon DEF Said
  <2>3. Said(i)' = heard'[i]
    BY <1>1, <2>2 DEF Said
  <2>4. CASE i # id
    <3>1. Runs(i) => Runs(i)'
      BY <1>1, <2>4, LeavesItsSlot
    <3>2. Said(i)' = Said(i)
      BY <2>1, <2>2, <2>3, <2>4
    <3> QED
      BY <3>1, <3>2 DEF TalkOf
  <2>5. CASE i = id
    <3>1. Runs(i) /\ ~Runs(i)'
      BY <1>1, <2>5, LeavesItsSlot
    <3>2. OnlyTokens(heard[i])
      BY <2>2, <3>1 DEF OrderInv, ToldInOrder
    <3>3. Closed(Append(heard[i], e))
      BY <2>1, <3>2, AndAnEnding DEF Endings
    <3>4. Closed(Said(i)')
      BY <2>1, <2>3, <2>5, <3>3
    <3> QED
      BY <3>1, <3>4 DEF TalkOf
  <2> QED
    BY <2>4, <2>5
<1>3. \A i \in Ids : i # id => Said(i)' = Said(i)
  <2> SUFFICES ASSUME NEW i \in Ids, i # id PROVE Said(i)' = Said(i)
    OBVIOUS
  <2> QED
    BY <1>1 DEF Said, Tell, TypeOK
<1>4. \A r \in SlotIds : Makes(r)
  BY <1>1, <1>3, LeavesItsSlot DEF Makes
<1>5. EventsOfSampling'
  BY <1>1 DEF EventsOfSampling
<1> QED
  BY <1>1, <1>2, <1>4, <1>5, LeavesItsSlot DEF TalkStep

(* The task of the slot the loop is at ends; evs are the events so far, with *)
(* or without a token of its own.                                            *)
LEMMA FinishTalks ==
    ASSUME TypeOK, OrderInv, Sampling,
           NEW evs \in [Ids -> Seq(Event)], NEW reason \in Endings,
           \A i \in Ids : \/ evs[i] = events[i]
                          \/ i = slots[at].id_task /\ OnlyTokens(heard[i] \o evs[i]),
           Finish(evs, reason)
    PROVE  TalkStep
<1> DEFINE id == slots[at].id_task
           e  == [kind |-> reason, tok |-> NoToken]
<1>1. /\ at \in Busy /\ slots' = [slots EXCEPT ![at] = IdleSlot]
      /\ events' = Tell(evs, id, reason, NoToken)
      /\ heard' = heard /\ phase' = "sample"
      /\ next_id' = next_id /\ queue' = queue
  BY SizesAssumption DEF Sampling, Finish, TypeOK, Busy, SlotIds, SeqIds
<1>2. \A i \in Ids : TalkOf(i)
  <2> SUFFICES ASSUME NEW i \in Ids PROVE TalkOf(i)
    OBVIOUS
  <2>1. /\ i = id => Said(i)' = Append(heard[i] \o evs[i], e)
        /\ i # id => Said(i)' = heard[i] \o evs[i]
        /\ e \in Event /\ heard[i] \o evs[i] \in Seq(Event)
    <3>1. heard[i] \o evs[i] \in Seq(Event)
      BY SaidType
    <3>2. e \in Event
      BY DEF Event
    <3>3. Said(i)' = heard[i] \o Tell(evs, id, reason, NoToken)[i]
      BY <1>1 DEF Said
    <3>4. Tell(evs, id, reason, NoToken)[i] = IF i = id THEN Append(evs[i], e) ELSE evs[i]
      BY DEF Tell
    <3>5. heard[i] \o Append(evs[i], e) = Append(heard[i] \o evs[i], e)
      <4>1. heard[i] \in Seq(Event) /\ evs[i] \in Seq(Event)
        BY SaidType
      <4> HIDE DEF e
      <4> QED
        BY <3>2, <4>1, ConcatOneMore
    <3>6. CASE i = id
      BY <3>1, <3>2, <3>3, <3>4, <3>5, <3>6, Zenon
    <3>7. CASE i # id
      BY <3>1, <3>2, <3>3, <3>4, <3>7, Zenon
    <3> QED
      BY <3>6, <3>7
  <2>2. CASE i # id
    <3>1. Runs(i) => Runs(i)'
      BY <1>1, <2>2, LeavesItsSlot
    <3>2. Said(i)' = Said(i)
      BY <2>1, <2>2 DEF Said
    <3> QED
      BY <3>1, <3>2 DEF TalkOf
  <2>3. CASE i = id
    <3>1. Runs(i) /\ ~Runs(i)'
      BY <1>1, <2>3, LeavesItsSlot
    <3>2. OnlyTokens(heard[i] \o evs[i])
      BY <3>1 DEF OrderInv, ToldInOrder, Said
    <3>3. Closed(Append(heard[i] \o evs[i], e))
      BY <2>1, <3>2, AndAnEnding
    <3>4. Closed(Said(i)')
      BY <2>1, <2>3, <3>3
    <3> QED
      BY <3>1, <3>4 DEF TalkOf
  <2> QED
    BY <2>2, <2>3
<1>3. \A i \in Ids : i # id => Said(i)' = Said(i)
  <2> SUFFICES ASSUME NEW i \in Ids, i # id PROVE Said(i)' = Said(i)
    OBVIOUS
  <2>1. events'[i] = evs[i]
    BY <1>1 DEF Tell
  <2> QED
    BY <1>1, <2>1 DEF Said
<1>4. \A r \in SlotIds : Makes(r)
  BY <1>1, <1>3, LeavesItsSlot DEF Makes
<1>5. EventsOfSampling'
  BY <1>1 DEF EventsOfSampling
<1> QED
  BY <1>1, <1>2, <1>4, <1>5, LeavesItsSlot DEF TalkStep

LEMMA SampleTokenTalks ==
    ASSUME TypeOK, OrderInv, NEW tok \in Sampled, NEW stopped \in BOOLEAN,
           SampleToken(tok, stopped)
    PROVE  TalkStep
<1> DEFINE id   == slots[at].id_task
           said == Tell(events, id, "token", tok)
           e    == [kind |-> "token", tok |-> tok]
<1>1. /\ Sampling /\ at \in Busy /\ tok \in Token
      /\ events \in [Ids -> Seq(Event)]
  BY SizesAssumption, SlotsAssumption
     DEF SampleToken, Sampling, TypeOK, Busy, SlotIds, SeqIds
<1>2. said \in [Ids -> Seq(Event)] /\ e \in Event
  BY <1>1, TellType DEF Event
<1>3. ASSUME NEW i \in Ids
      PROVE  /\ i # id => said[i] = events[i]
             /\ i = id => /\ heard[i] \o said[i] = Append(Said(i), e)
                          /\ Runs(i) /\ OnlyTokens(heard[i] \o said[i])
  <2>1. /\ i = id => heard[i] \o said[i] = Append(heard[i] \o events[i], e)
        /\ i # id => said[i] = events[i]
    <3>1. said[i] = IF i = id THEN Append(events[i], e) ELSE events[i]
      BY <1>1 DEF Tell
    <3>2. heard[i] \o Append(events[i], e) = Append(heard[i] \o events[i], e)
      BY <1>2, SaidType, ConcatOneMore
    <3> QED
      BY <3>1, <3>2
  <2>2. i = id => Runs(i)
    BY <1>1 DEF Runs
  <2>3. i = id => OnlyTokens(Append(Said(i), e))
    BY <1>2, <2>2, SaidType, OneMoreToken DEF OrderInv, ToldInOrder
  <2> QED
    BY <2>1, <2>2, <2>3 DEF Said
<1>4. CASE Finish(said, "stop") \/ Finish(said, "length")
  <2>1. \A i \in Ids : \/ said[i] = events[i]
                       \/ i = id /\ OnlyTokens(heard[i] \o said[i])
    BY <1>3
  <2> QED
    BY <1>1, <1>2, <1>4, <2>1, FinishTalks DEF Endings
<1>5. CASE /\ slots' = [slots EXCEPT ![at] =
                  [slots[at] EXCEPT !.produced = Append(@, tok), !.pending = tok,
                                    !.logits = FALSE]]
           /\ events' = said
           /\ at' = at + 1
           /\ UNCHANGED <<mem, phase, rows, heard>>
  <2>1. queue' = queue /\ next_id' = next_id /\ phase' = "sample"
    BY <1>1, <1>5 DEF Sampling
  <2>2. /\ slots'[at].id_task = id
        /\ slots'[at].produced = Append(slots[at].produced, tok)
        /\ \A r \in SlotIds \ {at} : slots'[r] = slots[r]
        /\ \A r \in SlotIds : slots'[r].id_task = slots[r].id_task
    <3>1. slots[at] \in Slot /\ slots \in [SlotIds -> Slot] /\ at \in SlotIds
      BY <1>1 DEF TypeOK, Busy
    <3> QED
      BY <1>5, <3>1 DEF Slot
  <2>3. \A i \in Ids : Said(i)' = heard[i] \o said[i] /\ (Runs(i)' <=> Runs(i))
    BY <1>5, <2>2 DEF Said, Runs, Busy, Idle
  <2>4. \A i \in Ids : TalkOf(i)
    <3> SUFFICES ASSUME NEW i \in Ids PROVE TalkOf(i)
      OBVIOUS
    <3>1. Said(i)' = Said(i) \/ (Runs(i) /\ OnlyTokens(Said(i)'))
      BY <1>3, <2>3 DEF Said
    <3> QED
      BY <2>3, <3>1 DEF TalkOf
  <2>5. \A r \in SlotIds : Makes(r)
    <3> SUFFICES ASSUME NEW r \in SlotIds PROVE Makes(r)
      OBVIOUS
    <3>1. CASE r = at
      <4>1. \A i \in Ids : i = slots[r].id_task => Said(i)' = Append(Said(i), e)
        BY <1>3, <2>3, <3>1
      <4>2. /\ ~Idle(r) /\ slots'[r].id_task = slots[r].id_task
            /\ slots'[r].produced = Append(slots[r].produced, tok)
        BY <1>1, <2>2, <3>1 DEF Busy
      <4> QED
        BY <1>1, <4>1, <4>2 DEF Makes
    <3>2. CASE r # at
      <4>1. \A i \in Ids : i = slots[r].id_task => i # id
        BY <1>1, <3>2 DEF OrderInv, OneSlotEach, Busy, Idle
      <4>2. \A i \in Ids : i = slots[r].id_task => Said(i)' = Said(i)
        BY <1>3, <2>3, <4>1 DEF Said
      <4> QED
        BY <2>2, <3>2, <4>2 DEF Makes
    <3> QED
      BY <3>1, <3>2
  <2>6. EventsOfSampling'
    BY <2>1 DEF EventsOfSampling
  <2> QED
    BY <2>1, <2>2, <2>4, <2>5, <2>6 DEF TalkStep
<1> QED
  BY <1>4, <1>5 DEF SampleToken

LEMMA SamplerThrowsTalks ==
    ASSUME TypeOK, OrderInv, SamplerThrows
    PROVE  TalkStep
<1>1. /\ slots' = [slots EXCEPT ![at].logits = FALSE]
      /\ Return(Quiet) /\ queue' = queue /\ next_id' = next_id
      /\ SamplerMayThrow
  BY DEF SamplerThrows, Sampling
<1>2. \A s \in SlotIds : slots'[s].id_task = slots[s].id_task
  <2> SUFFICES ASSUME NEW s \in SlotIds PROVE slots'[s].id_task = slots[s].id_task
    OBVIOUS
  <2>1. slots \in [SlotIds -> Slot] /\ slots[s] \in Slot
    BY DEF TypeOK
  <2> QED
    BY <1>1, <2>1 DEF Slot
<1>3. \A i \in Ids : TalkOf(i)
  <2> SUFFICES ASSUME NEW i \in Ids PROVE TalkOf(i)
    OBVIOUS
  <2>1. heard'[i] = heard[i] \o <<>> /\ events'[i] = <<>> /\ heard[i] \in Seq(Event)
    BY <1>1, SaidType DEF Return, Quiet
  <2>2. Said(i)' = heard[i]
    BY <2>1, ConcatEmptySeq DEF Said
  <2> QED
    BY <1>1, <2>2 DEF TalkOf
<1>4. EventsOfSampling'
  BY <1>1 DEF Return, EventsOfSampling
<1> QED
  BY <1>1, <1>2, <1>3, <1>4 DEF TalkStep

LEMMA DecodeFailsTalks ==
    ASSUME TypeOK, OrderInv, DecodeFails
    PROVE  TalkStep
<1> DEFINE e   == [kind |-> "error", tok |-> NoToken]
           evs == [i \in Ids |-> IF i \in Failed THEN Tell(events, i, "error", NoToken)[i]
                                 ELSE events[i]]
<1>1. /\ slots' = [s \in SlotIds |-> IF s \in InBatch THEN IdleSlot ELSE slots[s]]
      /\ Return(evs) /\ queue' = queue /\ next_id' = next_id
      /\ events = Quiet
  BY DEF DecodeFails, OrderInv, EventsOfSampling
<1>2. \A s \in SlotIds : slots'[s].id_task \in {slots[s].id_task, 0}
  BY <1>1 DEF IdleSlot
<1>3. \A i \in Failed \cap Ids : Runs(i) /\ ~Runs(i)'
  <2> SUFFICES ASSUME NEW i \in Ids, NEW s \in InBatch, i = slots[s].id_task
               PROVE  Runs(i) /\ ~Runs(i)'
    BY DEF Failed
  <2>1. s \in SlotIds /\ s \in Busy
    BY SlotsAssumption DEF InBatch, Decoding, Chunked, Busy, Idle, Ids
  <2>2. Runs(i)
    BY <2>1 DEF Runs
  <2>3. ASSUME NEW r \in Busy', slots'[r].id_task = i
        PROVE  FALSE
    <3>1. r \in SlotIds /\ slots'[r].id_task # 0
      BY <2>3 DEF Busy, Idle
    <3>2. r \notin InBatch /\ slots'[r] = slots[r]
      BY <1>1, <3>1 DEF IdleSlot
    <3>3. r \in Busy /\ slots[r].id_task = slots[s].id_task
      BY <2>3, <3>1, <3>2 DEF Busy, Idle
    <3> QED
      BY <2>1, <3>2, <3>3 DEF OrderInv, OneSlotEach
  <2>4. ~Runs(i)'
    BY <2>3 DEF Runs
  <2> QED
    BY <2>2, <2>4
<1>4. \A i \in Ids : i \notin Failed => Said(i)' = Said(i)
  <2> SUFFICES ASSUME NEW i \in Ids, i \notin Failed PROVE Said(i)' = Said(i)
    OBVIOUS
  <2>1. heard'[i] = heard[i] \o <<>> /\ events'[i] = <<>> /\ events[i] = <<>>
    BY <1>1 DEF Return, Quiet
  <2> QED
    BY <2>1, SaidType, ConcatEmptySeq DEF Said
<1>5. \A i \in Ids : TalkOf(i)
  <2> SUFFICES ASSUME NEW i \in Ids PROVE TalkOf(i)
    OBVIOUS
  <2>1. /\ heard'[i] = heard[i] \o evs[i] /\ events'[i] = <<>> /\ events[i] = <<>>
        /\ heard[i] \in Seq(Event) /\ e \in Event
    BY <1>1, SaidType DEF Return, Quiet, Event, Endings
  <2>2. Said(i) = heard[i] \o <<>> /\ Said(i) = heard[i]
    BY <2>1, ConcatEmptySeq DEF Said
  <2>3. CASE i \notin Failed
    <3>1. Said(i)' = Said(i)
      BY <1>4, <2>3
    <3>2. Runs(i) => Runs(i)'
      <4> SUFFICES ASSUME NEW s \in Busy, i = slots[s].id_task PROVE Runs(i)'
        BY DEF Runs
      <4>1. s \in SlotIds /\ s \notin InBatch
        BY <2>3 DEF Busy, Failed
      <4>2. slots'[s] = slots[s]
        BY <1>1, <4>1
      <4> QED
        BY <4>1, <4>2 DEF Runs, Busy, Idle
    <3> QED
      BY <3>1, <3>2 DEF TalkOf
  <2>4. CASE i \in Failed
    <3>1. evs[i] = Append(<<>>, e)
      BY <1>1, <2>1, <2>4 DEF Tell, Quiet
    <3>2. heard[i] \o Append(<<>>, e) = Append(heard[i], e)
      BY <2>1, <2>2, EmptySeq, ConcatOneMore
    <3>3. Said(i)' = Append(heard[i], e)
      <4>1. Append(heard[i], e) \in Seq(Event)
        BY <2>1, AppendProperties
      <4> QED
        BY <2>1, <3>1, <3>2, <4>1, ConcatEmptySeq DEF Said
    <3>4. Runs(i) /\ ~Runs(i)'
      BY <1>3, <2>4
    <3>5. OnlyTokens(heard[i])
      BY <2>2, <3>4 DEF OrderInv, ToldInOrder
    <3>6. Closed(Said(i)')
      BY <2>1, <3>3, <3>5, AndAnEnding DEF Endings
    <3> QED
      BY <3>4, <3>6 DEF TalkOf
  <2> QED
    BY <2>3, <2>4
<1>6. \A r \in SlotIds : Makes(r)
  <2> SUFFICES ASSUME NEW r \in SlotIds PROVE Makes(r)
    OBVIOUS
  <2>1. CASE r \in InBatch
    BY <1>1, <2>1 DEF Makes, IdleSlot
  <2>2. CASE r \notin InBatch
    <3>1. ASSUME NEW i \in Ids, i = slots[r].id_task
          PROVE  i \notin Failed
      <4> SUFFICES ASSUME NEW s \in InBatch, i = slots[s].id_task PROVE FALSE
        BY DEF Failed
      <4>1. s \in SlotIds
        BY DEF InBatch, Decoding, Chunked
      <4>2. slots[s].id_task # 0 /\ slots[r].id_task # 0
        BY <3>1, SlotsAssumption DEF Ids
      <4>3. s \in Busy /\ r \in Busy
        BY <4>1, <4>2 DEF Busy, Idle
      <4> QED
        BY <2>2, <3>1, <4>3 DEF OrderInv, OneSlotEach
    <3>2. slots'[r] = slots[r]
      BY <1>1, <2>2
    <3> QED
      BY <1>4, <3>1, <3>2 DEF Makes
  <2> QED
    BY <2>1, <2>2
<1>7. EventsOfSampling'
  BY <1>1 DEF Return, EventsOfSampling
<1> QED
  BY <1>1, <1>2, <1>5, <1>6, <1>7 DEF TalkStep

-----------------------------------------------------------------------------
(* Steps that change the queue. *)

\* What a step that changes the queue does not lose: a new task waits, one that
\* waited starts, or is closed; nothing else is said, and nothing produced.
QueueStep ==
    /\ next_id' \in {next_id, next_id + 1}
    /\ \A i \in Ids :
           /\ i = next_id /\ next_id' = next_id + 1 => Queued(i)'
           /\ Queued(i) => Queued(i)' \/ Runs(i)' \/ Closed(Said(i)')
           /\ ~Queued(i) => Said(i)' = Said(i)
           /\ Runs(i) => Runs(i)'
    /\ \A s \in SlotIds :
           /\ slots'[s].produced = slots[s].produced
           /\ slots'[s].id_task # slots[s].id_task =>
                  Idle(s) /\ \A i \in Ids : i = slots'[s].id_task => Said(i)' = <<>>

LEMMA ResetOrder ==
    ASSUME TypeOK, TypeOK', OrderInv, Reset
    PROVE  OrderInv'
<1>1. /\ queue' = <<>> /\ next_id' = 1 /\ heard' = Quiet
      /\ events' = Quiet /\ phase' = "host"
      /\ \A s \in SlotIds : slots'[s].id_task = 0
  BY DEF Reset, updateVars, OrderInv, EventsOfSampling, IdleSlot
<1>2. DOMAIN queue' = {}
  BY <1>1
<1>3. \A i \in Ids : Said(i)' = <<>> /\ ~Queued(i)' /\ ~Runs(i)'
  <2>1. <<>> \o <<>> = <<>>
    OBVIOUS
  <2> QED
    BY <1>1, <1>2, <2>1 DEF Said, Quiet, Queued, Runs, Busy, Idle
<1>4. IdsGiven'
  BY <1>1, <1>2, <1>3, SlotsAssumption DEF IdsGiven
<1>5. InOrder' /\ OneSlotEach' /\ EventsOfSampling'
  BY <1>1, <1>2 DEF InOrder, OneSlotEach, Busy, Idle, EventsOfSampling
<1>6. ToldInOrder'
  BY <1>3, NothingIsOnlyTokens DEF ToldInOrder, OnlyTokens, Closed
<1> QED
  BY <1>4, <1>5, <1>6 DEF OrderInv

LEMMA PostOrder ==
    ASSUME TypeOK, TypeOK', OrderInv, NEW prompt \in Prompt, NEW n \in NPredict,
           Post(prompt, n)
    PROVE  OrderInv' /\ QueueStep
<1> DEFINE t == [id |-> next_id, prompt |-> prompt, budget |-> BudgetOf(prompt, n)]
           m == Len(queue)
<1>1. /\ next_id' = next_id + 1 /\ next_id <= MaxTasks
      /\ queue' = Append(queue, t) /\ slots' = slots
      /\ heard' = heard /\ events' = events /\ phase' = phase
      /\ next_id \in Nat \ {0} /\ MaxTasks \in Nat
  BY SlotsAssumption DEF Post, updateVars, TypeOK
<1>2. t \in Task
  BY <1>1, BudgetType, SlotsAssumption DEF Task
<1>3. /\ m \in Nat /\ DOMAIN queue = 1 .. m /\ DOMAIN queue' = 1 .. m + 1
      /\ \A k \in 1 .. m : queue'[k] = queue[k]
      /\ queue'[m + 1].id = next_id
      /\ \A k \in 1 .. m : queue[k].id \in Nat
  <2>1. queue \in Seq(Task)
    BY DEF TypeOK
  <2> QED
    BY <1>1, <1>2, <2>1, QueueAndSlotIds, AppendProperties, LenProperties
<1>4. /\ next_id <= MaxTasks + 1
      /\ \A k \in 1 .. m : queue[k].id < next_id
      /\ \A s \in SlotIds : slots[s].id_task < next_id /\ slots[s].id_task \in Nat
      /\ \A i \in Ids : i >= next_id => Said(i) = <<>>
  BY <1>3, QueueAndSlotIds DEF OrderInv, IdsGiven
<1>5. \A i \in Ids : /\ Said(i)' = Said(i) /\ (Runs(i)' <=> Runs(i))
                     /\ Spoken(i)' <=> Spoken(i)
  BY <1>1 DEF Said, Runs, Busy, Idle, Spoken
<1>6. \A i \in Ids : Spoken(i) => i < next_id
  BY <1>1, <1>4, EmptySeq DEF Spoken, Ids
<1>7. \A i \in Ids : Queued(i)' => Queued(i) \/ i = next_id
  BY <1>3 DEF Queued
<1>8. IdsGiven'
  BY <1>1, <1>3, <1>4, <1>5 DEF IdsGiven, Ids
<1>9. InOrder'
  <2>1. ASSUME NEW j \in 1 .. m + 1, NEW k \in 1 .. m + 1, j < k
        PROVE  queue'[j].id < queue'[k].id
    <3>1. j \in 1 .. m /\ queue'[j] = queue[j]
      BY <1>3, <2>1
    <3>2. CASE k = m + 1
      BY <1>3, <1>4, <3>1, <3>2
    <3>3. CASE k \in 1 .. m
      BY <1>3, <2>1, <3>1, <3>3 DEF OrderInv, InOrder
    <3> QED
      BY <3>2, <3>3
  <2>2. \A k \in 1 .. m + 1, s \in SlotIds : slots[s].id_task < queue'[k].id
    BY <1>3, <1>4 DEF OrderInv, InOrder
  <2>3. \A k \in 1 .. m + 1, i \in Ids : Spoken(i) => i < queue'[k].id
    BY <1>3, <1>6 DEF OrderInv, InOrder
  <2> QED
    BY <1>1, <1>3, <1>5, <2>1, <2>2, <2>3 DEF InOrder
<1>10. OneSlotEach' /\ EventsOfSampling'
  BY <1>1 DEF OrderInv, OneSlotEach, Busy, Idle, EventsOfSampling
<1>11. ToldInOrder'
  <2>1. \A i \in Ids : i = next_id => Said(i) = <<>>
    BY <1>1, <1>4
  <2> QED
    BY <1>5, <1>7, <2>1 DEF OrderInv, ToldInOrder, OnlyTokens, Closed
<1>12. QueueStep
  <2>1. \A i \in Ids : (i = next_id => Queued(i)') /\ (Queued(i) => Queued(i)')
    BY <1>3 DEF Queued
  <2> QED
    BY <1>1, <1>5, <2>1 DEF QueueStep
<1> QED
  BY <1>8, <1>9, <1>10, <1>11, <1>12 DEF OrderInv

LEMMA CancelQueuedOrder ==
    ASSUME TypeOK, TypeOK', OrderInv, NEW i \in DOMAIN queue, CancelQueued(i)
    PROVE  OrderInv' /\ QueueStep
<1> DEFINE m  == Len(queue)
           e  == [kind |-> "dropped", tok |-> NoToken]
<1>1. /\ next_id' = next_id /\ slots' = slots /\ events' = events /\ phase' = phase
      /\ heard' = Tell(heard, queue[i].id, "dropped", NoToken)
      /\ events = Quiet /\ phase = "host"
  BY DEF CancelQueued, updateVars, OrderInv, EventsOfSampling
<1>2. /\ m \in Nat /\ DOMAIN queue = 1 .. m /\ i \in 1 .. m
      /\ \A k \in 1 .. m : queue[k].id \in Nat \ {0}
      /\ DOMAIN queue' = 1 .. m - 1
      /\ \A k \in 1 .. m - 1 : queue'[k] = IF k < i THEN queue[k] ELSE queue[k + 1]
  <2>1. queue \in Seq(Task) /\ i \in 1 .. m
    BY QueueAndSlotIds DEF TypeOK
  <2>2. queue' = SubSeq(queue, 1, i - 1) \o SubSeq(queue, i + 1, m)
    BY DEF CancelQueued
  <2> QED
    BY <2>1, <2>2, OneTaskLess, QueueAndSlotIds
<1>3. /\ next_id \in Nat /\ next_id <= MaxTasks + 1 /\ MaxTasks \in Nat
      /\ \A k \in 1 .. m : queue[k].id < next_id
      /\ \A j, k \in 1 .. m : j < k => queue[j].id < queue[k].id
  BY <1>2, SlotsAssumption DEF OrderInv, IdsGiven, InOrder, TypeOK
<1>4. \A k \in 1 .. m - 1 : \E j \in 1 .. m : queue'[k] = queue[j] /\ j # i
  BY <1>2
<1>id. queue[i].id \in Ids
  BY <1>2, <1>3 DEF Ids
<1> PICK id \in Ids : id = queue[i].id
  BY <1>id
<1>5. \A k \in 1 .. m - 1 : queue'[k].id # id
  BY <1>2, <1>3, <1>4
<1>6. Queued(id) /\ ~Queued(id)'
  BY <1>2, <1>5 DEF Queued
<1>7. Said(id)' = <<e>>
  <2>1. heard[id] \o <<>> = <<>> /\ heard[id] \in Seq(Event) /\ e \in Event
    BY <1>1, <1>6, SaidType DEF OrderInv, ToldInOrder, Said, Quiet, Event, Endings
  <2>2. heard[id] = <<>>
    BY <2>1, ConcatEmptySeq
  <2>3. heard'[id] = Append(<<>>, e) /\ events'[id] = <<>>
    BY <1>1, <1>6, <2>2 DEF Tell, Quiet, TypeOK
  <2>4. Append(<<>>, e) = <<e>>
    OBVIOUS
  <2>5. <<e>> \in Seq(Event)
    BY <2>1
  <2> QED
    BY <2>3, <2>4, <2>5, ConcatEmptySeq DEF Said
<1>8. /\ Closed(Said(id)') /\ ~Spoken(id)'
  <2>1. Len(<<e>>) = 1 /\ <<e>>[1] = e /\ <<e>> # <<>>
    OBVIOUS
  <2>2. Closed(<<e>>)
    BY <2>1 DEF Closed, Endings
  <2> QED
    BY <1>7, <2>1, <2>2 DEF Spoken
<1>9. \A j \in Ids : j # id => Said(j)' = Said(j)
  BY <1>1 DEF Said, Tell, TypeOK
<1>10. IdsGiven'
  <2>1. \A k \in DOMAIN queue' : queue'[k].id < next_id'
    BY <1>1, <1>2, <1>3, <1>4
  <2>2. \A s \in SlotIds : slots'[s].id_task < next_id'
    BY <1>1 DEF OrderInv, IdsGiven
  <2>3. id < next_id
    BY <1>2, <1>3
  <2>4. \A j \in Ids : j >= next_id => Said(j)' = <<>>
    <3>1. \A j \in Ids : j >= next_id => j # id /\ Said(j) = <<>>
      BY <1>3, <2>3 DEF OrderInv, IdsGiven, Ids
    <3> QED
      BY <1>9, <3>1
  <2> QED
    BY <1>1, <1>3, <2>1, <2>2, <2>4 DEF IdsGiven
<1>11. InOrder'
  <2>1. ASSUME NEW j \in 1 .. m - 1, NEW k \in 1 .. m - 1, j < k
        PROVE  queue'[j].id < queue'[k].id
    <3>1. \E g, h \in 1 .. m : g < h /\ queue'[j] = queue[g] /\ queue'[k] = queue[h]
      <4>1. CASE k < i
        BY <1>2, <2>1, <4>1
      <4>2. CASE ~(k < i) /\ j < i
        BY <1>2, <2>1, <4>2
      <4>3. CASE ~(j < i)
        BY <1>2, <2>1, <4>3
      <4> QED
        BY <4>1, <4>2, <4>3
    <3> QED
      BY <1>3, <3>1
  <2>2. \A k \in 1 .. m - 1, s \in SlotIds : slots[s].id_task < queue'[k].id
    BY <1>2, <1>4 DEF OrderInv, InOrder
  <2>3. \A j \in Ids : Spoken(j)' => Spoken(j)
    BY <1>8, <1>9 DEF Spoken
  <2>4. \A k \in 1 .. m - 1, j \in Ids : Spoken(j)' => j < queue'[k].id
    BY <1>2, <1>4, <2>3 DEF OrderInv, InOrder
  <2> QED
    BY <1>1, <1>2, <2>1, <2>2, <2>4 DEF InOrder
<1>12. OneSlotEach' /\ EventsOfSampling'
  BY <1>1 DEF OrderInv, OneSlotEach, Busy, Idle, EventsOfSampling
<1>13. ToldInOrder'
  <2> SUFFICES ASSUME NEW j \in Ids
               PROVE  /\ Queued(j)' => Said(j)' = <<>>
                      /\ Runs(j)' => OnlyTokens(Said(j)')
                      /\ OnlyTokens(Said(j)') \/ Closed(Said(j)')
    BY DEF ToldInOrder, OnlyTokens, Closed
  <2>1. Queued(j)' => Queued(j)
    BY <1>2, <1>4 DEF Queued
  <2>2. Runs(j)' <=> Runs(j)
    BY <1>1 DEF Runs, Busy, Idle
  <2>3. ~Runs(id)
    <3> SUFFICES ASSUME NEW s \in SlotIds, slots[s].id_task = queue[i].id PROVE FALSE
      BY DEF Runs, Busy
    <3> QED
      BY <1>2 DEF OrderInv, InOrder
  <2>4. CASE j = id
    BY <1>6, <1>8, <2>2, <2>3, <2>4
  <2>5. CASE j # id
    BY <1>9, <2>1, <2>2, <2>5, Zenon DEF OrderInv, ToldInOrder
  <2> QED
    BY <2>4, <2>5
<1>14. QueueStep
  <2>1. \A j \in Ids : j # id /\ Queued(j) => Queued(j)'
    <3> SUFFICES ASSUME NEW k \in 1 .. m, queue[k].id # id
                 PROVE  \E h \in 1 .. m - 1 : queue'[h] = queue[k]
      BY <1>2 DEF Queued
    <3>1. CASE k < i
      BY <1>2, <3>1
    <3>2. CASE k > i
      <4>1. k - 1 \in 1 .. m - 1 /\ ~(k - 1 < i) /\ (k - 1) + 1 = k
        BY <1>2, <3>2
      <4>2. queue'[k - 1] = queue[k]
        BY <1>2, <4>1
      <4> QED
        BY <4>1, <4>2
    <3> QED
      BY <1>2, <3>1, <3>2
  <2>2. \A j \in Ids : Runs(j) => Runs(j)'
    BY <1>1 DEF Runs, Busy, Idle
  <2>3. \A j \in Ids : Queued(j) => Queued(j)' \/ Runs(j)' \/ Closed(Said(j)')
    BY <1>8, <2>1
  <2>4. \A j \in Ids : ~Queued(j) => Said(j)' = Said(j)
    BY <1>6, <1>9
  <2>5. next_id' # next_id + 1
    BY <1>1, <1>3
  <2> QED
    BY <1>1, <2>2, <2>3, <2>4, <2>5 DEF QueueStep
<1> QED
  BY <1>10, <1>11, <1>12, <1>13, <1>14 DEF OrderInv

LEMMA LaunchHeadOrder ==
    ASSUME TypeOK, TypeOK', OrderInv, LaunchHead
    PROVE  OrderInv' /\ QueueStep
<1> DEFINE m == Len(queue)
<1>1. /\ next_id' = next_id /\ heard' = heard /\ events' = events /\ phase' = phase
      /\ queue' = Tail(queue)
  BY DEF LaunchHead, updateVars
<1> PICK s \in SlotIds : s = FirstFree /\ Idle(s)
  BY FirstFreeType DEF LaunchHead, CanLaunch, FreeSlots
<1>2. /\ m \in Nat /\ DOMAIN queue = 1 .. m /\ m >= 1
      /\ \A k \in 1 .. m : queue[k].id \in Nat \ {0}
      /\ DOMAIN queue' = 1 .. m - 1
      /\ \A k \in 1 .. m - 1 : queue'[k] = queue[k + 1]
      /\ Head(queue) = queue[1]
  <2>1. queue \in Seq(Task) /\ queue # <<>>
    BY DEF TypeOK, LaunchHead, CanLaunch
  <2>2. /\ Tail(queue) \in Seq(Task) /\ Len(Tail(queue)) = m - 1
        /\ \A k \in 1 .. m - 1 : Tail(queue)[k] = queue[k + 1]
    BY <2>1, HeadTailProperties
  <2>3. DOMAIN Tail(queue) = 1 .. m - 1
    BY <2>2, LenProperties
  <2>4. Head(queue) = queue[1] /\ m >= 1
    BY <2>1, EmptySeq
  <2> QED
    BY <1>1, <2>2, <2>3, <2>4, QueueAndSlotIds
<1>3. /\ next_id \in Nat /\ next_id <= MaxTasks + 1 /\ MaxTasks \in Nat
      /\ \A k \in 1 .. m : queue[k].id < next_id
      /\ \A j, k \in 1 .. m : j < k => queue[j].id < queue[k].id
      /\ \A r \in SlotIds, k \in 1 .. m : slots[r].id_task < queue[k].id
      /\ \A r \in SlotIds : slots[r].id_task < next_id /\ slots[r].id_task \in Nat
  BY <1>2, QueueAndSlotIds, SlotsAssumption DEF OrderInv, IdsGiven, InOrder, TypeOK
<1>4. queue[1].id \in Ids /\ \A k \in 1 .. m - 1 : queue[1].id < queue'[k].id
  BY <1>2, <1>3 DEF Ids
<1> PICK id \in Ids : id = queue[1].id
  BY <1>4
<1>5. /\ slots'[s].id_task = id /\ slots'[s].produced = slots[s].produced
      /\ \A r \in SlotIds \ {s} : slots'[r] = slots[r]
  <2>1. slots \in [SlotIds -> Slot] /\ slots[s] \in Slot
    BY DEF TypeOK
  <2>2. slots' = [slots EXCEPT ![s] =
          [@ EXCEPT !.id_task = Head(queue).id, !.prompt = Head(queue).prompt,
                    !.budget = Head(queue).budget,
                    !.generating = FALSE, !.n_cached = Reused(Head(queue).prompt),
                    !.n_past = Reused(Head(queue).prompt),
                    !.pending = NoToken, !.logits = FALSE]]
    BY DEF LaunchHead
  <2>3. \A r \in SlotIds \ {s} : slots'[r] = slots[r]
    BY <2>1, <2>2
  <2>4. slots'[s].id_task = Head(queue).id /\ slots'[s].produced = slots[s].produced
    BY <2>1, <2>2 DEF Slot
  <2> QED
    BY <1>2, <2>3, <2>4
<1>6. \A i \in Ids : Said(i)' = Said(i) /\ (Spoken(i)' <=> Spoken(i))
  BY <1>1 DEF Said, Spoken
<1>7. Said(id) = <<>>
  <2>1. Queued(id)
    BY <1>2 DEF Queued
  <2> QED
    BY <2>1 DEF OrderInv, ToldInOrder
<1>8. IdsGiven'
  <2>1. \A k \in 1 .. m - 1 : queue'[k].id < next_id
    BY <1>2, <1>3
  <2>2. \A r \in SlotIds : slots'[r].id_task < next_id
    BY <1>2, <1>3, <1>5
  <2> QED
    BY <1>1, <1>2, <1>6, <2>1, <2>2 DEF OrderInv, IdsGiven
<1>9. InOrder'
  <2>1. \A j, k \in 1 .. m - 1 : j < k => queue'[j].id < queue'[k].id
    BY <1>2, <1>3
  <2>2. \A k \in 1 .. m - 1, r \in SlotIds : slots'[r].id_task < queue'[k].id
    BY <1>2, <1>3, <1>4, <1>5
  <2>3. \A k \in 1 .. m - 1, i \in Ids : Spoken(i)' => i < queue'[k].id
    BY <1>2, <1>6 DEF OrderInv, InOrder
  <2> QED
    BY <1>2, <2>1, <2>2, <2>3 DEF InOrder
<1>10. \A r \in SlotIds : slots[r].id_task # id
  BY <1>2, <1>3
<1>11. OneSlotEach'
  BY <1>5, <1>10 DEF OrderInv, OneSlotEach, Busy, Idle
<1>12. EventsOfSampling'
  BY <1>1 DEF OrderInv, EventsOfSampling
<1>13. ToldInOrder'
  <2>1. \A i \in Ids : Queued(i)' => Queued(i)
    <3>1. \A k \in 1 .. m - 1 : k + 1 \in 1 .. m
      BY <1>2
    <3> QED
      BY <1>2, <3>1 DEF Queued
  <2>2. \A i \in Ids : Runs(i)' => Runs(i) \/ i = id
    BY <1>5 DEF Runs, Busy, Idle
  <2> SUFFICES ASSUME NEW i \in Ids
               PROVE  /\ Queued(i)' => Said(i)' = <<>>
                      /\ Runs(i)' => OnlyTokens(Said(i)')
                      /\ OnlyTokens(Said(i)') \/ Closed(Said(i)')
    BY DEF ToldInOrder, OnlyTokens, Closed
  <2>3. CASE i = id
    BY <1>6, <1>7, <2>3, NothingIsOnlyTokens
  <2>4. CASE i # id
    BY <1>6, <2>1, <2>2, <2>4 DEF OrderInv, ToldInOrder
  <2> QED
    BY <2>3, <2>4
<1>14. QueueStep
  <2>1. \A i \in Ids : Queued(i) => Queued(i)' \/ Runs(i)'
    <3> SUFFICES ASSUME NEW k \in 1 .. m, queue[k].id # id
                 PROVE  \E h \in 1 .. m - 1 : queue'[h] = queue[k]
      <4>1. id # 0 /\ Runs(id)'
        BY <1>2, <1>5 DEF Runs, Busy, Idle
      <4> QED
        BY <1>2, <4>1 DEF Queued
    <3>1. k - 1 \in 1 .. m - 1 /\ (k - 1) + 1 = k
      BY <1>2
    <3>2. queue'[k - 1] = queue[k]
      BY <1>2, <3>1
    <3> QED
      BY <3>1, <3>2
  <2>2. \A i \in Ids : Runs(i) => Runs(i)'
    BY <1>5 DEF Runs, Busy, Idle
  <2>3. next_id' # next_id + 1
    BY <1>1, <1>3
  <2> QED
    BY <1>1, <1>5, <1>6, <1>7, <2>1, <2>2, <2>3 DEF QueueStep
<1> QED
  BY <1>8, <1>9, <1>11, <1>12, <1>13, <1>14 DEF OrderInv

-----------------------------------------------------------------------------

LEMMA InitOrder == Init => OrderInv
<1> SUFFICES ASSUME Init PROVE OrderInv
  OBVIOUS
<1>1. /\ queue = <<>> /\ DOMAIN queue = {} /\ next_id = 1
      /\ heard = Quiet /\ events = Quiet
      /\ \A s \in SlotIds : slots[s].id_task = 0
  BY DEF Init, IdleSlot
<1>2. \A i \in Ids : Said(i) = <<>> /\ ~Queued(i) /\ ~Runs(i)
  <2>1. <<>> \o <<>> = <<>>
    OBVIOUS
  <2> QED
    BY <1>1, <2>1 DEF Said, Quiet, Queued, Runs, Busy, Idle
<1>3. IdsGiven
  BY <1>1, <1>2, SlotsAssumption DEF IdsGiven
<1>4. InOrder /\ OneSlotEach /\ EventsOfSampling
  BY <1>1 DEF InOrder, OneSlotEach, Busy, Idle, EventsOfSampling
<1>5. ToldInOrder
  BY <1>2, NothingIsOnlyTokens DEF ToldInOrder
<1> QED
  BY <1>3, <1>4, <1>5 DEF OrderInv

LEMMA TalkSteps ==
    ASSUME IInv, OrderInv, [Next]_vars,
           ~(\E prompt \in Prompt, n \in NPredict : Post(prompt, n)),
           ~(\E i \in DOMAIN queue : CancelQueued(i)),
           ~Reset, ~LaunchHead
    PROVE  TalkStep
<1>1. TypeOK
  BY DEF IInv
<1>2. CASE HostCall
  BY <1>1, <1>2, CancelBusyTalks, HostCallsTalk DEF HostCall
<1>3. CASE UpdateBegin
  BY <1>1, <1>3, UpdateBeginTalks
<1>4. CASE LaunchDone \/ TakeChunk \/ BatchReady \/ DecodeOk \/ PassOver
  BY <1>1, <1>4, BatchTalks
<1>5. CASE NothingToDecode \/ UpdateDone
  BY <1>1, <1>5, ReturnTalks DEF NothingToDecode, UpdateDone
<1>6. CASE DecodeFails \/ SamplerThrows
  BY <1>1, <1>6, DecodeFailsTalks, SamplerThrowsTalks
<1>7. CASE NoBudget \/ SampleEos
  <2>1. Sampling /\ (Finish(events, "length") \/ Finish(events, "eos"))
    BY <1>7 DEF NoBudget, SampleEos
  <2>2. events \in [Ids -> Seq(Event)]
    BY <1>1 DEF TypeOK
  <2> QED
    BY <1>1, <2>1, <2>2, FinishTalks DEF Endings
<1>8. CASE \E tok \in Sampled, stopped \in BOOLEAN : SampleToken(tok, stopped)
  BY <1>1, <1>8, SampleTokenTalks
<1>9. CASE UNCHANGED vars
  <2>1. UNCHANGED <<queue, next_id, slots, phase, events, heard>>
    BY <1>9 DEF vars, stateVars, updateVars
  <2>2. EventsOfSampling'
    BY <2>1 DEF OrderInv, EventsOfSampling
  <2> QED
    BY <1>1, <2>1, <2>2, SilentTalks
<1> QED
  BY <1>2, <1>3, <1>4, <1>5, <1>6, <1>7, <1>8, <1>9 DEF Next, UpdateStep

LEMMA NextOrder == IInv /\ OrderInv /\ [Next]_vars => OrderInv'
<1> SUFFICES ASSUME IInv, OrderInv, [Next]_vars PROVE OrderInv'
  OBVIOUS
<1>1. TypeOK /\ TypeOK'
  BY NextIInv DEF IInv
<1> QED
  BY <1>1, PostOrder, CancelQueuedOrder, ResetOrder, LaunchHeadOrder, TalkSteps,
     TalkKeepsOrder

(* A task's last event is its final or its error and there is only one: once *)
(* it is told, nothing more is, whatever fails or throws on the way.         *)
THEOREM EndingsAreLast == Spec => []NothingAfterTheEnd
<1>1. IInv /\ OrderInv => NothingAfterTheEnd
  <2> SUFFICES ASSUME IInv, OrderInv, NEW i \in Ids,
                      NEW k \in 1 .. Len(heard[i] \o events[i]) - 1
               PROVE  (heard[i] \o events[i])[k].kind = "token"
    BY DEF NothingAfterTheEnd
  <2>1. OnlyTokens(Said(i)) \/ Closed(Said(i))
    BY DEF OrderInv, ToldInOrder
  <2>2. Len(Said(i)) \in Nat
    BY SaidType, LenProperties DEF IInv
  <2>3. k \in 1 .. Len(Said(i)) - 1
    BY DEF Said
  <2>4. Said(i)[k].kind = "token"
    BY <2>1, <2>2, <2>3 DEF OnlyTokens, Closed
  <2> QED
    BY <2>4 DEF Said
<1> QED
  BY <1>1, InitIInv, NextIInv, InitOrder, NextOrder, PTL DEF Spec

(* Tasks start in the order they were posted: one that waits is younger than *)
(* every task that runs or was launched, whatever was cancelled meanwhile.   *)
THEOREM FirstComeFirstServed == Spec => []NoOvertaking
<1>1. IInv /\ OrderInv => NoOvertaking
  <2> SUFFICES ASSUME IInv, OrderInv PROVE NoOvertaking
    OBVIOUS
  <2>1. \A j, k \in DOMAIN queue : j < k => queue[j].id < queue[k].id
    BY DEF OrderInv, InOrder
  <2>2. ASSUME NEW k \in DOMAIN queue, NEW i \in Ids, Runs(i)
        PROVE  i < queue[k].id
    BY <2>2 DEF Runs, Busy, OrderInv, InOrder
  <2>3. ASSUME NEW k \in DOMAIN queue, NEW i \in Ids,
               Ended(i), heard[i][Len(heard[i])].kind # "dropped"
        PROVE  i < queue[k].id
    <3>1. heard[i] \in Seq(Event) /\ events[i] \in Seq(Event) /\ heard[i] # <<>>
      BY <2>3, SaidType DEF IInv, Ended
    <3>2. Len(heard[i]) \in 1 .. Len(heard[i])
      BY <3>1, EmptySeq
    <3>3. \A l \in 1 .. Len(heard[i]) : l \in 1 .. Len(Said(i)) /\ Said(i)[l] = heard[i][l]
      BY <3>1, WhatWasHeard DEF OrderInv, ToldInOrder, Said
    <3>4. Spoken(i)
      BY <2>3, <3>2, <3>3 DEF Spoken
    <3> QED
      BY <3>4 DEF OrderInv, InOrder
  <2> QED
    BY <2>1, <2>2, <2>3 DEF NoOvertaking
<1> QED
  BY <1>1, InitIInv, NextIInv, InitOrder, NextOrder, PTL DEF Spec

-----------------------------------------------------------------------------
(* With samplers that do not throw, no task is lost and no token goes       *)
(* unreported.  (One that throws loses the events of the update, those of   *)
(* the other tasks included: Slots!SamplerThrows.)                          *)

LEMMA QueueSteps ==
    ASSUME IInv, OrderInv,
           \/ \E prompt \in Prompt, n \in NPredict : Post(prompt, n)
           \/ \E i \in DOMAIN queue : CancelQueued(i)
           \/ LaunchHead
    PROVE  QueueStep
<1>1. [Next]_vars
  BY DEF Next, HostCall, UpdateStep
<1>2. TypeOK /\ TypeOK'
  BY <1>1, NextIInv DEF IInv
<1> QED
  BY <1>2, PostOrder, CancelQueuedOrder, LaunchHeadOrder

LEMMA InitAccounts == Init => Accounted /\ TokensMatch
<1> SUFFICES ASSUME Init PROVE Accounted /\ TokensMatch
  OBVIOUS
<1>1. next_id = 1 /\ \A s \in SlotIds : slots[s].id_task = 0 /\ slots[s].produced = <<>>
  BY DEF Init, IdleSlot
<1> QED
  BY <1>1 DEF Accounted, TokensMatch, Busy, Idle

LEMMA NextAccounts ==
    ASSUME ~SamplerMayThrow, IInv, OrderInv, Accounted, [Next]_vars
    PROVE  Accounted'
<1>1. /\ next_id \in Nat \ {0} /\ next_id' \in Nat \ {0}
      /\ next_id <= MaxTasks + 1 /\ next_id' <= MaxTasks + 1 /\ MaxTasks \in Nat
  BY NextIInv, NextOrder, SlotsAssumption DEF IInv, TypeOK, OrderInv, IdsGiven
<1>2. PICK given \in Nat : given = next_id'
  BY <1>1
<1>3. given <= MaxTasks + 1
  BY <1>1, <1>2
<1> SUFFICES ASSUME NEW i \in 1 .. given - 1
             PROVE  Queued(i)' \/ Runs(i)' \/ Closed(Said(i)')
  BY <1>2 DEF Accounted, Closed
<1>4. i \in Ids /\ i < given /\ given # 1
  <2> HIDE <1>2
  <2> QED
    BY <1>1, <1>3 DEF Ids
<1>5. CASE QueueStep
  <2>1. CASE i = next_id
    BY <1>1, <1>2, <1>4, <1>5, <2>1 DEF QueueStep
  <2>2. CASE i # next_id
    <3>1. i \in 1 .. next_id - 1
      BY <1>1, <1>2, <1>4, <1>5, <2>2 DEF QueueStep, Ids
    <3>2. Queued(i) \/ Runs(i) \/ Closed(Said(i))
      BY <3>1 DEF Accounted
    <3> QED
      BY <1>4, <1>5, <3>2 DEF QueueStep
  <2> QED
    BY <2>1, <2>2
<1>6. CASE TalkStep
  <2>1. i \in 1 .. next_id - 1 /\ TalkOf(i) /\ queue' = queue
    BY <1>1, <1>2, <1>4, <1>6 DEF TalkStep, Ids
  <2>2. Queued(i) \/ Runs(i) \/ Closed(Said(i))
    BY <2>1 DEF Accounted
  <2>3. CASE Queued(i)
    BY <2>1, <2>3 DEF Queued
  <2>4. CASE Runs(i) \/ Closed(Said(i))
    BY <2>1, <2>4 DEF TalkOf
  <2> QED
    BY <2>2, <2>3, <2>4
<1>7. ~Reset
  BY <1>2, <1>4 DEF Reset
<1> QED
  BY <1>5, <1>6, <1>7, QueueSteps, TalkSteps

(* A text told token by token, and one token more. *)
LEMMA ToldOneMore ==
    ASSUME NEW made \in Seq(Token), NEW tok \in Token
    PROVE  Append([k \in 1 .. Len(made) |-> [kind |-> "token", tok |-> made[k]]],
                  [kind |-> "token", tok |-> tok])
             = [k \in 1 .. Len(Append(made, tok)) |->
                   [kind |-> "token", tok |-> Append(made, tok)[k]]]
<1> DEFINE n    == Len(made)
           told == [k \in 1 .. n |-> [kind |-> "token", tok |-> made[k]]]
           e    == [kind |-> "token", tok |-> tok]
           more == [k \in 1 .. n + 1 |-> [kind |-> "token", tok |-> Append(made, tok)[k]]]
<1>1. /\ n \in Nat /\ Len(Append(made, tok)) = n + 1
      /\ \A k \in 1 .. n : made[k] \in Token /\ Append(made, tok)[k] = made[k]
      /\ Append(made, tok)[n + 1] = tok
  BY LenProperties, AppendProperties, ElementOfSeq
<1>2. e \in Event /\ \A k \in 1 .. n : [kind |-> "token", tok |-> made[k]] \in Event
  BY <1>1 DEF Event
<1>3. told \in [1 .. n -> Event]
  BY <1>2
<1>4. told \in Seq(Event) /\ Len(told) = n
  BY <1>1, <1>3, SeqDef
<1>5. /\ Append(told, e) \in Seq(Event) /\ Len(Append(told, e)) = n + 1
      /\ \A k \in 1 .. n : Append(told, e)[k] = told[k]
      /\ Append(told, e)[n + 1] = e
  BY <1>2, <1>4, AppendProperties
<1>6. \A k \in 1 .. n + 1 : Append(told, e)[k] = more[k]
  <2> SUFFICES ASSUME NEW k \in 1 .. n + 1 PROVE Append(told, e)[k] = more[k]
    OBVIOUS
  <2>1. CASE k = n + 1
    BY <1>1, <1>5, <2>1
  <2>2. CASE k \in 1 .. n
    BY <1>1, <1>5, <2>2
  <2> QED
    BY <1>1, <2>1, <2>2
<1>7. DOMAIN Append(told, e) = 1 .. n + 1
  BY <1>5, LenProperties
<1>8. Append(told, e) \in [1 .. n + 1 -> Event]
  BY <1>5, LenProperties
<1>9. Append(told, e) = more
  BY <1>6, <1>8
<1> QED
  BY <1>1, <1>9

LEMMA NextTokens ==
    ASSUME ~SamplerMayThrow, IInv, OrderInv, TokensMatch, [Next]_vars
    PROVE  TokensMatch'
<1> DEFINE Told(made) == [k \in 1 .. Len(made) |-> [kind |-> "token", tok |-> made[k]]]
<1>1. \A s \in SlotIds : /\ slots[s].produced \in Seq(Token)
                         /\ slots[s].id_task # 0 => slots[s].id_task \in Ids
                         /\ slots'[s].id_task # 0 => slots'[s].id_task \in Ids
  <2>1. /\ \A s \in SlotIds : slots[s].id_task \in Nat /\ slots'[s].id_task \in Nat
        /\ \A s \in SlotIds : slots[s].id_task < next_id /\ slots'[s].id_task < next_id'
        /\ next_id \in Nat /\ next_id' \in Nat /\ MaxTasks \in Nat
        /\ next_id <= MaxTasks + 1 /\ next_id' <= MaxTasks + 1
    BY NextIInv, NextOrder, SlotsAssumption DEF IInv, TypeOK, Slot, OrderInv, IdsGiven
  <2>2. \A s \in SlotIds : slots[s].produced \in Seq(Token)
    BY DEF IInv, TypeOK, Slot
  <2> QED
    BY <2>1, <2>2 DEF Ids
<1>2. \A s \in SlotIds : /\ slots[s].id_task # 0 => Said(slots[s].id_task) = Told(slots[s].produced)
                         /\ slots[s].id_task = 0 => slots[s].produced = <<>>
  BY DEF TokensMatch, Busy, Idle
<1>3. SUFFICES ASSUME NEW s \in SlotIds
               PROVE  /\ slots'[s].id_task = 0 => slots'[s].produced = <<>>
                      /\ \A i \in Ids : i = slots'[s].id_task =>
                             Said(i)' = Told(slots'[s].produced)
  <2>1. \A s \in Busy' : slots'[s].id_task \in Ids
    BY <1>1 DEF Busy, Idle
  <2>2. \A s \in Busy' : heard'[slots'[s].id_task] \o events'[slots'[s].id_task]
                           = Told(slots'[s].produced)
    BY <1>3, <2>1 DEF Busy, Said
  <2> QED
    BY <1>3, <2>2 DEF TokensMatch, Idle, Said
<1>4. Told(<<>>) = <<>>
  BY EmptySeq
<1>5. \A i \in Ids : i # 0
  BY DEF Ids
<1> HIDE DEF Told
<1>6. CASE Reset
  <2>1. slots'[s].id_task = 0 /\ slots'[s].produced = <<>>
    BY <1>6 DEF Reset, IdleSlot
  <2> QED
    BY <1>5, <2>1
<1>7. CASE QueueStep
  <2>1. slots'[s].produced = slots[s].produced
    BY <1>7 DEF QueueStep
  <2>2. CASE slots'[s].id_task = slots[s].id_task
    <3>1. ASSUME NEW i \in Ids, i = slots[s].id_task
          PROVE  Said(i)' = Said(i)
      <4>1. Runs(i) /\ ~Queued(i)
        <5>1. Runs(i)
          BY <1>5, <3>1 DEF Runs, Busy, Idle
        <5>2. \A k \in DOMAIN queue : slots[s].id_task < queue[k].id
          BY DEF OrderInv, InOrder
        <5>3. \A k \in DOMAIN queue : queue[k].id # i
          BY <3>1, <5>2, QueueAndSlotIds DEF IInv
        <5> QED
          BY <5>1, <5>3 DEF Queued
      <4> QED
        BY <1>7, <4>1 DEF QueueStep
    <3> QED
      BY <1>2, <1>5, <2>1, <2>2, <3>1
  <2>3. CASE slots'[s].id_task # slots[s].id_task
    <3>1. /\ slots[s].id_task = 0
          /\ \A i \in Ids : i = slots'[s].id_task => Said(i)' = <<>>
      BY <1>7, <2>3 DEF QueueStep, Idle
    <3> QED
      BY <1>2, <1>4, <2>1, <3>1
  <2> QED
    BY <2>2, <2>3
<1>8. CASE TalkStep
  <2>1. Makes(s)
    BY <1>8 DEF TalkStep
  <2>2. CASE slots'[s].id_task = 0 /\ slots'[s].produced = <<>>
    BY <1>5, <2>2
  <2>3. CASE /\ slots'[s].id_task = slots[s].id_task
             /\ slots'[s].produced = slots[s].produced
             /\ \A i \in Ids : i = slots[s].id_task => Said(i)' = Said(i)
    BY <1>2, <1>5, <2>3
  <2>4. ASSUME NEW tok \in Token,
               slots'[s].id_task = slots[s].id_task, slots[s].id_task # 0,
               slots'[s].produced = Append(slots[s].produced, tok),
               \A i \in Ids : i = slots[s].id_task =>
                   Said(i)' = Append(Said(i), [kind |-> "token", tok |-> tok])
        PROVE  \A i \in Ids : i = slots'[s].id_task => Said(i)' = Told(slots'[s].produced)
    <3>1. Append(Told(slots[s].produced), [kind |-> "token", tok |-> tok])
            = Told(Append(slots[s].produced, tok))
      BY <1>1, ToldOneMore DEF Told
    <3> QED
      BY <1>2, <2>4, <3>1
  <2> QED
    BY <1>5, <2>1, <2>2, <2>3, <2>4 DEF Makes, Idle
<1> QED
  BY <1>6, <1>7, <1>8, QueueSteps, TalkSteps

(* Between two calls a task that was posted is in exactly one place: once in *)
(* the queue, in one slot, or over, with the host told how it ended; as long *)
(* as no sampler throws.                                                     *)
THEOREM EveryTaskIsAccountedFor ==
    ASSUME ~SamplerMayThrow
    PROVE  Spec => []NoTaskLost
<1>1. IInv /\ OrderInv /\ Accounted => NoTaskLost
  <2> SUFFICES ASSUME IInv, OrderInv, Accounted, phase = "host", NEW i \in 1 .. next_id - 1
               PROVE  LET places == {<<"queue", k>> : k \in {k \in DOMAIN queue : queue[k].id = i}}
                                    \cup {<<"slot", s>> : s \in {s \in Busy : slots[s].id_task = i}}
                      IN  Cardinality(places) = IF Ended(i) THEN 0 ELSE 1
    BY DEF NoTaskLost
  <2> DEFINE waits  == {k \in DOMAIN queue : queue[k].id = i}
             runs   == {s \in Busy : slots[s].id_task = i}
             places == {<<"queue", k>> : k \in waits} \cup {<<"slot", s>> : s \in runs}
  <2>1. i \in Ids
    <3>1. next_id \in Nat /\ next_id <= MaxTasks + 1 /\ MaxTasks \in Nat
      BY SlotsAssumption DEF IInv, TypeOK, OrderInv, IdsGiven
    <3> QED
      BY <3>1 DEF Ids
  <2>2. Said(i) = heard[i] /\ heard[i] \in Seq(Event)
    <3>1. events[i] = <<>> /\ heard[i] \in Seq(Event)
      BY <2>1, SaidType DEF OrderInv, EventsOfSampling, Quiet, IInv
    <3> QED
      BY <3>1, ConcatEmptySeq DEF Said
  <2>3. /\ waits # {} <=> Queued(i)
        /\ runs # {} <=> Runs(i)
    BY DEF Queued, Runs
  <2>4. \A j, k \in waits : j = k
    <3> SUFFICES ASSUME NEW j \in waits, NEW k \in waits, j # k PROVE FALSE
      OBVIOUS
    <3>1. /\ j \in DOMAIN queue /\ k \in DOMAIN queue /\ queue[j].id = queue[k].id
          /\ j \in Nat /\ k \in Nat /\ queue[k].id \in Nat
      BY QueueAndSlotIds DEF IInv
    <3> QED
      BY <3>1 DEF OrderInv, InOrder
  <2>5. \A r, s \in runs : r = s
    BY DEF OrderInv, OneSlotEach
  <2>6. waits = {} \/ runs = {}
    <3> SUFFICES ASSUME NEW k \in waits, NEW s \in runs PROVE FALSE
      OBVIOUS
    <3>1. slots[s].id_task < queue[k].id /\ slots[s].id_task = queue[k].id
          /\ queue[k].id \in Nat
      BY QueueAndSlotIds DEF OrderInv, InOrder, Busy, IInv
    <3> QED
      BY <3>1
  <2>7. CASE Ended(i)
    <3>1. ~OnlyTokens(Said(i)) /\ Said(i) # <<>>
      <4>1. Len(heard[i]) \in 1 .. Len(heard[i])
        BY <2>2, <2>7, EmptySeq DEF Ended
      <4>2. heard[i][Len(heard[i])].kind # "token"
        BY <2>7 DEF Ended, Endings
      <4> QED
        BY <2>2, <2>7, <4>1, <4>2 DEF OnlyTokens, Ended
    <3>2. ~Queued(i) /\ ~Runs(i)
      BY <2>1, <3>1 DEF OrderInv, ToldInOrder
    <3>3. places = {}
      BY <2>3, <3>2
    <3> QED
      BY <2>7, <3>3, FS_EmptySet
  <2>8. CASE ~Ended(i)
    <3>1. ~Closed(Said(i))
      BY <2>2, <2>8 DEF Closed, Ended
    <3>2. waits # {} \/ runs # {}
      BY <2>3, <3>1 DEF Accounted
    <3>3. \E p : places = {p}
      <4>1. CASE waits # {}
        <5>1. PICK k \in waits : TRUE
          BY <4>1
        <5>2. waits = {k} /\ runs = {}
          BY <2>4, <2>6, <5>1
        <5>3. places = {<<"queue", k>>}
          BY <5>2
        <5> QED
          BY <5>3
      <4>2. CASE runs # {}
        <5>1. PICK s \in runs : TRUE
          BY <4>2
        <5>2. runs = {s} /\ waits = {}
          BY <2>5, <2>6, <5>1
        <5>3. places = {<<"slot", s>>}
          BY <5>2
        <5> QED
          BY <5>3
      <4> QED
        BY <3>2, <4>1, <4>2
    <3>4. Cardinality(places) = 1
      <4> HIDE DEF places
      <4> QED
        BY <3>3, FS_Singleton
    <3> QED
      BY <2>8, <3>4
  <2> QED
    BY <2>7, <2>8
<1>2. IInv /\ OrderInv /\ Accounted /\ [Next]_vars => Accounted'
  BY NextAccounts
<1>3. Init => Accounted
  BY InitAccounts
<1> QED
  BY <1>1, <1>2, <1>3, InitIInv, NextIInv, InitOrder, NextOrder, PTL DEF Spec

(* The host has heard every token of a running task, once and in order; as   *)
(* long as no sampler throws.                                                *)
THEOREM TokensAreAllTold ==
    ASSUME ~SamplerMayThrow
    PROVE  Spec => []TokensAddUp
<1>1. IInv /\ TokensMatch => TokensAddUp
  <2> SUFFICES ASSUME IInv, TokensMatch, NEW s \in Busy
               PROVE  heard[slots[s].id_task] \o events[slots[s].id_task]
                        = [k \in DOMAIN slots[s].produced |->
                              [kind |-> "token", tok |-> slots[s].produced[k]]]
    BY DEF TokensAddUp
  <2>1. DOMAIN slots[s].produced = 1 .. Len(slots[s].produced)
    BY LenProperties DEF IInv, TypeOK, Slot, Busy
  <2> QED
    BY <2>1 DEF TokensMatch, Said
<1>2. IInv /\ OrderInv /\ TokensMatch /\ [Next]_vars => TokensMatch'
  BY NextTokens
<1>3. Init => TokensMatch
  BY InitAccounts
<1> QED
  BY <1>1, <1>2, <1>3, InitIInv, NextIInv, InitOrder, NextOrder, PTL DEF Spec

-----------------------------------------------------------------------------
(***************************************************************************)
(* The cache holds what each slot believes, tasks share only the system    *)
(* prompt, and an admitted task always finds room, for both layouts.       *)
(***************************************************************************)

\* The first n tokens of a text, at their positions.
Upto(text, n) == {<<i - 1, text[i]>> : i \in 1 .. n}

\* The system prompt is decoded whole in its sequence, which runs no task.
SystemHeld ==
    /\ system_seq >= 0 => Held(mem, system_seq) = Placed(system)
    /\ system_seq = -1 => system = <<>>
    /\ system_seq \notin Busy

\* A cell two sequences share is the system prompt's, and the others of its
\* sequences run tasks.
SharedWithSystem ==
    \A c \in mem : \A s, t \in c.seqs : s # t =>
        /\ system_seq \in c.seqs /\ c.pos < Len(system)
        /\ s \in Busy \cup {system_seq}

\* What slot s says of itself: an idle slot is as a new one; what a busy one
\* believes of the cache is so.
SlotMirrors(s) ==
    /\ slots[s].generating \/ slots[s].produced = <<>>
    /\ slots[s].logits => slots[s].pending = NoToken
    /\ Idle(s) => ~slots[s].generating
    /\ ~Idle(s) =>
         /\ slots[s].n_past <= Len(Text(s))
         /\ Held(mem, s) = Upto(Text(s), slots[s].n_past)
         /\ slots[s].pending # NoToken =>
                /\ slots[s].n_past = Len(Text(s)) - 1
                /\ slots[s].pending = Text(s)[Len(Text(s))]
         /\ slots[s].generating /\ slots[s].pending = NoToken =>
                slots[s].n_past = Len(Text(s))

CacheInv == SystemHeld /\ SharedWithSystem /\ (\A s \in SlotIds : SlotMirrors(s))

-----------------------------------------------------------------------------
(* What the operations on the cache do to what a sequence holds. *)

\* Cell c is what a removal from sequence s on leaves of cell d.
Cut(c, d, s, from) ==
    /\ c.pos = d.pos /\ c.tok = d.tok
    /\ \/ c = d /\ ~(s \in d.seqs /\ d.pos >= from)
       \/ s \in d.seqs /\ d.pos >= from /\ d.seqs # {s} /\ c.seqs = d.seqs \ {s}

\* Cell c is what a copy of sequence src makes of cell d.
Copied(c, d, src, dst) ==
    /\ c.pos = d.pos /\ c.tok = d.tok
    /\ \/ c = d /\ (Unified => src \notin d.seqs)
       \/ Unified /\ src \in d.seqs /\ c.seqs = d.seqs \cup {dst}
       \/ ~Unified /\ src \in d.seqs /\ c.seqs = {dst}

LEMMA SeqRmCells ==
    ASSUME NEW m, m \subseteq Cell, NEW s, NEW from
    PROVE  \A c \in SeqRm(m, s, from) : \E d \in m : Cut(c, d, s, from)
<1> TAKE c \in SeqRm(m, s, from)
<1>1. CASE c \in m /\ ~(s \in c.seqs /\ c.pos >= from)
  BY <1>1 DEF Cut
<1>2. CASE \E d \in m : /\ s \in d.seqs /\ d.pos >= from /\ d.seqs # {s}
                        /\ c = [d EXCEPT !.seqs = @ \ {s}]
  <2> PICK d \in m : /\ s \in d.seqs /\ d.pos >= from /\ d.seqs # {s}
                     /\ c = [d EXCEPT !.seqs = @ \ {s}]
    BY <1>2
  <2>1. c.pos = d.pos /\ c.tok = d.tok /\ c.seqs = d.seqs \ {s}
    BY DEF Cell
  <2> QED
    BY <2>1 DEF Cut
<1> QED
  BY <1>1, <1>2 DEF SeqRm, CellsOf

LEMMA SeqRmKeeps ==
    ASSUME NEW m, m \subseteq Cell, NEW s, NEW from
    PROVE  \A d \in m :
           /\ ~(s \in d.seqs /\ d.pos >= from) => d \in SeqRm(m, s, from)
           /\ s \in d.seqs /\ d.pos >= from /\ d.seqs # {s} =>
                 \E c \in SeqRm(m, s, from) :
                     c.pos = d.pos /\ c.tok = d.tok /\ c.seqs = d.seqs \ {s}
<1> TAKE d \in m
<1>1. ~(s \in d.seqs /\ d.pos >= from) => d \in SeqRm(m, s, from)
  BY DEF SeqRm, CellsOf
<1>2. ASSUME s \in d.seqs, d.pos >= from, d.seqs # {s}
      PROVE  \E c \in SeqRm(m, s, from) :
                 c.pos = d.pos /\ c.tok = d.tok /\ c.seqs = d.seqs \ {s}
  <2> DEFINE c == [d EXCEPT !.seqs = @ \ {s}]
  <2>1. c \in SeqRm(m, s, from)
    BY <1>2 DEF SeqRm, CellsOf
  <2>2. c.pos = d.pos /\ c.tok = d.tok /\ c.seqs = d.seqs \ {s}
    BY DEF Cell
  <2> QED
    BY <2>1, <2>2
<1> QED
  BY <1>1, <1>2

LEMMA SeqRmOther ==
    ASSUME NEW m, m \subseteq Cell, NEW s, NEW from, NEW t, t # s
    PROVE  Held(SeqRm(m, s, from), t) = Held(m, t)
<1>1. ASSUME NEW c \in SeqRm(m, s, from), t \in c.seqs
      PROVE  \E d \in m : t \in d.seqs /\ c.pos = d.pos /\ c.tok = d.tok
  <2>1. PICK d \in m : Cut(c, d, s, from)
    BY SeqRmCells
  <2> QED
    BY <1>1, <2>1 DEF Cut
<1>2. ASSUME NEW d \in m, t \in d.seqs
      PROVE  \E c \in SeqRm(m, s, from) : t \in c.seqs /\ c.pos = d.pos /\ c.tok = d.tok
  BY <1>2, SeqRmKeeps
<1> QED
  BY <1>1, <1>2 DEF Held, CellsOf

LEMMA SeqRmSelf ==
    ASSUME NEW m, m \subseteq Cell, NEW s, NEW from
    PROVE  Held(SeqRm(m, s, from), s) = {<<c.pos, c.tok>> : c \in {d \in m : s \in d.seqs /\ ~(d.pos >= from)}}
<1>1. ASSUME NEW c \in SeqRm(m, s, from), s \in c.seqs
      PROVE  \E d \in m : s \in d.seqs /\ ~(d.pos >= from) /\ c.pos = d.pos /\ c.tok = d.tok
  <2>1. PICK d \in m : Cut(c, d, s, from)
    BY SeqRmCells
  <2> QED
    BY <1>1, <2>1 DEF Cut
<1>2. ASSUME NEW d \in m, s \in d.seqs, ~(d.pos >= from)
      PROVE  \E c \in SeqRm(m, s, from) : s \in c.seqs /\ c.pos = d.pos /\ c.tok = d.tok
  BY <1>2, SeqRmKeeps
<1> QED
  BY <1>1, <1>2 DEF Held, CellsOf

LEMMA SeqRmAll ==
    ASSUME NEW m, m \subseteq Cell, NEW s
    PROVE  /\ Held(SeqRm(m, s, 0), s) = {}
           /\ \A c \in SeqRm(m, s, 0) : s \notin c.seqs
<1>1. \A d \in m : d.pos >= 0
  BY DEF Cell
<1>2. ASSUME NEW c \in SeqRm(m, s, 0) PROVE s \notin c.seqs
  <2>1. PICK d \in m : Cut(c, d, s, 0)
    BY SeqRmCells
  <2> QED
    BY <1>1, <2>1 DEF Cut
<1> QED
  BY <1>2 DEF Held, CellsOf

LEMMA SeqCpCells ==
    ASSUME NEW m, m \subseteq Cell, NEW src, NEW dst
    PROVE  \A c \in SeqCp(m, src, dst) : \E d \in m : Copied(c, d, src, dst)
<1> TAKE c \in SeqCp(m, src, dst)
<1>1. CASE c \in m /\ (Unified => src \notin c.seqs)
  BY <1>1 DEF Copied
<1>2. CASE Unified /\ \E d \in m : src \in d.seqs /\ c = [d EXCEPT !.seqs = @ \cup {dst}]
  <2> PICK d \in m : src \in d.seqs /\ c = [d EXCEPT !.seqs = @ \cup {dst}]
    BY <1>2
  <2>1. c.pos = d.pos /\ c.tok = d.tok /\ c.seqs = d.seqs \cup {dst}
    BY DEF Cell
  <2> QED
    BY <1>2, <2>1 DEF Copied
<1>3. CASE ~Unified /\ \E d \in m : src \in d.seqs /\ c = [d EXCEPT !.seqs = {dst}]
  <2> PICK d \in m : src \in d.seqs /\ c = [d EXCEPT !.seqs = {dst}]
    BY <1>3
  <2>1. c.pos = d.pos /\ c.tok = d.tok /\ c.seqs = {dst}
    BY DEF Cell
  <2> QED
    BY <1>3, <2>1 DEF Copied
<1> QED
  BY <1>1, <1>2, <1>3 DEF SeqCp, CellsOf

LEMMA SeqCpKeeps ==
    ASSUME NEW m, m \subseteq Cell, NEW src, NEW dst
    PROVE  \A d \in m :
           /\ \E c \in SeqCp(m, src, dst) : c.pos = d.pos /\ c.tok = d.tok /\ (\A t \in d.seqs : t \in c.seqs)
           /\ src \in d.seqs =>
                \E c \in SeqCp(m, src, dst) : c.pos = d.pos /\ c.tok = d.tok /\ dst \in c.seqs
<1> TAKE d \in m
<1>1. CASE src \notin d.seqs
  <2>1. d \in SeqCp(m, src, dst)
    BY <1>1 DEF SeqCp, CellsOf
  <2> QED
    BY <1>1, <2>1
<1>2. CASE src \in d.seqs /\ Unified
  <2> DEFINE c == [d EXCEPT !.seqs = @ \cup {dst}]
  <2>1. c \in SeqCp(m, src, dst)
    BY <1>2 DEF SeqCp, CellsOf
  <2>2. c.pos = d.pos /\ c.tok = d.tok /\ c.seqs = d.seqs \cup {dst}
    BY DEF Cell
  <2> QED
    BY <2>1, <2>2
<1>3. CASE src \in d.seqs /\ ~Unified
  <2> DEFINE c == [d EXCEPT !.seqs = {dst}]
  <2>1. c \in SeqCp(m, src, dst) /\ d \in SeqCp(m, src, dst)
    BY <1>3 DEF SeqCp, CellsOf
  <2>2. c.pos = d.pos /\ c.tok = d.tok /\ c.seqs = {dst}
    BY DEF Cell
  <2> QED
    BY <2>1, <2>2
<1> QED
  BY <1>1, <1>2, <1>3

LEMMA SeqCpHeld ==
    ASSUME NEW m, m \subseteq Cell, NEW src, NEW dst, src # dst,
           \A c \in m : dst \notin c.seqs
    PROVE  /\ Held(SeqCp(m, src, dst), dst) = Held(m, src)
           /\ \A t : t # dst => Held(SeqCp(m, src, dst), t) = Held(m, t)
<1>1. ASSUME NEW c \in SeqCp(m, src, dst), NEW t, t \in c.seqs
      PROVE  \E d \in m : /\ c.pos = d.pos /\ c.tok = d.tok
                          /\ t # dst => t \in d.seqs
                          /\ t = dst => src \in d.seqs
  <2>1. PICK d \in m : Copied(c, d, src, dst)
    BY SeqCpCells
  <2> QED
    BY <1>1, <2>1 DEF Copied
<1>2. ASSUME NEW d \in m
      PROVE  /\ src \in d.seqs => \E c \in SeqCp(m, src, dst) : dst \in c.seqs /\ c.pos = d.pos /\ c.tok = d.tok
             /\ \A t \in d.seqs : \E c \in SeqCp(m, src, dst) : t \in c.seqs /\ c.pos = d.pos /\ c.tok = d.tok
  BY SeqCpKeeps
<1>3. Held(SeqCp(m, src, dst), dst) = Held(m, src)
  BY <1>1, <1>2 DEF Held, CellsOf
<1>4. ASSUME NEW t, t # dst PROVE Held(SeqCp(m, src, dst), t) = Held(m, t)
  BY <1>1, <1>2, <1>4 DEF Held, CellsOf
<1> QED
  BY <1>3, <1>4

LEMMA UnionHeld ==
    ASSUME NEW m, NEW n, NEW t
    PROVE  Held(m \cup n, t) = Held(m, t) \cup Held(n, t)
BY DEF Held, CellsOf

LEMMA NewCellsHeld ==
    ASSUME NEW s, NEW first, NEW toks, NEW t
    PROVE  /\ t = s => Held(NewCells(s, first, toks), t) = {<<first + i - 1, toks[i]>> : i \in DOMAIN toks}
           /\ t # s => Held(NewCells(s, first, toks), t) = {}
<1> DEFINE new(i) == [pos |-> first + i - 1, tok |-> toks[i], seqs |-> {s}]
<1>1. \A i \in DOMAIN toks : /\ new(i).pos = first + i - 1 /\ new(i).tok = toks[i]
                             /\ new(i).seqs = {s}
  OBVIOUS
<1>2. NewCells(s, first, toks) = {new(i) : i \in DOMAIN toks}
  BY DEF NewCells
<1> HIDE DEF new
<1>3. CASE t = s
  BY <1>1, <1>2, <1>3 DEF Held, CellsOf
<1>4. CASE t # s
  BY <1>1, <1>2, <1>4 DEF Held, CellsOf
<1> QED
  BY <1>3, <1>4

LEMMA ReleasedHeld ==
    ASSUME mem \subseteq Cell, NEW ss, NEW t
    PROVE  Held(Released(ss), t) = IF t \in ss THEN {} ELSE Held(mem, t)
<1>1. ASSUME NEW d \in mem
      PROVE  LET c == [d EXCEPT !.seqs = @ \ ss]
             IN  c.pos = d.pos /\ c.tok = d.tok /\ c.seqs = d.seqs \ ss
  BY DEF Cell
<1>2. \A c \in Released(ss) : \E d \in mem : c.pos = d.pos /\ c.tok = d.tok /\ c.seqs = d.seqs \ ss
  BY <1>1 DEF Released
<1>3. \A d \in mem : ~(d.seqs \subseteq ss) =>
          \E c \in Released(ss) : c.pos = d.pos /\ c.tok = d.tok /\ c.seqs = d.seqs \ ss
  BY <1>1 DEF Released
<1>4. CASE t \in ss
  BY <1>2, <1>4 DEF Held, CellsOf
<1>5. CASE t \notin ss
  <2>1. \A c \in Released(ss) : t \in c.seqs =>
            \E d \in mem : t \in d.seqs /\ c.pos = d.pos /\ c.tok = d.tok
    BY <1>2
  <2>2. \A d \in mem : t \in d.seqs =>
            \E c \in Released(ss) : t \in c.seqs /\ c.pos = d.pos /\ c.tok = d.tok
    BY <1>3, <1>5
  <2> QED
    BY <1>5, <2>1, <2>2 DEF Held, CellsOf
<1> QED
  BY <1>4, <1>5

-----------------------------------------------------------------------------
(* What the slots believe of the cache is so: the inductive invariant.       *)

\* A slot that keeps its task, its text and its sequence keeps its beliefs.
LEMMA BeliefsKept ==
    ASSUME NEW s \in SlotIds, SlotMirrors(s), Held(mem', s) = Held(mem, s),
           /\ slots'[s].id_task = slots[s].id_task
           /\ slots'[s].generating = slots[s].generating
           /\ slots'[s].prompt = slots[s].prompt
           /\ slots'[s].n_past = slots[s].n_past
           /\ slots'[s].pending = slots[s].pending
           /\ slots'[s].produced = slots[s].produced
           /\ slots'[s].logits => slots[s].logits
    PROVE  SlotMirrors(s)'
<1>1. Text(s)' = Text(s) /\ (Idle(s)' <=> Idle(s))
  BY DEF Text, Idle
<1> QED
  BY <1>1 DEF SlotMirrors

\* Steps that leave the cache, the system prompt and what the slots know.
LEMMA CacheUntouched ==
    ASSUME CacheInv, UNCHANGED <<mem, system, system_seq>>,
           \A s \in SlotIds :
               /\ slots'[s].id_task = slots[s].id_task
               /\ slots'[s].generating = slots[s].generating
               /\ slots'[s].prompt = slots[s].prompt
               /\ slots'[s].n_past = slots[s].n_past
               /\ slots'[s].pending = slots[s].pending
               /\ slots'[s].produced = slots[s].produced
               /\ slots'[s].logits => slots[s].logits
    PROVE  CacheInv'
<1>1. Busy' = Busy
  BY DEF Busy, Idle
<1>2. SystemHeld' /\ SharedWithSystem'
  BY <1>1 DEF CacheInv, SystemHeld, SharedWithSystem
<1>3. ASSUME NEW s \in SlotIds PROVE SlotMirrors(s)'
  BY BeliefsKept DEF CacheInv
<1> QED
  BY <1>2, <1>3 DEF CacheInv

\* Some busy slots leave their tasks and their sequences; the others keep theirs.
LEMMA SlotsFreed ==
    ASSUME CacheInv, NEW F, F \subseteq Busy, UNCHANGED <<system, system_seq>>,
           \A s \in F : slots'[s] = IdleSlot,
           \A s \in SlotIds \ F : slots'[s] = slots[s],
           \A t : t \notin F => Held(mem', t) = Held(mem, t),
           \A c \in mem' : \E d \in mem : c.pos = d.pos /\ c.seqs = d.seqs \ F
    PROVE  CacheInv'
<1>1. Busy' = Busy \ F
  BY DEF Busy, Idle, IdleSlot
<1>2. system_seq \notin F
  BY DEF CacheInv, SystemHeld
<1>3. SystemHeld'
  BY <1>1, <1>2 DEF CacheInv, SystemHeld
<1>4. SharedWithSystem'
  <2> SUFFICES ASSUME NEW c \in mem', NEW s \in c.seqs, NEW t \in c.seqs, s # t
               PROVE  /\ system_seq \in c.seqs /\ c.pos < Len(system)
                      /\ s \in Busy' \cup {system_seq}
    BY DEF SharedWithSystem
  <2>1. PICK d \in mem : c.pos = d.pos /\ c.seqs = d.seqs \ F
    OBVIOUS
  <2>2. /\ system_seq \in d.seqs /\ d.pos < Len(system)
        /\ s \in Busy \cup {system_seq}
    BY <2>1 DEF CacheInv, SharedWithSystem
  <2> QED
    BY <1>1, <1>2, <2>1, <2>2
<1>5. ASSUME NEW s \in SlotIds PROVE SlotMirrors(s)'
  <2>1. CASE s \in F
    <3>1. slots'[s].id_task = 0 /\ ~slots'[s].generating /\ slots'[s].produced = <<>> /\ ~slots'[s].logits
      BY <2>1 DEF IdleSlot
    <3> QED
      BY <3>1 DEF SlotMirrors, Idle
  <2>2. CASE s \notin F
    BY <2>2, BeliefsKept DEF CacheInv
  <2> QED
    BY <2>1, <2>2
<1> QED
  BY <1>3, <1>4, <1>5 DEF CacheInv

LEMMA RemovedCells ==
    ASSUME TypeOK, NEW s
    PROVE  /\ \A t : t \notin {s} => Held(SeqRm(mem, s, 0), t) = Held(mem, t)
           /\ \A c \in SeqRm(mem, s, 0) : \E d \in mem : c.pos = d.pos /\ c.seqs = d.seqs \ {s}
<1>1. mem \subseteq Cell /\ \A d \in mem : d.pos >= 0
  BY DEF TypeOK, Cell
<1>2. ASSUME NEW c \in SeqRm(mem, s, 0)
      PROVE  \E d \in mem : c.pos = d.pos /\ c.seqs = d.seqs \ {s}
  <2>1. PICK d \in mem : Cut(c, d, s, 0)
    BY <1>1, SeqRmCells
  <2> QED
    BY <1>1, <2>1 DEF Cut
<1> QED
  BY <1>1, <1>2, SeqRmOther

LEMMA ReleasedCells ==
    ASSUME TypeOK, NEW ss
    PROVE  /\ \A t : t \notin ss => Held(Released(ss), t) = Held(mem, t)
           /\ \A c \in Released(ss) : \E d \in mem : c.pos = d.pos /\ c.seqs = d.seqs \ ss
<1>1. mem \subseteq Cell
  BY DEF TypeOK
<1>2. ASSUME NEW d \in mem
      PROVE  LET c == [d EXCEPT !.seqs = @ \ ss]
             IN  c.pos = d.pos /\ c.seqs = d.seqs \ ss
  BY <1>1 DEF Cell
<1>3. \A c \in Released(ss) : \E d \in mem : c.pos = d.pos /\ c.seqs = d.seqs \ ss
  BY <1>2 DEF Released
<1> QED
  BY <1>1, <1>3, ReleasedHeld

\* With no task running, no two sequences share a cell.
LEMMA NothingShared ==
    ASSUME CacheInv, Busy = {}
    PROVE  \A c \in mem : \A s, t \in c.seqs : s = t
BY DEF CacheInv, SharedWithSystem

\* The cache changes between tasks.
LEMMA BetweenTasks ==
    ASSUME CacheInv, Busy = {}, slots' = slots, SystemHeld',
           \A c \in mem' : \A s, t \in c.seqs : s = t
    PROVE  CacheInv'
<1>1. SharedWithSystem'
  BY DEF SharedWithSystem
<1>2. \A s \in SlotIds : Idle(s) /\ Idle(s)'
  BY DEF Busy, Idle
<1>3. ASSUME NEW s \in SlotIds PROVE SlotMirrors(s)'
  BY <1>2 DEF CacheInv, SlotMirrors
<1> QED
  BY <1>1, <1>3 DEF CacheInv

LEMMA InitCache == Init => CacheInv
<1> SUFFICES ASSUME Init PROVE CacheInv
  OBVIOUS
<1>1. \A s \in SlotIds : slots[s] = IdleSlot
  BY DEF Init
<1>2. \A s \in SlotIds : slots[s].id_task = 0 /\ ~slots[s].generating /\ slots[s].produced = <<>> /\ ~slots[s].logits
  BY <1>1 DEF IdleSlot
<1>3. Busy = {}
  BY <1>2 DEF Busy, Idle
<1>4. SystemHeld /\ SharedWithSystem
  BY <1>3 DEF Init, SystemHeld, SharedWithSystem
<1>5. \A s \in SlotIds : SlotMirrors(s)
  BY <1>2 DEF SlotMirrors, Idle
<1> QED
  BY <1>4, <1>5 DEF CacheInv

\* What a single new cell of sequence s belongs to.
LEMMA NewCellsOwned ==
    ASSUME NEW s, NEW first, NEW toks, NEW c \in NewCells(s, first, toks)
    PROVE  c.seqs = {s} /\ \E i \in DOMAIN toks : c.pos = first + i - 1 /\ c.tok = toks[i]
<1>1. PICK i \in DOMAIN toks : c = [pos |-> first + i - 1, tok |-> toks[i], seqs |-> {s}]
  BY DEF NewCells
<1> QED
  BY <1>1

LEMMA RemovedUnshared ==
    ASSUME TypeOK, CacheInv, Busy = {}, NEW s
    PROVE  \A c \in SeqRm(mem, s, 0) : \A t, u \in c.seqs : t = u
BY NothingShared, RemovedCells

LEMMA SetSystemCache ==
    ASSUME IInv, CacheInv, NEW toks \in SystemPrompt, SetSystem(toks)
    PROVE  CacheInv'
<1> DEFINE seq == NSeqMax - 1
           new == NewCells(seq, 0, toks)
<1>1. /\ Busy = {} /\ slots' = slots /\ CellsOf(WithoutSystem, seq) = {}
      /\ mem' = WithoutSystem \cup new /\ system' = toks /\ system_seq' = seq
      /\ NSeqMax >= 2
  BY DEF SetSystem, slots_active
<1>2. TypeOK /\ toks \in Seq(Token)
  BY SlotsAssumption DEF IInv
<1>3. \A c \in WithoutSystem : \A s, t \in c.seqs : s = t
  BY <1>1, <1>2, NothingShared, RemovedUnshared DEF WithoutSystem
<1>4. \A c \in mem' : \A s, t \in c.seqs : s = t
  BY <1>1, <1>3, NewCellsOwned
<1>5. SystemHeld'
  <2>1. Held(mem', seq) = Held(new, seq)
    BY <1>1, UnionHeld DEF Held
  <2>2. Held(new, seq) = Placed(toks)
    <3>1. Held(new, seq) = {<<0 + i - 1, toks[i]>> : i \in DOMAIN toks}
      BY NewCellsHeld
    <3>2. DOMAIN toks \subseteq Int
      BY <1>2
    <3> QED
      BY <3>1, <3>2 DEF Placed
  <2>3. Busy' = {} /\ seq # -1
    BY <1>1, SizesAssumption DEF Busy, Idle
  <2> QED
    BY <1>1, <2>1, <2>2, <2>3 DEF SystemHeld
<1> QED
  BY <1>1, <1>4, <1>5, BetweenTasks

LEMMA ClearSystemCache ==
    ASSUME IInv, CacheInv, ClearSystem
    PROVE  CacheInv'
<1>1. /\ Busy = {} /\ slots' = slots /\ system' = <<>> /\ system_seq' = -1
      /\ mem' = WithoutSystem \/ mem' = SeqRm(WithoutSystem, NSeqMax - 1, 0)
  BY DEF ClearSystem, slots_active
<1>2. TypeOK
  BY DEF IInv
<1>3. WithoutSystem \subseteq Cell
  BY <1>2, WithoutSystemType
<1>4. \A c \in WithoutSystem : \A s, t \in c.seqs : s = t
  BY <1>1, <1>2, NothingShared, RemovedUnshared DEF WithoutSystem
<1>5. ASSUME NEW c \in SeqRm(WithoutSystem, NSeqMax - 1, 0), NEW s \in c.seqs, NEW t \in c.seqs
      PROVE  s = t
  <2>1. PICK d \in WithoutSystem : Cut(c, d, NSeqMax - 1, 0)
    BY <1>3, SeqRmCells
  <2> QED
    BY <1>4, <2>1 DEF Cut
<1>6. \A c \in mem' : \A s, t \in c.seqs : s = t
  BY <1>1, <1>4, <1>5
<1>7. SystemHeld'
  <2>1. Busy' = {}
    BY <1>1 DEF Busy, Idle
  <2> QED
    BY <1>1, <2>1 DEF SystemHeld
<1> QED
  BY <1>1, <1>6, <1>7, BetweenTasks

LEMMA UseSequence0Cache ==
    ASSUME IInv, CacheInv, NEW text \in Leftover, UseSequence0(text)
    PROVE  CacheInv'
<1> DEFINE new == NewCells(0, 0, text)
<1>1. /\ Busy = {} /\ slots' = slots /\ UNCHANGED <<system, system_seq>>
      /\ system_seq # 0 /\ mem' = SeqRm(mem, 0, 0) \cup new
  BY DEF UseSequence0, slots_active
<1>2. TypeOK
  BY DEF IInv
<1>3. \A c \in mem' : \A s, t \in c.seqs : s = t
  BY <1>1, <1>2, RemovedUnshared, NewCellsOwned
<1>4. SystemHeld'
  <2>1. Held(mem', system_seq) = Held(mem, system_seq)
    <3>1. Held(SeqRm(mem, 0, 0), system_seq) = Held(mem, system_seq)
      BY <1>1, <1>2, RemovedCells
    <3>2. Held(new, system_seq) = {}
      BY <1>1, NewCellsHeld
    <3>3. Held(mem', system_seq) = Held(SeqRm(mem, 0, 0), system_seq) \cup Held(new, system_seq)
      BY <1>1 DEF Held, CellsOf
    <3> QED
      BY <3>1, <3>2, <3>3
  <2>2. Busy' = Busy
    BY <1>1 DEF Busy, Idle
  <2> QED
    BY <1>1, <2>1, <2>2 DEF CacheInv, SystemHeld
<1> QED
  BY <1>1, <1>3, <1>4, BetweenTasks

LEMMA ResetCache ==
    ASSUME Reset
    PROVE  CacheInv'
<1>1. \A s \in SlotIds : slots'[s] = IdleSlot
  BY DEF Reset
<1>2. \A s \in SlotIds : slots'[s].id_task = 0 /\ ~slots'[s].generating /\ slots'[s].produced = <<>> /\ ~slots'[s].logits
  BY <1>1 DEF IdleSlot
<1>3. Busy' = {}
  BY <1>2 DEF Busy, Idle
<1>4. SystemHeld' /\ SharedWithSystem'
  BY <1>3 DEF Reset, SystemHeld, SharedWithSystem
<1>5. \A s \in SlotIds : SlotMirrors(s)'
  BY <1>2 DEF SlotMirrors, Idle
<1> QED
  BY <1>4, <1>5 DEF CacheInv

LEMMA CancelBusyCache ==
    ASSUME IInv, CacheInv, NEW s \in SlotIds, CancelBusy(s)
    PROVE  CacheInv'
<1>1. /\ s \in Busy /\ mem' = SeqRm(mem, s, 0) /\ UNCHANGED <<system, system_seq>>
      /\ slots' = [slots EXCEPT ![s] = IdleSlot]
  BY DEF CancelBusy
<1>2. TypeOK
  BY DEF IInv
<1>3. slots'[s] = IdleSlot /\ \A t \in SlotIds \ {s} : slots'[t] = slots[t]
  BY <1>1, <1>2 DEF TypeOK
<1>4. /\ \A t : t \notin {s} => Held(mem', t) = Held(mem, t)
      /\ \A c \in mem' : \E d \in mem : c.pos = d.pos /\ c.seqs = d.seqs \ {s}
  BY <1>1, <1>2, RemovedCells, Zenon
<1>5. {s} \subseteq Busy /\ \A t \in {s} : slots'[t] = IdleSlot
  BY <1>1, <1>2, <1>3
<1> QED
  BY <1>1, <1>2, <1>3, <1>4, <1>5, SlotsFreed, Zenon

LEMMA FinishCache ==
    ASSUME IInv, CacheInv, Sampling, NEW evs, NEW reason, Finish(evs, reason)
    PROVE  CacheInv'
<1>1. TypeOK
  BY DEF IInv
<1>2. /\ at \in Busy /\ mem' = SeqRm(mem, at, 0) /\ UNCHANGED <<system, system_seq>>
      /\ slots' = [slots EXCEPT ![at] = IdleSlot]
  BY <1>1, SizesAssumption DEF Sampling, Finish, Busy, TypeOK, SlotIds, SeqIds
<1>3. slots'[at] = IdleSlot /\ \A t \in SlotIds \ {at} : slots'[t] = slots[t]
  BY <1>1, <1>2 DEF TypeOK, Busy
<1>4. /\ \A t : t \notin {at} => Held(mem', t) = Held(mem, t)
      /\ \A c \in mem' : \E d \in mem : c.pos = d.pos /\ c.seqs = d.seqs \ {at}
  BY <1>1, <1>2, RemovedCells, Zenon
<1>5. {at} \subseteq Busy /\ \A t \in {at} : slots'[t] = IdleSlot
  BY <1>1, <1>2, <1>3
<1> QED
  BY <1>1, <1>2, <1>3, <1>4, <1>5, SlotsFreed, Zenon

LEMMA InBatchBusy ==
    ASSUME IInv, CacheInv
    PROVE  InBatch \subseteq Busy
BY DEF InBatch, Decoding, Chunked, Busy, IInv, RowKinds, CacheInv, SlotMirrors

LEMMA DecodeFailsCache ==
    ASSUME IInv, CacheInv, DecodeFails
    PROVE  CacheInv'
<1>1. TypeOK
  BY DEF IInv
<1>2. /\ mem' = Released(InBatch) /\ UNCHANGED <<system, system_seq>>
      /\ slots' = [s \in SlotIds |-> IF s \in InBatch THEN IdleSlot ELSE slots[s]]
  BY DEF DecodeFails
<1>3. InBatch \subseteq Busy /\ InBatch \subseteq SlotIds
  BY InBatchBusy DEF Busy
<1>4. /\ \A s \in InBatch : slots'[s] = IdleSlot
      /\ \A s \in SlotIds \ InBatch : slots'[s] = slots[s]
  BY <1>2, <1>3
<1>5. /\ \A t : t \notin InBatch => Held(mem', t) = Held(mem, t)
      /\ \A c \in mem' : \E d \in mem : c.pos = d.pos /\ c.seqs = d.seqs \ InBatch
  BY <1>1, <1>2, ReleasedCells, Zenon
<1> QED
  BY <1>2, <1>3, <1>4, <1>5, SlotsFreed, Zenon

\* A reused prefix of a prompt is the same prefix of the system prompt.
LEMMA ReusedPrefix ==
    ASSUME NEW prompt \in Seq(Token) \ {<<>>}, system \in Seq(Token)
    PROVE  /\ Upto(system, Reused(prompt)) = Upto(prompt, Reused(prompt))
           /\ \A p \in Placed(system) : p[1] < Reused(prompt) <=> p \in Upto(prompt, Reused(prompt))
<1> DEFINE k == Reused(prompt)
<1>1. k \in Nat /\ k <= Len(system) /\ \A i \in 1 .. k : system[i] = prompt[i]
  BY ReusedType DEF Reusable
<1> HIDE DEF k
<1>2. DOMAIN system = 1 .. Len(system) /\ Len(system) \in Nat
  OBVIOUS
<1>3. Upto(system, k) = Upto(prompt, k)
  BY <1>1 DEF Upto
<1>4. ASSUME NEW i \in 1 .. Len(system)
      PROVE  <<i - 1, system[i]>>[1] < k <=> <<i - 1, system[i]>> \in Upto(prompt, k)
  <2>1. i - 1 < k <=> i \in 1 .. k
    BY <1>1, <1>2
  <2>2. \A j \in 1 .. k : <<i - 1, system[i]>> = <<j - 1, prompt[j]>> => i = j
    BY <1>1, <1>2
  <2>3. i \in 1 .. k => <<i - 1, system[i]>> = <<i - 1, prompt[i]>>
    BY <1>1
  <2> QED
    BY <2>1, <2>2, <2>3 DEF Upto
<1>5. \A p \in Placed(system) : p[1] < k <=> p \in Upto(prompt, k)
  BY <1>2, <1>4 DEF Placed
<1> QED
  BY <1>3, <1>5 DEF k

\* The cells of a sequence below a position.
LEMMA SeqRmBelow ==
    ASSUME NEW m, m \subseteq Cell, NEW s, NEW from
    PROVE  Held(SeqRm(m, s, from), s) = {p \in Held(m, s) : ~(p[1] >= from)}
<1>1. Held(SeqRm(m, s, from), s) = {<<c.pos, c.tok>> : c \in {d \in m : s \in d.seqs /\ ~(d.pos >= from)}}
  BY SeqRmSelf
<1>2. \A c \in m : <<c.pos, c.tok>>[1] = c.pos
  OBVIOUS
<1> QED
  BY <1>1, <1>2 DEF Held, CellsOf

\* What a launch leaves in the cache: the slot's sequence holds the reused
\* prefix of the prompt, the others hold what they held.
LEMMA AdoptedHeld ==
    ASSUME TypeOK, SystemHeld, NEW prompt \in Seq(Token) \ {<<>>},
           NEW s \in SlotIds, s # system_seq
    PROVE  LET keep == Reused(prompt)
               left == Adopted(SeqRm(mem, s, 0), s, keep)
           IN  /\ Held(left, s) = Upto(prompt, keep)
               /\ \A t : t # s => Held(left, t) = Held(mem, t)
<1> DEFINE keep == Reused(prompt)
           own  == SeqRm(mem, s, 0)
           left == Adopted(own, s, keep)
<1>1. /\ mem \subseteq Cell /\ own \subseteq Cell
      /\ system \in Seq(Token) /\ system_seq \in {-1} \cup SeqIds
  BY SeqRmType DEF TypeOK
<1>2. keep \in Nat /\ keep <= Len(system)
  BY <1>1, ReusedType
<1>3. /\ Held(own, s) = {} /\ (\A c \in own : s \notin c.seqs)
      /\ \A t : t # s => Held(own, t) = Held(mem, t)
  <2>1. Held(own, s) = {} /\ (\A c \in own : s \notin c.seqs)
    BY <1>1, SeqRmAll, Zenon
  <2>2. \A t : t # s => Held(own, t) = Held(mem, t)
    BY <1>1, SeqRmOther
  <2> QED
    BY <2>1, <2>2
<1>4. CASE keep = 0
  <2>1. left = own
    BY <1>4 DEF Adopted
  <2>2. Upto(prompt, keep) = {}
    BY <1>4 DEF Upto
  <2> QED
    BY <1>3, <2>1, <2>2
<1>5. CASE keep > 0
  <2> DEFINE copy == SeqCp(own, system_seq, s)
  <2>1. left = SeqRm(copy, s, keep)
    BY <1>5 DEF Adopted
  <2>2. system_seq >= 0
    BY <1>1, <1>2, <1>5 DEF SystemHeld, SeqIds
  <2>3. copy \subseteq Cell
    BY <1>1, SeqCpType DEF SlotIds
  <2>4. /\ Held(copy, s) = Held(own, system_seq)
        /\ \A t : t # s => Held(copy, t) = Held(own, t)
    BY <1>1, <1>3, SeqCpHeld
  <2>5. Held(copy, s) = Placed(system)
    BY <1>3, <2>2, <2>4 DEF SystemHeld
  <2>6. \A t : t # s => Held(left, t) = Held(copy, t)
    BY <2>1, <2>3, SeqRmOther
  <2>7. Held(left, s) = {p \in Placed(system) : ~(p[1] >= keep)}
    BY <2>1, <2>3, <2>5, SeqRmBelow
  <2>8. \A p \in Placed(system) : ~(p[1] >= keep) <=> p \in Upto(prompt, keep)
    <3>1. \A p \in Placed(system) : p[1] \in Int
      BY <1>1 DEF Placed
    <3>2. \A p \in Placed(system) : p[1] < keep <=> p \in Upto(prompt, keep)
      BY <1>1, ReusedPrefix
    <3> QED
      BY <1>2, <3>1, <3>2
  <2>9. Upto(prompt, keep) \subseteq Placed(system)
    <3>1. Upto(prompt, keep) = Upto(system, keep)
      BY <1>1, ReusedPrefix
    <3>2. 1 .. keep \subseteq DOMAIN system
      BY <1>1, <1>2
    <3> QED
      BY <3>1, <3>2 DEF Upto, Placed
  <2>10. Held(left, s) = Upto(prompt, keep)
    BY <2>7, <2>8, <2>9
  <2> QED
    BY <1>3, <2>4, <2>6, <2>10
<1> QED
  BY <1>2, <1>4, <1>5

\* A launch shares no cell but the system prompt's.
LEMMA AdoptedCells ==
    ASSUME TypeOK, NEW s \in SlotIds, s # system_seq, NEW keep \in Nat
    PROVE  \A c \in Adopted(SeqRm(mem, s, 0), s, keep) : \E d \in mem :
               /\ c.pos = d.pos
               /\ \/ c.seqs \subseteq d.seqs \ {s} /\ d.seqs \ {s} \subseteq c.seqs
                  \/ c.seqs = {s}
                  \/ Unified /\ system_seq \in d.seqs /\ c.pos < keep /\ c.seqs = d.seqs \cup {s}
<1> DEFINE own == SeqRm(mem, s, 0)
           copy == SeqCp(own, system_seq, s)
<1>1. mem \subseteq Cell /\ own \subseteq Cell /\ copy \subseteq Cell
  BY SeqRmType, SeqCpType DEF TypeOK, SlotIds
<1>2. \A c \in own : \E d \in mem : c.pos = d.pos /\ c.seqs = d.seqs \ {s}
  BY RemovedCells
<1>3. CASE ~(keep > 0)
  BY <1>2, <1>3 DEF Adopted
<1>4. CASE keep > 0
  <2> TAKE c \in Adopted(own, s, keep)
  <2>1. c \in SeqRm(copy, s, keep)
    BY <1>4 DEF Adopted
  <2>2. PICK e \in copy : Cut(c, e, s, keep)
    BY <1>1, <2>1, SeqRmCells
  <2>3. PICK f \in own : Copied(e, f, system_seq, s)
    BY <1>1, SeqCpCells
  <2>4. PICK d \in mem : f.pos = d.pos /\ f.seqs = d.seqs \ {s}
    BY <1>2
  <2>5. c.pos = d.pos /\ d.pos \in Nat
    BY <1>1, <2>2, <2>3, <2>4 DEF Cut, Copied, Cell
  <2>6. \/ e.seqs = f.seqs
        \/ Unified /\ system_seq \in f.seqs /\ e.seqs = f.seqs \cup {s}
        \/ e.seqs = {s}
    BY <2>3 DEF Copied
  <2>7. \/ c.seqs = e.seqs /\ ~(s \in e.seqs /\ d.pos >= keep)
        \/ s \in e.seqs /\ e.seqs # {s} /\ c.seqs = e.seqs \ {s}
    BY <2>2, <2>5 DEF Cut
  <2>8. s \notin f.seqs /\ (system_seq \in f.seqs => system_seq \in d.seqs)
    BY <2>4
  <2>9. CASE c.seqs = e.seqs /\ ~(s \in e.seqs /\ d.pos >= keep)
    <3>1. CASE e.seqs = f.seqs
      BY <2>4, <2>5, <2>9, <3>1
    <3>2. CASE Unified /\ system_seq \in f.seqs /\ e.seqs = f.seqs \cup {s}
      <4>1. c.pos < keep
        BY <2>5, <2>9, <3>2
      <4>2. c.seqs = d.seqs \cup {s}
        BY <2>4, <2>9, <3>2
      <4> QED
        BY <2>5, <2>8, <3>2, <4>1, <4>2
    <3>3. CASE e.seqs = {s}
      BY <2>5, <2>9, <3>3
    <3> QED
      BY <2>6, <3>1, <3>2, <3>3
  <2>10. CASE s \in e.seqs /\ e.seqs # {s} /\ c.seqs = e.seqs \ {s}
    <3>1. c.seqs = d.seqs \ {s}
      BY <2>4, <2>6, <2>8, <2>10
    <3> QED
      BY <2>5, <3>1
  <2> QED
    BY <2>7, <2>9, <2>10
<1> QED
  BY <1>3, <1>4

LEMMA LaunchHeadCache ==
    ASSUME IInv, CacheInv, LaunchHead
    PROVE  CacheInv'
<1> DEFINE t    == Head(queue)
           s    == FirstFree
           keep == Reused(t.prompt)
<1>1. /\ t \in Task /\ s \in SlotIds /\ Idle(s) /\ s # system_seq /\ TypeOK
  BY FirstFreeType DEF IInv, TypeOK, LaunchHead, CanLaunch, FreeSlots
<1>2. /\ mem' = Adopted(SeqRm(mem, s, 0), s, keep) /\ UNCHANGED <<system, system_seq>>
      /\ slots' = [slots EXCEPT ![s] =
          [@ EXCEPT !.id_task = t.id, !.prompt = t.prompt, !.budget = t.budget,
                    !.generating = FALSE, !.n_cached = keep, !.n_past = keep,
                    !.pending = NoToken, !.logits = FALSE]]
  BY DEF LaunchHead
<1>3. /\ t.prompt \in Seq(Token) \ {<<>>} /\ t.id \in Nat \ {0}
      /\ keep \in Nat /\ keep < Len(t.prompt) /\ keep <= Len(system)
  BY <1>1, ReusedType DEF TypeOK, Task
<1>4. /\ slots'[s].id_task = t.id /\ slots'[s].prompt = t.prompt
      /\ ~slots'[s].generating /\ slots'[s].n_past = keep /\ slots'[s].pending = NoToken
      /\ ~slots'[s].logits /\ slots'[s].produced = slots[s].produced
      /\ \A r \in SlotIds \ {s} : slots'[r] = slots[r]
  BY <1>1, <1>2 DEF TypeOK, Slot
<1> HIDE DEF t, s, keep
<1>5. Busy' = Busy \cup {s}
  BY <1>1, <1>3, <1>4 DEF Busy, Idle
<1>6. /\ Held(mem', s) = Upto(t.prompt, keep)
      /\ \A r : r # s => Held(mem', r) = Held(mem, r)
  BY <1>1, <1>2, <1>3, AdoptedHeld DEF CacheInv, keep
<1>7. SystemHeld'
  BY <1>1, <1>2, <1>5, <1>6 DEF CacheInv, SystemHeld
<1>8. SharedWithSystem'
  <2> SUFFICES ASSUME NEW c \in mem', NEW p \in c.seqs, NEW q \in c.seqs, p # q
               PROVE  /\ system_seq \in c.seqs /\ c.pos < Len(system)
                      /\ p \in Busy \cup {s} \cup {system_seq}
    BY <1>2, <1>5 DEF SharedWithSystem
  <2>1. PICK d \in mem :
           /\ c.pos = d.pos
           /\ \/ c.seqs \subseteq d.seqs \ {s} /\ d.seqs \ {s} \subseteq c.seqs
              \/ c.seqs = {s}
              \/ Unified /\ system_seq \in d.seqs /\ c.pos < keep /\ c.seqs = d.seqs \cup {s}
    BY <1>1, <1>2, <1>3, AdoptedCells
  <2>2. CASE c.seqs \subseteq d.seqs \ {s} /\ d.seqs \ {s} \subseteq c.seqs
    <3>1. system_seq \in d.seqs /\ d.pos < Len(system) /\ p \in Busy \cup {system_seq}
      BY <2>2 DEF CacheInv, SharedWithSystem
    <3> QED
      BY <1>1, <2>1, <2>2, <3>1
  <2>3. CASE Unified /\ system_seq \in d.seqs /\ c.pos < keep /\ c.seqs = d.seqs \cup {s}
    <3>1. p = s \/ p = system_seq \/ (p \in d.seqs /\ p # system_seq)
      BY <2>3
    <3>2. p \in d.seqs /\ p # system_seq => p \in Busy \cup {system_seq}
      BY <2>3 DEF CacheInv, SharedWithSystem
    <3>3. c.pos \in Nat /\ Len(system) \in Nat
      BY <1>1, <2>1 DEF TypeOK, Cell
    <3>4. c.pos < Len(system)
      BY <1>3, <2>3, <3>3
    <3> QED
      BY <2>3, <3>1, <3>2, <3>4
  <2> QED
    BY <2>1, <2>2, <2>3
<1>9. ASSUME NEW r \in SlotIds PROVE SlotMirrors(r)'
  <2>1. CASE r = s
    <3>1. slots[s].produced = <<>>
      BY <1>1 DEF CacheInv, SlotMirrors
    <3>2. Text(r)' = t.prompt
      <4>1. Text(r)' = t.prompt \o <<>>
        BY <1>4, <2>1, <3>1 DEF Text
      <4> QED
        BY <1>3, <4>1, ConcatEmptySeq
    <3>3. Len(t.prompt) \in Nat /\ keep <= Len(t.prompt)
      BY <1>3
    <3> QED
      BY <1>4, <1>6, <2>1, <3>1, <3>2, <3>3 DEF SlotMirrors
  <2>2. CASE r # s
    BY <1>4, <1>6, <2>2, BeliefsKept DEF CacheInv
  <2> QED
    BY <2>1, <2>2
<1> QED
  BY <1>7, <1>8, <1>9 DEF CacheInv

LEMMA TextType ==
    ASSUME TypeOK, NEW s \in SlotIds
    PROVE  /\ slots[s].prompt \in Seq(Token) /\ slots[s].produced \in Seq(Token)
           /\ slots[s].n_past \in Nat /\ slots[s].take \in Nat
           /\ Text(s) \in Seq(Token) /\ Len(Text(s)) \in Nat
           /\ Len(Text(s)) = Len(slots[s].prompt) + Len(slots[s].produced)
           /\ \A i \in 1 .. Len(slots[s].prompt) : Text(s)[i] = slots[s].prompt[i]
<1>1. /\ slots[s].prompt \in Seq(Token) /\ slots[s].produced \in Seq(Token)
      /\ slots[s].n_past \in Nat /\ slots[s].take \in Nat
  BY DEF TypeOK, Slot
<1> DEFINE p == slots[s].prompt
           q == slots[s].produced
<1>2. Text(s) = p \o q
  BY DEF Text
<1>3. p \in Seq(Token) /\ q \in Seq(Token)
  BY <1>1
<1> HIDE DEF p, q
<1>4. /\ p \o q \in Seq(Token)
      /\ Len(p \o q) = Len(p) + Len(q)
      /\ \A i \in 1 .. Len(p) + Len(q) : (p \o q)[i] = IF i <= Len(p) THEN p[i] ELSE q[i - Len(p)]
  BY <1>3, ConcatProperties
<1>5. Len(p) \in Nat /\ Len(q) \in Nat
  BY <1>3, LenProperties
<1>6. \A i \in 1 .. Len(p) : (p \o q)[i] = p[i]
  BY <1>4, <1>5
<1>7. Len(p \o q) \in Nat
  BY <1>4, <1>5
<1> QED
  BY <1>1, <1>2, <1>4, <1>6, <1>7 DEF p, q

LEMMA SubSeqAt ==
    ASSUME NEW W, NEW p \in Seq(W), NEW n \in Nat, NEW k \in Nat, n + k <= Len(p)
    PROVE  /\ SubSeq(p, n + 1, n + k) \in Seq(W) /\ Len(SubSeq(p, n + 1, n + k)) = k
           /\ \A i \in 1 .. k : SubSeq(p, n + 1, n + k)[i] = p[n + i]
<1> DEFINE m == n + 1
           l == n + k
<1>1. m \in Int /\ l \in Int /\ l - m + 1 = k /\ (m <= l \/ k = 0)
  OBVIOUS
<1>2. \A i \in m .. l : p[i] \in W
  BY ElementOfSeq
<1>3. \A i \in 1 .. k : m + i - 1 = n + i
  OBVIOUS
<1> HIDE DEF m, l
<1>4. /\ SubSeq(p, m, l) \in Seq(W)
      /\ Len(SubSeq(p, m, l)) = IF m <= l THEN l - m + 1 ELSE 0
      /\ \A i \in 1 .. l - m + 1 : SubSeq(p, m, l)[i] = p[m + i - 1]
  BY <1>1, <1>2, SubSeqProperties
<1>5. Len(SubSeq(p, m, l)) = k
  BY <1>1, <1>4
<1>6. \A i \in 1 .. k : SubSeq(p, m, l)[i] = p[n + i]
  BY <1>1, <1>3, <1>4
<1> QED
  BY <1>4, <1>5, <1>6 DEF m, l

\* The rows a slot has in the batch are the next tokens of its text.
LEMMA RowsOfText ==
    ASSUME IInv, CacheInv, NEW s \in InBatch
    PROVE  /\ RowsOf(s) \in Seq(Token) /\ Len(RowsOf(s)) > 0
           /\ slots[s].n_past \in Nat
           /\ slots[s].n_past + Len(RowsOf(s)) <= Len(Text(s))
           /\ \A i \in 1 .. Len(RowsOf(s)) : RowsOf(s)[i] = Text(s)[slots[s].n_past + i]
           /\ s \in Decoding => Len(RowsOf(s)) = 1
           /\ s \notin Decoding => Len(RowsOf(s)) = slots[s].take
<1>1. /\ s \in SlotIds /\ slots[s] \in Slot /\ ~Idle(s) /\ SlotMirrors(s)
      /\ Text(s) = slots[s].prompt \o slots[s].produced
  BY InBatchBusy DEF Busy, IInv, TypeOK, CacheInv, Text
<1>2. /\ slots[s].prompt \in Seq(Token) /\ slots[s].produced \in Seq(Token)
      /\ slots[s].n_past \in Nat /\ slots[s].take \in Nat
      /\ Text(s) \in Seq(Token) /\ Len(Text(s)) \in Nat
      /\ Len(Text(s)) = Len(slots[s].prompt) + Len(slots[s].produced)
      /\ \A i \in 1 .. Len(slots[s].prompt) : Text(s)[i] = slots[s].prompt[i]
  BY <1>1, TextType DEF IInv
<1>3. CASE s \in Decoding
  <2>1. /\ RowsOf(s) = <<slots[s].pending>> /\ slots[s].pending \in Token
    BY <1>1, <1>3 DEF RowsOf, Decoding, Slot
  <2>2. slots[s].n_past = Len(Text(s)) - 1 /\ slots[s].pending = Text(s)[Len(Text(s))]
    BY <1>1, <1>3 DEF SlotMirrors, Decoding
  <2>3. slots[s].n_past + 1 = Len(Text(s))
    BY <1>2, <2>2
  <2>4. RowsOf(s) \in Seq(Token) /\ Len(RowsOf(s)) = 1 /\ RowsOf(s)[1] = slots[s].pending
    BY <2>1
  <2>5. \A i \in 1 .. Len(RowsOf(s)) : RowsOf(s)[i] = Text(s)[slots[s].n_past + i]
    <3> TAKE i \in 1 .. Len(RowsOf(s))
    <3>1. i = 1
      BY <2>4
    <3> QED
      BY <2>2, <2>3, <2>4, <3>1
  <2>6. slots[s].n_past + Len(RowsOf(s)) <= Len(Text(s))
    <3>1. Len(Text(s)) <= Len(Text(s))
      BY <1>2
    <3> QED
      BY <2>3, <2>4, <3>1, Zenon
  <2>7. Len(RowsOf(s)) > 0
    BY <2>4
  <2> QED
    BY <1>2, <1>3, <2>4, <2>5, <2>6, <2>7, Zenon
<1>4. CASE s \notin Decoding
  <2> DEFINE p == slots[s].prompt
             n == slots[s].n_past
             k == slots[s].take
  <2>1. k > 0
    BY <1>4 DEF InBatch, Chunked
  <2>2. n + k <= Len(p) /\ Len(p) \in Nat
    BY <1>1, <1>2, <2>1 DEF IInv, RowKinds
  <2>3. RowsOf(s) = SubSeq(p, n + 1, n + k)
    BY <1>4 DEF RowsOf
  <2>4. /\ RowsOf(s) \in Seq(Token) /\ Len(RowsOf(s)) = k
        /\ \A i \in 1 .. k : RowsOf(s)[i] = p[n + i]
    <3>1. p \in Seq(Token) /\ n \in Nat /\ k \in Nat
      BY <1>2
    <3> HIDE DEF p, n, k
    <3>2. /\ SubSeq(p, n + 1, n + k) \in Seq(Token) /\ Len(SubSeq(p, n + 1, n + k)) = k
          /\ \A i \in 1 .. k : SubSeq(p, n + 1, n + k)[i] = p[n + i]
      BY <2>2, <3>1, SubSeqAt
    <3> QED
      BY <2>3, <3>2, Zenon
  <2>5. \A i \in 1 .. k : Text(s)[n + i] = p[n + i]
    <3> TAKE i \in 1 .. k
    <3>1. n + i \in 1 .. Len(p)
      BY <1>2, <2>2
    <3> QED
      BY <1>2, <3>1
  <2>6. n + Len(RowsOf(s)) <= Len(Text(s))
    <3>1. Len(p) <= Len(Text(s))
      <4> DEFINE a == Len(slots[s].produced)
                 b == Len(p)
                 l == Len(Text(s))
      <4>1. a \in Nat /\ b \in Nat
        BY <1>2, LenProperties
      <4>2. l = b + a
        BY <1>2
      <4> HIDE DEF a, b, l
      <4>3. b <= l
        BY <4>1, <4>2
      <4> QED
        BY <4>3 DEF b, l
    <3>2. n + k <= Len(Text(s))
      <4>1. n \in Nat /\ k \in Nat /\ Len(Text(s)) \in Nat
        BY <1>2
      <4> QED
        BY <2>2, <3>1, <4>1
    <3> QED
      BY <2>4, <3>2, Zenon
  <2>7. Len(RowsOf(s)) > 0
    BY <2>1, <2>4
  <2>8. \A i \in 1 .. Len(RowsOf(s)) : RowsOf(s)[i] = Text(s)[n + i]
    BY <2>4, <2>5
  <2> QED
    BY <1>2, <1>4, <2>4, <2>6, <2>7, <2>8, Zenon
<1> QED
  BY <1>3, <1>4

\* What the batch adds to a sequence: the next tokens of its slot's text.
LEMMA BatchHeld ==
    ASSUME IInv, CacheInv, NEW t
    PROVE  /\ t \notin InBatch => Held(BatchCells, t) = {}
           /\ t \in InBatch =>
                  Held(BatchCells, t) = Held(NewCells(t, slots[t].n_past, RowsOf(t)), t)
<1>1. \A c \in BatchCells : \E s \in InBatch : c \in NewCells(s, slots[s].n_past, RowsOf(s))
  BY DEF BatchCells
<1>2. \A s \in InBatch : NewCells(s, slots[s].n_past, RowsOf(s)) \subseteq BatchCells
  BY DEF BatchCells
<1>3. ASSUME NEW c \in BatchCells, t \in c.seqs
      PROVE  t \in InBatch /\ c \in NewCells(t, slots[t].n_past, RowsOf(t))
  <2>1. PICK s \in InBatch : c \in NewCells(s, slots[s].n_past, RowsOf(s))
    BY <1>1
  <2>2. c.seqs = {s}
    BY <2>1, NewCellsOwned
  <2> QED
    BY <1>3, <2>1, <2>2
<1>4. CASE t \notin InBatch
  BY <1>3, <1>4 DEF Held, CellsOf
<1>5. CASE t \in InBatch
  <2>1. CellsOf(BatchCells, t) = CellsOf(NewCells(t, slots[t].n_past, RowsOf(t)), t)
    BY <1>2, <1>3, <1>5 DEF CellsOf
  <2> QED
    BY <1>5, <2>1 DEF Held
<1> QED
  BY <1>4, <1>5

LEMMA UptoGrows ==
    ASSUME NEW text, NEW n \in Nat, NEW toks \in Seq(Token),
           \A i \in 1 .. Len(toks) : toks[i] = text[n + i]
    PROVE  Upto(text, n + Len(toks)) =
               Upto(text, n) \cup {<<n + i - 1, toks[i]>> : i \in DOMAIN toks}
<1> DEFINE k == Len(toks)
<1>1. DOMAIN toks = 1 .. k /\ k \in Nat
  OBVIOUS
<1> HIDE DEF k
<1>2. \A i \in 1 .. n + k : i \in 1 .. n \/ (i - n \in 1 .. k /\ n + (i - n) = i)
  BY <1>1
<1>3. ASSUME NEW i \in 1 .. n + k
      PROVE  \/ <<i - 1, text[i]>> \in Upto(text, n)
             \/ \E j \in 1 .. k : <<i - 1, text[i]>> = <<n + j - 1, toks[j]>>
  <2>1. CASE i \in 1 .. n
    BY <2>1 DEF Upto
  <2>2. CASE i \notin 1 .. n
    <3>1. i - n \in 1 .. k /\ n + (i - n) = i
      BY <1>2, <2>2
    <3>2. toks[i - n] = text[i] /\ n + (i - n) - 1 = i - 1
      BY <3>1 DEF k
    <3> QED
      BY <3>1, <3>2
  <2> QED
    BY <2>1, <2>2
<1>4. \A i \in 1 .. n : i \in 1 .. n + k
  BY <1>1
<1>5. ASSUME NEW j \in 1 .. k
      PROVE  n + j \in 1 .. n + k /\ <<n + j - 1, toks[j]>> = <<(n + j) - 1, text[n + j]>>
  BY <1>1 DEF k
<1>6. Upto(text, n + k) = Upto(text, n) \cup {<<n + j - 1, toks[j]>> : j \in 1 .. k}
  <2>1. Upto(text, n + k) \subseteq Upto(text, n) \cup {<<n + j - 1, toks[j]>> : j \in 1 .. k}
    BY <1>3 DEF Upto
  <2>2. Upto(text, n) \subseteq Upto(text, n + k)
    BY <1>4 DEF Upto
  <2>3. {<<n + j - 1, toks[j]>> : j \in 1 .. k} \subseteq Upto(text, n + k)
    BY <1>5 DEF Upto
  <2> QED
    BY <2>1, <2>2, <2>3
<1> QED
  BY <1>1, <1>6 DEF k

LEMMA DecodeOkCache ==
    ASSUME IInv, CacheInv, DecodeOk
    PROVE  CacheInv'
<1>1. /\ mem' = mem \cup BatchCells /\ UNCHANGED <<system, system_seq>>
      /\ slots' = [s \in SlotIds |->
           IF s \in Decoding
           THEN [slots[s] EXCEPT !.n_past = @ + 1, !.pending = NoToken, !.logits = TRUE]
           ELSE IF s \in Chunked
           THEN [slots[s] EXCEPT !.n_past = @ + slots[s].take, !.take = 0,
                                 !.logits = LastChunk(s), !.generating = LastChunk(s)]
           ELSE slots[s]]
  BY DEF DecodeOk
<1>2. InBatch \subseteq Busy /\ InBatch \subseteq SlotIds /\ system_seq \notin InBatch
  BY InBatchBusy DEF Busy, CacheInv, SystemHeld
<1>3. ASSUME NEW s \in SlotIds
      PROVE  /\ slots'[s].id_task = slots[s].id_task
             /\ slots'[s].prompt = slots[s].prompt
             /\ slots'[s].produced = slots[s].produced
             /\ s \notin InBatch => slots'[s] = slots[s]
             /\ s \in InBatch => /\ slots'[s].n_past = slots[s].n_past + Len(RowsOf(s))
                                 /\ slots'[s].pending = NoToken
             /\ s \in Decoding => slots'[s].generating
             /\ s \in InBatch /\ s \notin Decoding => (slots'[s].generating <=> LastChunk(s))
  <2>1. slots[s] \in Slot
    BY DEF IInv, TypeOK
  <2>2. CASE s \in Decoding
    <3>1. slots'[s] = [slots[s] EXCEPT !.n_past = @ + 1, !.pending = NoToken, !.logits = TRUE]
      BY <1>1, <2>2
    <3>2. s \in InBatch /\ Len(RowsOf(s)) = 1 /\ slots[s].generating
      BY <2>2, RowsOfText DEF InBatch, Decoding
    <3>3. /\ slots'[s].id_task = slots[s].id_task /\ slots'[s].prompt = slots[s].prompt
          /\ slots'[s].produced = slots[s].produced /\ slots'[s].n_past = slots[s].n_past + 1
          /\ slots'[s].pending = NoToken /\ slots'[s].generating = slots[s].generating
      BY <2>1, <3>1 DEF Slot
    <3> QED
      BY <2>2, <3>2, <3>3
  <2>3. CASE s \notin Decoding /\ s \in Chunked
    <3>1. slots'[s] = [slots[s] EXCEPT !.n_past = @ + slots[s].take, !.take = 0,
                                 !.logits = LastChunk(s), !.generating = LastChunk(s)]
      BY <1>1, <2>3
    <3>2. s \in InBatch /\ Len(RowsOf(s)) = slots[s].take /\ slots[s].pending = NoToken
      BY <2>3, RowsOfText DEF InBatch, Chunked, IInv, RowKinds
    <3>3. /\ slots'[s].id_task = slots[s].id_task /\ slots'[s].prompt = slots[s].prompt
          /\ slots'[s].produced = slots[s].produced
          /\ slots'[s].n_past = slots[s].n_past + slots[s].take
          /\ slots'[s].pending = slots[s].pending /\ slots'[s].generating = LastChunk(s)
      BY <2>1, <3>1 DEF Slot
    <3> QED
      BY <2>3, <3>2, <3>3
  <2>4. CASE s \notin InBatch
    BY <1>1, <2>4 DEF InBatch
  <2> QED
    BY <2>2, <2>3, <2>4 DEF InBatch
<1>4. Busy' = Busy
  BY <1>3 DEF Busy, Idle
<1>5. ASSUME NEW t, t \notin InBatch PROVE Held(mem', t) = Held(mem, t)
  <2>1. Held(BatchCells, t) = {}
    BY <1>5, BatchHeld
  <2> QED
    BY <1>1, <2>1 DEF Held, CellsOf
<1>6. SystemHeld'
  BY <1>1, <1>2, <1>4, <1>5 DEF CacheInv, SystemHeld
<1>7. SharedWithSystem'
  <2>1. \A c \in BatchCells : \A s, t \in c.seqs : s = t
    BY NewCellsOwned DEF BatchCells
  <2> QED
    BY <1>1, <1>4, <2>1 DEF CacheInv, SharedWithSystem
<1>8. ASSUME NEW s \in SlotIds PROVE SlotMirrors(s)'
  <2>1. CASE s \notin InBatch
    BY <1>3, <1>5, <2>1, BeliefsKept DEF CacheInv
  <2>2. CASE s \in InBatch
    <3> DEFINE n    == slots[s].n_past
               toks == RowsOf(s)
    <3>1. /\ n \in Nat /\ toks \in Seq(Token) /\ Len(toks) \in Nat /\ n + Len(toks) <= Len(Text(s))
          /\ \A i \in 1 .. Len(toks) : toks[i] = Text(s)[n + i]
      BY <2>2, RowsOfText, LenProperties
    <3>2. Text(s)' = Text(s) /\ ~Idle(s) /\ (Idle(s)' <=> Idle(s))
      BY <1>2, <1>3, <2>2 DEF Text, Busy, Idle
    <3>3. Held(mem', s) = Upto(Text(s), n + Len(toks))
      <4>1. Held(mem, s) = Upto(Text(s), n)
        BY <3>2 DEF CacheInv, SlotMirrors
      <4>2. Held(BatchCells, s) = {<<n + i - 1, toks[i]>> : i \in DOMAIN toks}
        <5>1. Held(BatchCells, s) = Held(NewCells(s, n, toks), s)
          BY <2>2, BatchHeld
        <5> QED
          BY <5>1, NewCellsHeld
      <4>3. Held(mem', s) = Held(mem, s) \cup Held(BatchCells, s)
        BY <1>1 DEF Held, CellsOf
      <4>4. Upto(Text(s), n + Len(toks)) = Upto(Text(s), n) \cup {<<n + i - 1, toks[i]>> : i \in DOMAIN toks}
        BY <3>1, UptoGrows
      <4> QED
        BY <4>1, <4>2, <4>3, <4>4
    <3>4. slots'[s].generating => slots'[s].n_past = Len(Text(s))
      <4>1. CASE s \in Decoding
        <5>1. slots[s].n_past = Len(Text(s)) - 1 /\ Len(toks) = 1
          BY <2>2, <3>2, <4>1, RowsOfText DEF CacheInv, SlotMirrors, Decoding
        <5>2. Len(Text(s)) \in Nat
          BY TextType DEF IInv
        <5>3. slots'[s].n_past = slots[s].n_past + Len(RowsOf(s))
          BY <1>3, <2>2
        <5> QED
          BY <5>1, <5>2, <5>3
      <4>2. CASE s \notin Decoding
        <5>1. ~slots[s].generating /\ slots[s].prompt \in Seq(Token)
          BY <2>2, <4>2 DEF InBatch, Chunked, IInv, RowKinds, TypeOK, Slot
        <5>2. Text(s) = slots[s].prompt
          BY <5>1, ConcatEmptySeq DEF CacheInv, SlotMirrors, Text
        <5>3. Len(toks) = slots[s].take
          BY <2>2, <4>2, RowsOfText
        <5> QED
          BY <1>3, <2>2, <4>2, <5>2, <5>3 DEF LastChunk
      <4> QED
        BY <4>1, <4>2
    <3>5. slots'[s].generating \/ slots'[s].produced = <<>>
      BY <1>3, <2>2 DEF CacheInv, SlotMirrors, Decoding, InBatch, Chunked, IInv, RowKinds
    <3> QED
      BY <1>3, <2>2, <3>1, <3>2, <3>3, <3>4, <3>5 DEF SlotMirrors
  <2> QED
    BY <2>1, <2>2
<1> QED
  BY <1>6, <1>7, <1>8 DEF CacheInv

LEMMA ConcatAppended ==
    ASSUME NEW W, NEW p \in Seq(W), NEW q \in Seq(W), NEW x \in W
    PROVE  p \o Append(q, x) = Append(p \o q, x)
<1>1. Append(q, x) = q \o <<x>> /\ p \o q \in Seq(W) /\ <<x>> \in Seq(W)
  BY AppendIsConcat, ConcatProperties
<1>2. Append(p \o q, x) = (p \o q) \o <<x>>
  BY <1>1, AppendIsConcat
<1> QED
  BY <1>1, <1>2, ConcatAssociative

LEMMA SampleTokenCache ==
    ASSUME IInv, CacheInv, NEW tok \in Sampled, NEW stopped \in BOOLEAN, SampleToken(tok, stopped)
    PROVE  CacheInv'
<1> DEFINE s    == slots[at]
           said == Tell(events, s.id_task, "token", tok)
<1>1. CASE Finish(said, "stop") \/ Finish(said, "length")
  BY <1>1, FinishCache DEF SampleToken
<1>2. CASE /\ slots' = [slots EXCEPT ![at] = [s EXCEPT !.produced = Append(@, tok), !.pending = tok,
                                                      !.logits = FALSE]]
           /\ UNCHANGED mem
  <2>1. /\ at \in SlotIds /\ slots \in [SlotIds -> Slot] /\ slots[at] \in Slot
        /\ ~Idle(at) /\ slots[at].logits
        /\ UNCHANGED <<system, system_seq>>
        /\ tok \in Token /\ tok # NoToken
    BY SizesAssumption, SlotsAssumption
       DEF SampleToken, Sampling, IInv, TypeOK, SlotIds, SeqIds
  <2>2. /\ slots'[at].id_task = s.id_task /\ slots'[at].generating = s.generating
        /\ slots'[at].prompt = s.prompt /\ slots'[at].n_past = s.n_past
        /\ slots'[at].pending = tok /\ slots'[at].produced = Append(s.produced, tok)
        /\ ~slots'[at].logits
        /\ \A t \in SlotIds \ {at} : slots'[t] = slots[t]
    BY <1>2, <2>1 DEF Slot
  <2>3. Busy' = Busy
    BY <2>1, <2>2 DEF Busy, Idle
  <2>4. SystemHeld' /\ SharedWithSystem'
    BY <1>2, <2>1, <2>3 DEF CacheInv, SystemHeld, SharedWithSystem
  <2>5. ASSUME NEW t \in SlotIds PROVE SlotMirrors(t)'
    <3>1. CASE t # at
      BY <1>2, <2>2, <3>1, BeliefsKept DEF CacheInv
    <3>2. CASE t = at
      <4>1. /\ slots[t].generating /\ slots[t].n_past = Len(Text(t))
            /\ Held(mem, t) = Upto(Text(t), Len(Text(t)))
        BY <2>1, <3>2 DEF IInv, RowKinds, CacheInv, SlotMirrors
      <4>2. slots[t].prompt \in Seq(Token) /\ slots[t].produced \in Seq(Token)
        BY <2>1, <3>2 DEF Slot
      <4>3. Text(t)' = slots[t].prompt \o Append(slots[t].produced, tok)
        BY <2>2, <3>2 DEF Text
      <4>4. /\ Len(Text(t)') = Len(Text(t)) + 1 /\ Len(Text(t)) \in Nat
            /\ Text(t)'[Len(Text(t)) + 1] = tok
            /\ \A i \in 1 .. Len(Text(t)) : Text(t)'[i] = Text(t)[i]
        <5>1. Text(t)' = Append(Text(t), tok)
          <6> DEFINE p == slots[t].prompt
                     q == slots[t].produced
          <6>1. p \in Seq(Token) /\ q \in Seq(Token) /\ tok \in Token
            BY <2>1, <4>2
          <6>2. Text(t) = p \o q /\ Text(t)' = p \o Append(q, tok)
            BY <4>3 DEF Text
          <6> HIDE DEF p, q
          <6>3. p \o Append(q, tok) = Append(p \o q, tok)
            BY <6>1, ConcatAppended
          <6> QED
            BY <6>2, <6>3
        <5>2. Text(t) \in Seq(Token)
          BY TextType DEF IInv
        <5> QED
          BY <2>1, <5>1, <5>2, AppendProperties, LenProperties
      <4>5. Upto(Text(t)', Len(Text(t))) = Upto(Text(t), Len(Text(t)))
        BY <4>4 DEF Upto
      <4>6. ~Idle(t)'
        BY <2>1, <2>2, <3>2 DEF Idle
      <4>7. Held(mem, t)' = Upto(Text(t)', Len(Text(t)))
        BY <1>2, <4>1, <4>5 DEF Held, CellsOf
      <4>8. /\ slots'[t].generating /\ slots'[t].n_past = Len(Text(t))
            /\ slots'[t].pending = tok /\ tok # NoToken /\ ~slots'[t].logits
        BY <2>1, <2>2, <3>2, <4>1
      <4>9. Len(Text(t)) = Len(Text(t)') - 1 /\ Len(Text(t)) <= Len(Text(t)')
        BY <4>4
      <4>10. slots'[t].pending = Text(t)'[Len(Text(t)')]
        BY <4>4, <4>8
      <4> QED
        BY <4>6, <4>7, <4>8, <4>9, <4>10 DEF SlotMirrors
    <3> QED
      BY <3>1, <3>2
  <2> QED
    BY <2>4, <2>5 DEF CacheInv
<1> QED
  BY <1>1, <1>2 DEF SampleToken

LEMMA NextCache == IInv /\ CacheInv /\ [Next]_vars => CacheInv'
<1> SUFFICES ASSUME IInv, CacheInv, [Next]_vars PROVE CacheInv'
  OBVIOUS
<1>1. ASSUME UNCHANGED <<mem, slots, system, system_seq>> PROVE CacheInv'
  BY <1>1, CacheUntouched
<1>2. CASE HostCall
  <2>1. CASE \E prompt \in Prompt, n \in NPredict : Post(prompt, n)
    BY <1>1, <2>1 DEF Post
  <2>2. CASE \E i \in DOMAIN queue : CancelQueued(i)
    BY <1>1, <2>2 DEF CancelQueued
  <2>3. CASE LoraSet
    BY <1>1, <2>3 DEF LoraSet
  <2> QED
    BY <1>2, <2>1, <2>2, <2>3, CancelBusyCache, SetSystemCache, ClearSystemCache, ResetCache,
       UseSequence0Cache DEF HostCall
<1>3. CASE UpdateBegin \/ BatchReady \/ NothingToDecode \/ PassOver \/ UpdateDone \/ UNCHANGED vars
  BY <1>1, <1>3 DEF UpdateBegin, BatchReady, NothingToDecode, PassOver, UpdateDone, vars, stateVars
<1>4. CASE LaunchDone \/ TakeChunk \/ SamplerThrows
  <2>1. UNCHANGED <<mem, system, system_seq>> /\ slots \in [SlotIds -> Slot]
    BY <1>4 DEF LaunchDone, TakeChunk, SamplerThrows, Sampling, IInv, TypeOK
  <2>2. ASSUME NEW s \in SlotIds
        PROVE  /\ slots'[s].id_task = slots[s].id_task
               /\ slots'[s].generating = slots[s].generating
               /\ slots'[s].prompt = slots[s].prompt
               /\ slots'[s].n_past = slots[s].n_past
               /\ slots'[s].pending = slots[s].pending
               /\ slots'[s].produced = slots[s].produced
               /\ slots'[s].logits => slots[s].logits
    <3>1. slots[s] \in Slot
      BY <2>1
    <3>2. CASE LaunchDone
      <4>1. slots'[s] = [slots[s] EXCEPT !.take = 0, !.logits = FALSE]
        BY <3>2 DEF LaunchDone
      <4> QED
        BY <3>1, <4>1 DEF Slot
    <3>3. CASE TakeChunk
      <4>1. slots' = [slots EXCEPT ![at].take = ChunkOf(at)]
        BY <3>3 DEF TakeChunk
      <4>2. slots'[s] = slots[s] \/ slots'[s] = [slots[s] EXCEPT !.take = ChunkOf(at)]
        BY <2>1, <4>1
      <4> QED
        BY <3>1, <4>2 DEF Slot
    <3>4. CASE SamplerThrows
      <4>1. slots' = [slots EXCEPT ![at].logits = FALSE]
        BY <3>4 DEF SamplerThrows
      <4>2. slots'[s] = slots[s] \/ slots'[s] = [slots[s] EXCEPT !.logits = FALSE]
        BY <2>1, <4>1
      <4> QED
        BY <3>1, <4>2 DEF Slot
    <3> QED
      BY <1>4, <3>2, <3>3, <3>4
  <2> QED
    BY <2>1, <2>2, CacheUntouched
<1>5. CASE NoBudget \/ SampleEos
  <2>1. Sampling /\ (Finish(events, "length") \/ Finish(events, "eos"))
    BY <1>5 DEF NoBudget, SampleEos
  <2> QED
    BY <2>1, FinishCache
<1>6. CASE \E tok \in Sampled, stopped \in BOOLEAN : SampleToken(tok, stopped)
  BY <1>6, SampleTokenCache
<1> QED
  BY <1>2, <1>3, <1>4, <1>5, <1>6, LaunchHeadCache, DecodeOkCache, DecodeFailsCache
     DEF Next, UpdateStep

LEMMA CacheAlways == Spec => [](IInv /\ CacheInv)
<1>1. Init => IInv /\ CacheInv
  BY InitIInv, InitCache
<1>2. IInv /\ CacheInv /\ [Next]_vars => (IInv /\ CacheInv)'
  BY NextIInv, NextCache
<1> QED
  BY <1>1, <1>2, PTL DEF Spec

(* What a slot believes of the cache is what the cache holds: its sequence  *)
(* has exactly the first n_past tokens of its text, each at its position,   *)
(* reused system cells included, and at most the token it sampled last is   *)
(* still to be decoded.                                                     *)
THEOREM CacheHoldsTheText == Spec => []KVMirrors
<1>1. IInv /\ CacheInv => KVMirrors
  <2> SUFFICES ASSUME IInv, CacheInv, NEW s \in Busy
               PROVE  /\ Held(mem, s) = Placed(SubSeq(Text(s), 1, slots[s].n_past))
                      /\ slots[s].pending # NoToken =>
                             /\ slots[s].n_past = Len(Text(s)) - 1
                             /\ slots[s].pending = Text(s)[Len(Text(s))]
                      /\ slots[s].generating /\ slots[s].pending = NoToken =>
                             slots[s].n_past = Len(Text(s))
    BY DEF KVMirrors
  <2>1. s \in SlotIds /\ ~Idle(s) /\ SlotMirrors(s)
    BY DEF Busy, CacheInv
  <2> DEFINE text == Text(s)
             n    == slots[s].n_past
  <2>2. Held(mem, s) = Upto(text, n) /\ n <= Len(text)
    BY <2>1 DEF SlotMirrors
  <2>3. text \in Seq(Token) /\ n \in Nat
    BY <2>1, TextType DEF IInv
  <2> HIDE DEF text, n
  <2>4. Placed(SubSeq(text, 1, n)) = Upto(text, n)
    <3>1. /\ SubSeq(text, 0 + 1, 0 + n) \in Seq(Token) /\ Len(SubSeq(text, 0 + 1, 0 + n)) = n
          /\ \A i \in 1 .. n : SubSeq(text, 0 + 1, 0 + n)[i] = text[0 + i]
      BY <2>2, <2>3, SubSeqAt
    <3>2. 0 + 1 = 1 /\ 0 + n = n /\ \A i \in 1 .. n : 0 + i = i
      BY <2>3
    <3>3. DOMAIN SubSeq(text, 1, n) = 1 .. n /\ \A i \in 1 .. n : SubSeq(text, 1, n)[i] = text[i]
      BY <3>1, <3>2
    <3> QED
      BY <3>3 DEF Placed, Upto
  <2>5. Held(mem, s) = Placed(SubSeq(Text(s), 1, slots[s].n_past))
    BY <2>2, <2>4 DEF text, n
  <2> QED
    BY <2>1, <2>5 DEF SlotMirrors
<1> QED
  BY <1>1, CacheAlways, PTL

(* The system prompt stays decoded in its sequence, whatever runs next to   *)
(* it, and is all that two sequences ever share: no task reads the cells of *)
(* another one.                                                             *)
THEOREM TasksAreApart == Spec => []SystemIsolation
<1>1. IInv /\ CacheInv => SystemIsolation
  <2> SUFFICES ASSUME IInv, CacheInv, NEW c \in mem, Cardinality(c.seqs) > 1
               PROVE  system_seq \in c.seqs /\ c.pos < Len(system)
    BY DEF SystemIsolation, CacheInv, SystemHeld
  <2>1. c.seqs \subseteq SeqIds
    BY DEF IInv, TypeOK, Cell
  <2>2. IsFiniteSet(c.seqs)
    BY <2>1, SlotIdsFinite, FS_Subset DEF SlotIds
  <2>3. c.seqs # {}
    BY FS_EmptySet
  <2>4. PICK s \in c.seqs : TRUE
    BY <2>3
  <2>5. c.seqs # {s}
    BY FS_Singleton
  <2>6. \E t \in c.seqs : s # t
    BY <2>4, <2>5
  <2> QED
    BY <2>4, <2>6 DEF CacheInv, SharedWithSystem
<1> QED
  BY <1>1, CacheAlways, PTL
-----------------------------------------------------------------------------
(* Room: what admission promises.  *)

\* The places of the cache the task of slot s has reserved: the positions
\* after those it reuses, up to the last its budget may reach.
Places(s, m, n) == {<<s, p>> : p \in m .. n - 1}

Own(s) == Places(s, slots[s].n_cached, Len(slots[s].prompt) + slots[s].budget)

Room == UNION {Own(s) : s \in Busy}

\* A cell is a running task's or the system prompt's; or, between tasks, what
\* another call left on the first sequence, which the next task takes.
Owned ==
    /\ \A c \in mem :
           /\ c.seqs # {}
           /\ \A s \in c.seqs : s \in Busy \/ s = system_seq \/ (s = 0 /\ Busy = {})
    /\ system_seq # 0

\* In one buffer, the system prompt has one cell at each position, and the
\* cells a task reuses are those.
SystemOnce ==
    Unified => \A c, d \in mem :
        system_seq \in c.seqs /\ system_seq \in d.seqs /\ c.pos = d.pos => c = d

ReusedIsShared ==
    Unified => \A s \in Busy : \A c \in mem :
        s \in c.seqs /\ c.pos < slots[s].n_cached => system_seq \in c.seqs

\* Streams of their own share nothing.
Streams == ~Unified => \A c \in mem : \A s, t \in c.seqs : s = t

\* No task asks for more than its window, nor makes more than it asked for.
WithinWindow ==
    /\ \A k \in DOMAIN queue : Len(queue[k].prompt) + queue[k].budget <= NCtxSeq
    /\ \A s \in Busy :
           /\ Len(slots[s].prompt) + slots[s].budget <= NCtxSeq
           /\ slots[s].n_cached <= slots[s].n_past
           /\ slots[s].n_cached < Len(slots[s].prompt)
           /\ Len(slots[s].produced) < slots[s].budget \/ slots[s].produced = <<>>
    /\ Len(system) <= NCtxSeq

\* What was admitted fits next to the system prompt.
Reserved ==
    Unified => IsFiniteSet(Room) /\ Cardinality(Room) + Len(system) <= NCtx

RoomInv == Owned /\ SystemOnce /\ ReusedIsShared /\ Streams /\ WithinWindow /\ Reserved

LEMMA WindowType == NCtxSeq \in Nat /\ NCtx \in Nat /\ (Unified => NCtxSeq = NCtx)
BY SizesAssumption DEF NCtxSeq

LEMMA SlotSizes ==
    ASSUME TypeOK, NEW s \in SlotIds
    PROVE  /\ slots[s].prompt \in Seq(Token) /\ Len(slots[s].prompt) \in Nat
           /\ slots[s].produced \in Seq(Token) /\ Len(slots[s].produced) \in Nat
           /\ slots[s].budget \in Nat /\ slots[s].n_cached \in Nat
           /\ slots[s].n_past \in Nat /\ slots[s].take \in Nat
BY LenProperties DEF TypeOK, Slot

LEMMA BusyIsSlot == \A s \in Busy : s \in SlotIds /\ s \in Nat
BY SlotIdsFinite DEF Busy

\* As many places as positions.
LEMMA PlacesCount ==
    ASSUME NEW s, NEW m \in Nat, NEW n \in Nat, m <= n
    PROVE  /\ IsFiniteSet(Places(s, m, n))
           /\ Cardinality(Places(s, m, n)) = n - m
<1> DEFINE W == m .. n - 1
           T == {<<s, p>> : p \in W}
           f == [p \in W |-> <<s, p>>]
<1>1. IsFiniteSet(W) /\ Cardinality(W) = n - m
  <2>1. m \in Int /\ n - 1 \in Int /\ (m > n - 1 => n - m = 0) /\ (n - 1) - m + 1 = n - m
    OBVIOUS
  <2>2. /\ IsFiniteSet(m .. n - 1)
        /\ Cardinality(m .. n - 1) = IF m > n - 1 THEN 0 ELSE (n - 1) - m + 1
    BY <2>1, FS_Interval
  <2> QED
    BY <2>1, <2>2
<1>2. f \in Bijection(W, T)
  BY DEF Bijection, Injection, Surjection, IsInjective
<1>3. ExistsBijection(W, T)
  BY <1>2 DEF ExistsBijection
<1>4. IsFiniteSet(T) /\ Cardinality(T) = Cardinality(W)
  <2> HIDE DEF W, T
  <2> QED
    BY <1>1, <1>3, FS_Bijection
<1> QED
  BY <1>1, <1>4, Zenon DEF Places

LEMMA OwnCount ==
    ASSUME TypeOK, WithinWindow, NEW s \in Busy
    PROVE  /\ IsFiniteSet(Own(s))
           /\ Cardinality(Own(s)) = Reserve(s)
<1> DEFINE m == slots[s].n_cached
           l == Len(slots[s].prompt)
           n == l + slots[s].budget
<1>1. s \in SlotIds /\ ~Idle(s)
  BY DEF Busy
<1>2. m \in Nat /\ n \in Nat /\ m <= n /\ l \in Nat /\ slots[s].budget \in Nat
  BY <1>1, SlotSizes DEF WithinWindow
<1>3. Reserve(s) = n - m
  BY <1>1, <1>2 DEF Reserve
<1>4. Own(s) = Places(s, m, n)
  BY DEF Own
<1> HIDE DEF m, n
<1>5. IsFiniteSet(Places(s, m, n)) /\ Cardinality(Places(s, m, n)) = n - m
  BY <1>2, PlacesCount
<1> QED
  BY <1>3, <1>4, <1>5

\* The places reserved by the slots below k.
RoomBelow(k) == UNION {Own(s) : s \in {t \in Busy : t < k}}

LEMMA RoomFinite ==
    ASSUME TypeOK, WithinWindow
    PROVE  /\ IsFiniteSet(Room)
           /\ \A k : IsFiniteSet(RoomBelow(k)) /\ Cardinality(RoomBelow(k)) \in Nat
<1>1. IsFiniteSet(Busy)
  BY SlotIdsFinite, FS_Subset DEF Busy
<1> DEFINE owns == [s \in Busy |-> Own(s)]
           All  == {Own(s) : s \in Busy}
<1>2. owns \in Surjection(Busy, All)
  BY DEF Surjection
<1>3. IsFiniteSet(All)
  BY <1>1, <1>2, FS_Surjection
<1>4. \A T \in All : IsFiniteSet(T)
  BY OwnCount
<1>5. IsFiniteSet(UNION All)
  BY <1>3, <1>4, FS_UNION
<1>6. IsFiniteSet(Room)
  BY <1>5 DEF Room
<1>7. ASSUME NEW k PROVE RoomBelow(k) \in SUBSET Room
  BY DEF RoomBelow, Room
<1> QED
  BY <1>6, <1>7, FS_Subset, FS_CardinalityType

LEMMA OneSlotMore ==
    ASSUME TypeOK, WithinWindow, NEW k \in 1 .. NSeqMax
    PROVE  Cardinality(RoomBelow(k)) = Cardinality(RoomBelow(k - 1)) + Reserve(k - 1)
<1> DEFINE s == k - 1
<1>1. s \in SlotIds /\ s \in Nat
  BY SizesAssumption DEF SlotIds, SeqIds
<1>2. \A t \in Busy : t < k <=> (t < s \/ t = s)
  BY BusyIsSlot
<1>3. IsFiniteSet(RoomBelow(s)) /\ Cardinality(RoomBelow(s)) \in Nat
  BY RoomFinite
<1>4. CASE s \notin Busy
  <2>1. RoomBelow(k) = RoomBelow(s)
    BY <1>2, <1>4 DEF RoomBelow
  <2>2. Reserve(s) = 0
    BY <1>1, <1>4 DEF Reserve, Busy
  <2> QED
    BY <1>3, <2>1, <2>2
<1>5. CASE s \in Busy
  <2>1. RoomBelow(k) = RoomBelow(s) \cup Own(s)
    BY <1>2, <1>5 DEF RoomBelow
  <2>2. RoomBelow(s) \cap Own(s) = {}
    <3> SUFFICES ASSUME NEW r \in RoomBelow(s), r \in Own(s) PROVE FALSE
      OBVIOUS
    <3>1. PICK t \in Busy : t < s /\ r \in Own(t)
      BY DEF RoomBelow
    <3>2. r[1] = t /\ r[1] = s
      BY <3>1 DEF Own, Places
    <3> QED
      BY <1>1, <3>1, <3>2
  <2>3. IsFiniteSet(Own(s)) /\ Cardinality(Own(s)) = Reserve(s)
    BY <1>5, OwnCount
  <2>4. Cardinality(Own(s)) \in Nat
    BY <2>3, FS_CardinalityType
  <2>5. Cardinality(RoomBelow(s) \cup Own(s)) = Cardinality(RoomBelow(s)) + Cardinality(Own(s)) - 0
    BY <1>3, <2>2, <2>3, FS_Union, FS_EmptySet
  <2> QED
    BY <1>3, <2>1, <2>3, <2>4, <2>5
<1> QED
  BY <1>4, <1>5

(* What slots_launch adds up slot by slot is the number of places reserved. *)
LEMMA ReservedIsRoom ==
    ASSUME TypeOK, WithinWindow
    PROVE  slots_reserved = Cardinality(Room)
<1> DEFINE R(k) == Reserve(k - 1)
           Sums(g) == g = [k \in 0 .. NSeqMax |-> IF k = 0 THEN 0 ELSE g[k - 1] + Reserve(k - 1)]
           h == [k \in 0 .. NSeqMax |-> Cardinality(RoomBelow(k))]
           f == ReservedBelow
<1>1. NSeqMax \in Nat
  BY SizesAssumption
<1>2. h[0] = 0
  <2>1. RoomBelow(0) = {}
    BY BusyIsSlot DEF RoomBelow
  <2> QED
    BY <1>1, <2>1, FS_EmptySet
<1>3. \A k \in 1 .. NSeqMax : h[k] = h[k - 1] + Reserve(k - 1)
  BY <1>1, OneSlotMore
<1>4. \A k \in 0 .. NSeqMax : k = 0 \/ k \in 1 .. NSeqMax
  BY <1>1
<1>5. Sums(h)
  <2>1. \A k \in 0 .. NSeqMax : h[k] = IF k = 0 THEN 0 ELSE h[k - 1] + Reserve(k - 1)
    BY <1>2, <1>3, <1>4
  <2>2. h = [k \in 0 .. NSeqMax |-> h[k]]
    OBVIOUS
  <2> HIDE DEF h
  <2> QED
    BY <2>1, <2>2
<1>6. Sums(f)
  <2>1. f = CHOOSE g : Sums(g)
    BY DEF ReservedBelow
  <2> HIDE DEF h, f, Sums
  <2> QED
    BY <1>5, <2>1, Zenon
<1>7. /\ f[0] = 0
      /\ \A k \in 1 .. NSeqMax : f[k] = f[k - 1] + Reserve(k - 1)
  <2> HIDE DEF f
  <2>1. \A k \in 0 .. NSeqMax : f[k] = IF k = 0 THEN 0 ELSE f[k - 1] + Reserve(k - 1)
    BY <1>6
  <2>2. 0 \in 0 .. NSeqMax /\ \A k \in 1 .. NSeqMax : k \in 0 .. NSeqMax /\ k # 0
    BY <1>1
  <2> QED
    BY <2>1, <2>2
<1> HIDE DEF f, h, Sums
<1>8. f[NSeqMax] = h[NSeqMax]
  <2> DEFINE W == {k \in 0 .. NSeqMax : f[k] # h[k]}
  <2> SUFFICES W = {}
    BY <1>1
  <2> SUFFICES ASSUME W # {} PROVE FALSE
    OBVIOUS
  <2>1. PICK k \in W : \A j \in W : k <= j
    <3>1. W \subseteq Nat
      BY <1>1
    <3> QED
      BY <3>1, LeastElement
  <2>2. k \in 1 .. NSeqMax
    BY <1>2, <1>4, <1>7, <2>1
  <2>3. k - 1 \in 0 .. NSeqMax /\ ~(k <= k - 1)
    BY <1>1, <2>2
  <2>4. k - 1 \notin W
    BY <2>1, <2>3
  <2>5. f[k - 1] = h[k - 1]
    BY <2>3, <2>4
  <2> QED
    BY <1>3, <1>7, <2>1, <2>2, <2>5
<1>9. h[NSeqMax] = Cardinality(Room)
  <2>1. RoomBelow(NSeqMax) = Room
    <3>1. \A t \in Busy : t < NSeqMax
      BY <1>1, BusyIsSlot DEF SlotIds, SeqIds
    <3> QED
      BY <3>1 DEF RoomBelow, Room
  <2>2. h[NSeqMax] = Cardinality(RoomBelow(NSeqMax))
    BY <1>1 DEF h
  <2> QED
    BY <2>1, <2>2
<1> QED
  BY <1>8, <1>9 DEF slots_reserved, f

LEMMA InitRoom == Init => RoomInv
<1> SUFFICES ASSUME Init PROVE RoomInv
  OBVIOUS
<1>1. Busy = {} /\ mem = {} /\ queue = <<>> /\ system = <<>> /\ system_seq = -1
  BY DEF Init, Busy, Idle, IdleSlot
<1>2. Room = {}
  BY <1>1 DEF Room
<1>3. Owned /\ SystemOnce /\ ReusedIsShared /\ Streams
  BY <1>1 DEF Owned, SystemOnce, ReusedIsShared, Streams
<1>4. WithinWindow
  BY <1>1, WindowType DEF WithinWindow
<1>5. Reserved
  BY <1>1, <1>2, WindowType, FS_EmptySet DEF Reserved
<1> QED
  BY <1>3, <1>4, <1>5 DEF RoomInv

\* Slots that keep their tasks keep their room.
LEMMA SameRoom ==
    ASSUME \A s \in SlotIds :
               /\ slots'[s].id_task = slots[s].id_task
               /\ slots'[s].prompt = slots[s].prompt
               /\ slots'[s].budget = slots[s].budget
               /\ slots'[s].n_cached = slots[s].n_cached
    PROVE  Busy' = Busy /\ Room' = Room
<1>1. Busy' = Busy
  BY DEF Busy, Idle
<1>2. ASSUME NEW s \in Busy PROVE Own(s)' = Own(s)
  BY DEF Own, Busy
<1>3. Room' = UNION {Own(s)' : s \in Busy}
  BY <1>1 DEF Room
<1> QED
  BY <1>1, <1>2, <1>3 DEF Room

\* Steps that leave the cache and the tasks of the slots: what is new is a
\* task that waits, or a token of a task that may make more.
LEMMA RoomUntouched ==
    ASSUME RoomInv, UNCHANGED <<mem, system, system_seq>>,
           \A k \in DOMAIN queue' : Len(queue'[k].prompt) + queue'[k].budget <= NCtxSeq,
           \A s \in SlotIds :
               /\ slots'[s].id_task = slots[s].id_task
               /\ slots'[s].prompt = slots[s].prompt
               /\ slots'[s].budget = slots[s].budget
               /\ slots'[s].n_cached = slots[s].n_cached
               /\ slots'[s].n_past = slots[s].n_past
               /\ \/ slots'[s].produced = slots[s].produced
                  \/ Len(slots'[s].produced) < slots'[s].budget
    PROVE  RoomInv'
<1>1. Busy' = Busy /\ Room' = Room
  BY SameRoom
<1>2. \A s \in Busy : s \in SlotIds
  BY DEF Busy
<1>3. Owned' /\ SystemOnce' /\ Streams' /\ Reserved'
  BY <1>1 DEF RoomInv, Owned, SystemOnce, Streams, Reserved
<1>4. ReusedIsShared'
  BY <1>1, <1>2 DEF RoomInv, ReusedIsShared
<1>5. WithinWindow'
  BY <1>1, <1>2 DEF RoomInv, WithinWindow
<1> QED
  BY <1>3, <1>4, <1>5 DEF RoomInv

\* Some busy slots leave their tasks, and their sequences the cells.
LEMMA RoomFreed ==
    ASSUME TypeOK, TypeOK', CacheInv, RoomInv, NEW F, F \subseteq Busy,
           UNCHANGED <<queue, system, system_seq>>,
           \A s \in F : slots'[s] = IdleSlot,
           \A s \in SlotIds \ F : slots'[s] = slots[s],
           \A c \in mem' : /\ c.seqs # {}
                           /\ \E d \in mem : c.pos = d.pos /\ c.tok = d.tok /\ c.seqs = d.seqs \ F
    PROVE  RoomInv'
<1>1. Busy' = Busy \ F
  BY DEF Busy, Idle, IdleSlot
<1>2. system_seq \notin F
  BY DEF CacheInv, SystemHeld
<1>3. \A s \in Busy' : s \in Busy /\ slots'[s] = slots[s]
  BY <1>1 DEF Busy
<1>4. Owned'
  <2> SUFFICES ASSUME NEW c \in mem', NEW s \in c.seqs
               PROVE  s \in Busy' \/ s = system_seq \/ (s = 0 /\ Busy' = {})
    BY DEF Owned, RoomInv
  <2>1. PICK d \in mem : c.pos = d.pos /\ c.tok = d.tok /\ c.seqs = d.seqs \ F
    OBVIOUS
  <2> QED
    BY <1>1, <2>1 DEF RoomInv, Owned
<1>5. SystemOnce'
  <2> SUFFICES ASSUME Unified, NEW c \in mem', NEW d \in mem',
                      system_seq \in c.seqs, system_seq \in d.seqs, c.pos = d.pos
               PROVE  c = d
    BY DEF SystemOnce
  <2>1. PICK e \in mem : c.pos = e.pos /\ c.tok = e.tok /\ c.seqs = e.seqs \ F
    OBVIOUS
  <2>2. PICK f \in mem : d.pos = f.pos /\ d.tok = f.tok /\ d.seqs = f.seqs \ F
    OBVIOUS
  <2>3. system_seq \in e.seqs /\ system_seq \in f.seqs /\ e.pos = f.pos
    BY <2>1, <2>2
  <2>4. e = f
    BY <2>3 DEF RoomInv, SystemOnce
  <2>5. c.pos = d.pos /\ c.tok = d.tok /\ c.seqs = d.seqs
    BY <2>1, <2>2, <2>4
  <2>6. c \in Cell /\ d \in Cell
    BY DEF TypeOK
  <2> QED
    BY <2>5, <2>6 DEF Cell
<1>6. ReusedIsShared'
  <2> SUFFICES ASSUME Unified, NEW s \in Busy', NEW c \in mem',
                      s \in c.seqs, c.pos < slots'[s].n_cached
               PROVE  system_seq \in c.seqs
    BY DEF ReusedIsShared
  <2>1. PICK d \in mem : c.pos = d.pos /\ c.tok = d.tok /\ c.seqs = d.seqs \ F
    OBVIOUS
  <2>2. s \in Busy /\ slots'[s].n_cached = slots[s].n_cached
    BY <1>3
  <2>3. system_seq \in d.seqs
    BY <2>1, <2>2 DEF RoomInv, ReusedIsShared
  <2> QED
    BY <1>2, <2>1, <2>3
<1>7. Streams'
  BY DEF RoomInv, Streams
<1>8. WithinWindow'
  BY <1>3 DEF RoomInv, WithinWindow
<1>9. Reserved'
  <2>1. Room' \subseteq Room
    <3>1. \A s \in Busy' : Own(s)' = Own(s)
      BY <1>3 DEF Own
    <3> QED
      BY <1>3, <3>1 DEF Room
  <2>2. ASSUME Unified PROVE IsFiniteSet(Room') /\ Cardinality(Room') + Len(system) <= NCtx
    <3>1. IsFiniteSet(Room) /\ Cardinality(Room) + Len(system) <= NCtx
      BY <2>2 DEF RoomInv, Reserved
    <3>2. IsFiniteSet(Room') /\ Cardinality(Room') <= Cardinality(Room)
      BY <2>1, <3>1, FS_Subset
    <3>3. Cardinality(Room) \in Nat /\ Cardinality(Room') \in Nat /\ Len(system) \in Nat /\ NCtx \in Nat
      BY <3>1, <3>2, FS_CardinalityType, WindowType DEF TypeOK
    <3> QED
      BY <3>1, <3>2, <3>3
  <2> QED
    BY <2>2 DEF Reserved
<1> QED
  BY <1>4, <1>5, <1>6, <1>7, <1>8, <1>9 DEF RoomInv

\* Removing a sequence leaves no cell of nobody.
LEMMA RemovedOrigin ==
    ASSUME TypeOK, Owned, NEW s
    PROVE  \A c \in SeqRm(mem, s, 0) :
               /\ c.seqs # {}
               /\ \E d \in mem : c.pos = d.pos /\ c.tok = d.tok /\ c.seqs = d.seqs \ {s}
<1> TAKE c \in SeqRm(mem, s, 0)
<1>1. mem \subseteq Cell /\ \A d \in mem : d.pos >= 0
  BY DEF TypeOK, Cell
<1>2. PICK d \in mem : Cut(c, d, s, 0)
  BY <1>1, SeqRmCells
<1>3. d.seqs # {} /\ d.pos >= 0
  BY <1>1 DEF Owned
<1>4. c.pos = d.pos /\ c.tok = d.tok /\ c.seqs = d.seqs \ {s}
  BY <1>2, <1>3 DEF Cut
<1>5. c.seqs # {}
  BY <1>2, <1>3, <1>4 DEF Cut
<1> QED
  BY <1>4, <1>5

LEMMA ReleasedOrigin ==
    ASSUME TypeOK, NEW ss
    PROVE  \A c \in Released(ss) :
               /\ c.seqs # {}
               /\ \E d \in mem : c.pos = d.pos /\ c.tok = d.tok /\ c.seqs = d.seqs \ ss
<1>1. ASSUME NEW d \in mem
      PROVE  LET c == [d EXCEPT !.seqs = @ \ ss]
             IN  c.pos = d.pos /\ c.tok = d.tok /\ c.seqs = d.seqs \ ss
  BY DEF TypeOK, Cell
<1> TAKE c \in Released(ss)
<1>2. PICK d \in mem : ~(d.seqs \subseteq ss) /\ c = [d EXCEPT !.seqs = @ \ ss]
  BY DEF Released
<1>3. c.pos = d.pos /\ c.tok = d.tok /\ c.seqs = d.seqs \ ss
  BY <1>1, <1>2
<1> QED
  BY <1>2, <1>3

LEMMA CancelBusyRoom ==
    ASSUME IInv, IInv', CacheInv, RoomInv, NEW s \in SlotIds, CancelBusy(s)
    PROVE  RoomInv'
<1>1. /\ s \in Busy /\ mem' = SeqRm(mem, s, 0) /\ UNCHANGED <<queue, system, system_seq>>
      /\ slots' = [slots EXCEPT ![s] = IdleSlot]
  BY DEF CancelBusy
<1>2. TypeOK /\ TypeOK' /\ Owned
  BY DEF IInv, RoomInv
<1>3. slots'[s] = IdleSlot /\ \A t \in SlotIds \ {s} : slots'[t] = slots[t]
  BY <1>1, <1>2 DEF TypeOK
<1>4. {s} \subseteq Busy /\ \A t \in {s} : slots'[t] = IdleSlot
  BY <1>1, <1>3
<1>5. \A c \in mem' : /\ c.seqs # {}
                      /\ \E d \in mem : c.pos = d.pos /\ c.tok = d.tok /\ c.seqs = d.seqs \ {s}
  BY <1>1, <1>2, RemovedOrigin, Zenon
<1> QED
  BY <1>1, <1>2, <1>3, <1>4, <1>5, RoomFreed, Zenon

LEMMA FinishRoom ==
    ASSUME IInv, IInv', CacheInv, RoomInv, Sampling, NEW evs, NEW reason, Finish(evs, reason)
    PROVE  RoomInv'
<1>1. TypeOK /\ TypeOK' /\ Owned
  BY DEF IInv, RoomInv
<1>2. /\ at \in Busy /\ mem' = SeqRm(mem, at, 0) /\ UNCHANGED <<queue, system, system_seq>>
      /\ slots' = [slots EXCEPT ![at] = IdleSlot]
  BY <1>1, SizesAssumption DEF Sampling, Finish, Busy, TypeOK, SlotIds, SeqIds
<1>3. slots'[at] = IdleSlot /\ \A t \in SlotIds \ {at} : slots'[t] = slots[t]
  BY <1>1, <1>2 DEF TypeOK, Busy
<1>4. {at} \subseteq Busy /\ \A t \in {at} : slots'[t] = IdleSlot
  BY <1>2, <1>3
<1>5. \A c \in mem' : /\ c.seqs # {}
                      /\ \E d \in mem : c.pos = d.pos /\ c.tok = d.tok /\ c.seqs = d.seqs \ {at}
  BY <1>1, <1>2, RemovedOrigin, Zenon
<1> QED
  BY <1>1, <1>2, <1>3, <1>4, <1>5, RoomFreed, Zenon

LEMMA DecodeFailsRoom ==
    ASSUME IInv, IInv', CacheInv, RoomInv, DecodeFails
    PROVE  RoomInv'
<1>1. TypeOK /\ TypeOK'
  BY DEF IInv
<1>2. /\ mem' = Released(InBatch) /\ UNCHANGED <<queue, system, system_seq>>
      /\ slots' = [s \in SlotIds |-> IF s \in InBatch THEN IdleSlot ELSE slots[s]]
  BY DEF DecodeFails
<1>3. InBatch \subseteq Busy /\ InBatch \subseteq SlotIds
  BY InBatchBusy DEF Busy
<1>4. /\ \A s \in InBatch : slots'[s] = IdleSlot
      /\ \A s \in SlotIds \ InBatch : slots'[s] = slots[s]
  BY <1>2, <1>3
<1>5. \A c \in mem' : /\ c.seqs # {}
                      /\ \E d \in mem : c.pos = d.pos /\ c.tok = d.tok /\ c.seqs = d.seqs \ InBatch
  BY <1>1, <1>2, ReleasedOrigin, Zenon
<1> QED
  BY <1>1, <1>2, <1>3, <1>4, <1>5, RoomFreed, Zenon

\* The cache changes between tasks: a text on the first sequence, the system
\* prompt in its own.
LEMMA RoomBetweenTasks ==
    ASSUME RoomInv, Busy = {}, slots' = slots, queue' = queue,
           system_seq' # 0, Len(system') <= NCtxSeq,
           \A c \in mem' : c.seqs # {} /\ \A s \in c.seqs : s = 0 \/ s = system_seq',
           \A c \in mem' : \A s, t \in c.seqs : s = t,
           SystemOnce'
    PROVE  RoomInv'
<1>1. Busy' = {} /\ Room' = {}
  BY DEF Busy, Idle, Room
<1>2. Owned' /\ ReusedIsShared' /\ Streams'
  BY <1>1 DEF Owned, ReusedIsShared, Streams
<1>3. WithinWindow'
  BY <1>1 DEF RoomInv, WithinWindow
<1>4. Reserved'
  <2>1. IsFiniteSet(Room') /\ Cardinality(Room') = 0
    BY <1>1, FS_EmptySet
  <2>2. Unified => Cardinality(Room') + Len(system') <= NCtx
    BY <2>1, WindowType
  <2> QED
    BY <2>1, <2>2 DEF Reserved
<1> QED
  BY <1>2, <1>3, <1>4 DEF RoomInv

LEMMA WithoutSystemOwned ==
    ASSUME TypeOK, Owned, Busy = {}
    PROVE  \A c \in WithoutSystem : c.seqs # {} /\ \A s \in c.seqs : s = 0
<1> TAKE c \in WithoutSystem
<1>1. CASE system_seq >= 0
  <2>1. c \in SeqRm(mem, system_seq, 0)
    BY <1>1 DEF WithoutSystem
  <2>2. PICK d \in mem : c.pos = d.pos /\ c.tok = d.tok /\ c.seqs = d.seqs \ {system_seq}
    BY <2>1, RemovedOrigin
  <2>3. c.seqs # {}
    BY <2>1, RemovedOrigin
  <2> QED
    BY <2>2, <2>3 DEF Owned
<1>2. CASE ~(system_seq >= 0)
  <2>1. c \in mem
    BY <1>2 DEF WithoutSystem
  <2>2. \A s \in SeqIds : s >= 0
    BY SizesAssumption DEF SeqIds
  <2>3. \A s \in c.seqs : s # system_seq
    BY <1>2, <2>1, <2>2 DEF TypeOK, Cell
  <2> QED
    BY <2>1, <2>3 DEF Owned
<1> QED
  BY <1>1, <1>2

LEMMA NewCellsOnce ==
    ASSUME NEW s, NEW first \in Nat, NEW toks \in Seq(Token),
           NEW c \in NewCells(s, first, toks), NEW d \in NewCells(s, first, toks), c.pos = d.pos
    PROVE  c = d
<1>1. DOMAIN toks \subseteq Int
  OBVIOUS
<1>2. PICK i \in DOMAIN toks : c = [pos |-> first + i - 1, tok |-> toks[i], seqs |-> {s}]
  BY DEF NewCells
<1>3. PICK j \in DOMAIN toks : d = [pos |-> first + j - 1, tok |-> toks[j], seqs |-> {s}]
  BY DEF NewCells
<1>4. i \in Int /\ j \in Int
  BY <1>1
<1>5. c.pos = first + i - 1 /\ d.pos = first + j - 1
  BY <1>2, <1>3
<1>6. first + i - 1 = first + j - 1
  BY <1>5, Zenon
<1>7. i = j
  BY <1>4, <1>6
<1> QED
  BY <1>2, <1>3, <1>7, Zenon

LEMMA SetSystemRoom ==
    ASSUME IInv, CacheInv, RoomInv, NEW toks \in SystemPrompt, SetSystem(toks)
    PROVE  RoomInv'
<1> DEFINE seq == NSeqMax - 1
           new == NewCells(seq, 0, toks)
<1>1. /\ Busy = {} /\ slots' = slots /\ queue' = queue /\ CellsOf(WithoutSystem, seq) = {}
      /\ mem' = WithoutSystem \cup new /\ system' = toks /\ system_seq' = seq
      /\ NSeqMax >= 2 /\ Len(toks) < NCtxSeq
  BY DEF SetSystem, slots_active
<1>2. TypeOK /\ Owned /\ toks \in Seq(Token)
  BY SlotsAssumption DEF IInv, RoomInv
<1>3. seq # 0
  BY <1>1, SizesAssumption
<1>4. Len(toks) <= NCtxSeq
  BY <1>1, <1>2, WindowType
<1>5. \A c \in mem' : c.seqs # {} /\ \A s \in c.seqs : s = 0 \/ s = seq
  <2>1. \A c \in new : c.seqs # {} /\ \A s \in c.seqs : s = seq
    BY NewCellsOwned
  <2>2. \A c \in WithoutSystem : c.seqs # {} /\ \A s \in c.seqs : s = 0
    BY <1>1, <1>2, WithoutSystemOwned
  <2> QED
    BY <1>1, <2>1, <2>2
<1>6. \A c \in mem' : \A s, t \in c.seqs : s = t
  <2>1. \A c \in new : \A s, t \in c.seqs : s = t
    BY NewCellsOwned
  <2>2. \A c \in WithoutSystem : \A s, t \in c.seqs : s = t
    BY <1>1, <1>2, WithoutSystemOwned
  <2> QED
    BY <1>1, <2>1, <2>2
<1>7. SystemOnce'
  <2> SUFFICES ASSUME NEW c \in mem', NEW d \in mem', seq \in c.seqs, seq \in d.seqs, c.pos = d.pos
               PROVE  c = d
    BY <1>1 DEF SystemOnce
  <2>1. c \in new /\ d \in new
    BY <1>1 DEF CellsOf
  <2> QED
    BY <1>2, <2>1, NewCellsOnce
<1> HIDE DEF seq
<1> QED
  BY <1>1, <1>3, <1>4, <1>5, <1>6, <1>7, RoomBetweenTasks

LEMMA ClearSystemRoom ==
    ASSUME IInv, CacheInv, RoomInv, IInv', ClearSystem
    PROVE  RoomInv'
<1>1. /\ Busy = {} /\ slots' = slots /\ queue' = queue /\ system' = <<>> /\ system_seq' = -1
      /\ mem' = WithoutSystem \/ mem' = SeqRm(WithoutSystem, NSeqMax - 1, 0)
  BY DEF ClearSystem, slots_active
<1>2. TypeOK /\ Owned /\ TypeOK'
  BY DEF IInv, RoomInv
<1>3. WithoutSystem \subseteq Cell
  BY <1>2, WithoutSystemType
<1>4. \A c \in WithoutSystem : c.seqs # {} /\ \A s \in c.seqs : s = 0
  BY <1>1, <1>2, WithoutSystemOwned
<1>5. ASSUME NEW c \in SeqRm(WithoutSystem, NSeqMax - 1, 0)
      PROVE  c.seqs # {} /\ \A s \in c.seqs : s = 0
  <2>1. PICK d \in WithoutSystem : Cut(c, d, NSeqMax - 1, 0)
    BY <1>3, SeqRmCells
  <2> QED
    BY <1>4, <2>1 DEF Cut
<1>6. \A c \in mem' : c.seqs # {} /\ \A s \in c.seqs : s = 0
  BY <1>1, <1>4, <1>5
<1>7. SystemOnce'
  BY <1>1, <1>6 DEF SystemOnce
<1>8. Len(system') <= NCtxSeq /\ system_seq' # 0
  BY <1>1, WindowType
<1> QED
  BY <1>1, <1>6, <1>7, <1>8, RoomBetweenTasks

LEMMA UseSequence0Room ==
    ASSUME IInv, CacheInv, RoomInv, NEW text \in Leftover, UseSequence0(text)
    PROVE  RoomInv'
<1> DEFINE new  == NewCells(0, 0, text)
           rest == SeqRm(mem, 0, 0)
<1>1. /\ Busy = {} /\ slots' = slots /\ queue' = queue /\ UNCHANGED <<system, system_seq>>
      /\ system_seq # 0 /\ mem' = rest \cup new
  BY DEF UseSequence0, slots_active
<1>2. TypeOK /\ Owned
  BY DEF IInv, RoomInv
<1>3. ASSUME NEW c \in rest
      PROVE  c.seqs # {} /\ \A s \in c.seqs : s = system_seq
  <2>1. PICK d \in mem : c.pos = d.pos /\ c.tok = d.tok /\ c.seqs = d.seqs \ {0}
    BY <1>2, RemovedOrigin
  <2>2. c.seqs # {}
    BY <1>2, RemovedOrigin
  <2> QED
    BY <1>1, <1>2, <2>1, <2>2 DEF Owned
<1>4. \A c \in new : c.seqs = {0}
  BY NewCellsOwned
<1>5. \A c \in mem' : c.seqs # {} /\ \A s \in c.seqs : s = 0 \/ s = system_seq
  BY <1>1, <1>3, <1>4
<1>6. \A c \in mem' : \A s, t \in c.seqs : s = t
  BY <1>1, <1>3, <1>4
<1>7. SystemOnce'
  <2> SUFFICES ASSUME Unified, NEW c \in mem', NEW d \in mem',
                      system_seq \in c.seqs, system_seq \in d.seqs, c.pos = d.pos
               PROVE  c = d
    BY <1>1 DEF SystemOnce
  <2>1. c \in rest /\ d \in rest
    BY <1>1, <1>4
  <2>2. PICK e \in mem : c.pos = e.pos /\ c.tok = e.tok /\ c.seqs = e.seqs \ {0}
    BY <1>2, <2>1, RemovedOrigin
  <2>3. PICK f \in mem : d.pos = f.pos /\ d.tok = f.tok /\ d.seqs = f.seqs \ {0}
    BY <1>2, <2>1, RemovedOrigin
  <2>4. e = f
    BY <2>2, <2>3 DEF RoomInv, SystemOnce
  <2>5. c \in Cell /\ d \in Cell
    BY <1>2, <2>1, SeqRmType DEF TypeOK
  <2> QED
    BY <2>2, <2>3, <2>4, <2>5 DEF Cell
<1>8. Len(system') <= NCtxSeq /\ system_seq' # 0
  BY <1>1 DEF RoomInv, WithinWindow
<1> QED
  BY <1>1, <1>5, <1>6, <1>7, <1>8, RoomBetweenTasks

LEMMA ResetRoom ==
    ASSUME Reset
    PROVE  RoomInv'
<1>1. \A s \in SlotIds : slots'[s] = IdleSlot
  BY DEF Reset
<1>2. Busy' = {} /\ mem' = {} /\ queue' = <<>> /\ system' = <<>> /\ system_seq' = -1
  BY <1>1 DEF Reset, Busy, Idle, IdleSlot
<1>3. Room' = {}
  BY <1>2 DEF Room
<1>4. Owned' /\ SystemOnce' /\ ReusedIsShared' /\ Streams'
  BY <1>2 DEF Owned, SystemOnce, ReusedIsShared, Streams
<1>5. WithinWindow'
  BY <1>2, WindowType DEF WithinWindow
<1>6. Reserved'
  BY <1>2, <1>3, WindowType, FS_EmptySet DEF Reserved
<1> QED
  BY <1>4, <1>5, <1>6 DEF RoomInv

LEMMA DecodeOkRoom ==
    ASSUME IInv, IInv', CacheInv, RoomInv, DecodeOk
    PROVE  RoomInv'
<1>1. /\ mem' = mem \cup BatchCells /\ UNCHANGED <<queue, system, system_seq>>
      /\ slots' = [s \in SlotIds |->
           IF s \in Decoding
           THEN [slots[s] EXCEPT !.n_past = @ + 1, !.pending = NoToken, !.logits = TRUE]
           ELSE IF s \in Chunked
           THEN [slots[s] EXCEPT !.n_past = @ + slots[s].take, !.take = 0,
                                 !.logits = LastChunk(s), !.generating = LastChunk(s)]
           ELSE slots[s]]
  BY DEF DecodeOk
<1>2. ASSUME NEW s \in SlotIds
      PROVE  /\ slots'[s].id_task = slots[s].id_task
             /\ slots'[s].prompt = slots[s].prompt
             /\ slots'[s].budget = slots[s].budget
             /\ slots'[s].n_cached = slots[s].n_cached
             /\ slots'[s].produced = slots[s].produced
             /\ slots'[s].n_past \in {slots[s].n_past, slots[s].n_past + 1,
                                      slots[s].n_past + slots[s].take}
  <2>1. slots[s] \in Slot
    BY DEF IInv, TypeOK
  <2>2. CASE s \in Decoding
    <3>1. slots'[s] = [slots[s] EXCEPT !.n_past = @ + 1, !.pending = NoToken, !.logits = TRUE]
      BY <1>1, <2>2
    <3> QED
      BY <2>1, <3>1 DEF Slot
  <2>3. CASE s \notin Decoding /\ s \in Chunked
    <3>1. slots'[s] = [slots[s] EXCEPT !.n_past = @ + slots[s].take, !.take = 0,
                                 !.logits = LastChunk(s), !.generating = LastChunk(s)]
      BY <1>1, <2>3
    <3> QED
      BY <2>1, <3>1 DEF Slot
  <2>4. CASE s \notin Decoding /\ s \notin Chunked
    BY <1>1, <2>4
  <2> QED
    BY <2>2, <2>3, <2>4
<1>3. Busy' = Busy /\ Room' = Room
  BY <1>2, SameRoom
<1>4. InBatch \subseteq Busy /\ InBatch \subseteq SlotIds /\ system_seq \notin InBatch
  BY InBatchBusy DEF Busy, CacheInv, SystemHeld
<1>5. ASSUME NEW c \in BatchCells
      PROVE  \E s \in InBatch : c.seqs = {s} /\ ~(c.pos < slots[s].n_cached)
  <2>1. PICK s \in InBatch : c \in NewCells(s, slots[s].n_past, RowsOf(s))
    BY DEF BatchCells
  <2>2. c.seqs = {s} /\ \E i \in DOMAIN RowsOf(s) : c.pos = slots[s].n_past + i - 1
    BY <2>1, NewCellsOwned
  <2>3. DOMAIN RowsOf(s) = 1 .. Len(RowsOf(s))
    BY RowsOfText
  <2>4. /\ slots[s].n_past \in Nat /\ slots[s].n_cached \in Nat
        /\ slots[s].n_cached <= slots[s].n_past
    BY <1>4, SlotSizes DEF IInv, RoomInv, WithinWindow
  <2>5. ~(c.pos < slots[s].n_cached)
    BY <2>2, <2>3, <2>4
  <2> QED
    BY <2>2, <2>5
<1>6. Owned'
  BY <1>1, <1>3, <1>4, <1>5 DEF RoomInv, Owned
<1>7. SystemOnce'
  <2> SUFFICES ASSUME Unified, NEW c \in mem', NEW d \in mem',
                      system_seq \in c.seqs, system_seq \in d.seqs, c.pos = d.pos
               PROVE  c = d
    BY <1>1 DEF SystemOnce
  <2>1. c \notin BatchCells /\ d \notin BatchCells
    BY <1>4, <1>5
  <2> QED
    BY <1>1, <2>1 DEF RoomInv, SystemOnce
<1>8. ReusedIsShared'
  <2> SUFFICES ASSUME Unified, NEW s \in Busy, NEW c \in mem',
                      s \in c.seqs, c.pos < slots[s].n_cached
               PROVE  system_seq \in c.seqs
    BY <1>1, <1>2, <1>3 DEF ReusedIsShared, Busy
  <2>1. c \notin BatchCells
    BY <1>5
  <2> QED
    BY <1>1, <2>1 DEF RoomInv, ReusedIsShared
<1>9. Streams'
  BY <1>1, <1>5 DEF RoomInv, Streams
<1>10. WithinWindow'
  <2>1. ASSUME NEW s \in Busy
        PROVE  s \in SlotIds /\ slots[s].n_cached <= slots'[s].n_past
    <3>1. s \in SlotIds /\ slots[s].n_cached <= slots[s].n_past
      BY BusyIsSlot DEF RoomInv, WithinWindow
    <3>2. slots[s].n_cached \in Nat /\ slots[s].n_past \in Nat /\ slots[s].take \in Nat
      BY <3>1, SlotSizes DEF IInv
    <3> QED
      BY <1>2, <3>1, <3>2
  <2> QED
    BY <1>1, <1>2, <1>3, <2>1 DEF RoomInv, WithinWindow
<1>11. Reserved'
  BY <1>1, <1>3 DEF RoomInv, Reserved
<1> QED
  BY <1>6, <1>7, <1>8, <1>9, <1>10, <1>11 DEF RoomInv

\* Where the cells come from after a launch: in one buffer the slot's sequence
\* joins the cells of the system prompt below `keep`; else it has copies of them.
LEMMA AdoptedOrigin ==
    ASSUME TypeOK, Owned, NEW s \in SlotIds, s # system_seq, NEW keep \in Nat
    PROVE  \A c \in Adopted(SeqRm(mem, s, 0), s, keep) :
             /\ c.seqs # {}
             /\ \E d \in mem :
                /\ c.pos = d.pos /\ c.tok = d.tok
                /\ Unified => c.seqs = IF system_seq \in d.seqs /\ d.pos < keep
                                       THEN d.seqs \cup {s} ELSE d.seqs \ {s}
                /\ ~Unified => c.seqs = d.seqs \ {s} \/ c.seqs = {s}
<1> DEFINE own  == SeqRm(mem, s, 0)
           copy == SeqCp(own, system_seq, s)
<1>1. mem \subseteq Cell /\ own \subseteq Cell /\ copy \subseteq Cell
  BY SeqRmType, SeqCpType DEF TypeOK, SlotIds
<1>2. \A c \in own : /\ c.seqs # {}
                     /\ \E d \in mem : c.pos = d.pos /\ c.tok = d.tok /\ c.seqs = d.seqs \ {s}
  BY RemovedOrigin
<1>3. \A d \in mem : d.pos >= 0 /\ d.pos \in Nat
  BY <1>1 DEF Cell
<1>4. CASE ~(keep > 0)
  <2>1. Adopted(own, s, keep) = own /\ \A d \in mem : ~(d.pos < keep)
    BY <1>3, <1>4 DEF Adopted
  <2> QED
    BY <1>2, <2>1
<1>5. CASE keep > 0
  <2> TAKE c \in Adopted(own, s, keep)
  <2>1. c \in SeqRm(copy, s, keep)
    BY <1>5 DEF Adopted
  <2>2. PICK e \in copy : Cut(c, e, s, keep)
    BY <1>1, <2>1, SeqRmCells
  <2>3. PICK f \in own : Copied(e, f, system_seq, s)
    BY <1>1, SeqCpCells
  <2>4. PICK d \in mem : f.pos = d.pos /\ f.tok = d.tok /\ f.seqs = d.seqs \ {s}
    BY <1>2
  <2>5. f.seqs # {} /\ s \notin f.seqs /\ (system_seq \in f.seqs <=> system_seq \in d.seqs)
    BY <1>2, <2>4
  <2>6. c.pos = d.pos /\ c.tok = d.tok /\ d.pos \in Nat /\ e.pos = d.pos
    BY <1>3, <2>2, <2>3, <2>4 DEF Cut, Copied
  <2>7. \/ c.seqs = e.seqs /\ ~(s \in e.seqs /\ d.pos >= keep)
        \/ s \in e.seqs /\ d.pos >= keep /\ e.seqs # {s} /\ c.seqs = e.seqs \ {s}
    BY <2>2, <2>6 DEF Cut
  <2>8. d.pos >= keep <=> ~(d.pos < keep)
    BY <2>6
  <2>9. CASE Unified
    <3>1. e.seqs = IF system_seq \in d.seqs THEN f.seqs \cup {s} ELSE f.seqs
      BY <2>3, <2>5, <2>9 DEF Copied
    <3>2. c.seqs = IF system_seq \in d.seqs /\ d.pos < keep THEN d.seqs \cup {s} ELSE d.seqs \ {s}
      BY <2>4, <2>5, <2>7, <2>8, <3>1
    <3>3. c.seqs # {}
      BY <2>5, <2>7, <3>1
    <3> QED
      BY <2>6, <2>9, <3>2, <3>3
  <2>10. CASE ~Unified
    <3>1. e.seqs = f.seqs \/ e.seqs = {s}
      BY <2>3, <2>10 DEF Copied
    <3>2. c.seqs # {} /\ (c.seqs = d.seqs \ {s} \/ c.seqs = {s})
      BY <2>4, <2>5, <2>7, <3>1
    <3> QED
      BY <2>6, <2>10, <3>2
  <2> QED
    BY <2>9, <2>10
<1> QED
  BY <1>4, <1>5

\* A task t moves into slot s, next to what the busy slots have reserved, and
\* reuses `keep` cells of the system prompt.
LEMMA LaunchedRoom ==
    ASSUME TypeOK, TypeOK', CacheInv, RoomInv,
           NEW t \in Task, NEW s \in SlotIds, NEW keep \in Nat,
           Idle(s), s # system_seq, Busy = {} => s = 0, keep < Len(t.prompt),
           mem' = Adopted(SeqRm(mem, s, 0), s, keep), UNCHANGED <<system, system_seq>>,
           slots'[s].id_task = t.id, slots'[s].prompt = t.prompt,
           slots'[s].budget = t.budget, slots'[s].n_cached = keep,
           slots'[s].n_past = keep, slots'[s].produced = slots[s].produced,
           \A r \in SlotIds \ {s} : slots'[r] = slots[r],
           Len(t.prompt) + t.budget <= NCtxSeq,
           \A k \in DOMAIN queue' : Len(queue'[k].prompt) + queue'[k].budget <= NCtxSeq,
           Unified => slots_reserved + Len(system) + Len(t.prompt) - keep + t.budget <= NCtx
    PROVE  RoomInv'
<1>1. Owned /\ Streams
  BY DEF RoomInv
<1>3. /\ t.prompt \in Seq(Token) \ {<<>>} /\ t.id \in Nat \ {0} /\ t.budget \in Nat
      /\ Len(t.prompt) \in Nat
  BY LenProperties DEF Task
<1>9. slots_reserved = Cardinality(Room) /\ IsFiniteSet(Room) /\ Cardinality(Room) \in Nat
  BY ReservedIsRoom, RoomFinite, FS_CardinalityType DEF RoomInv
<1>10. Busy' = Busy \cup {s} /\ s \notin Busy
  BY <1>1, <1>3 DEF Busy, Idle
<1>11. \A c \in mem' :
             /\ c.seqs # {}
             /\ \E d \in mem :
                /\ c.pos = d.pos /\ c.tok = d.tok
                /\ Unified => c.seqs = IF system_seq \in d.seqs /\ d.pos < keep
                                       THEN d.seqs \cup {s} ELSE d.seqs \ {s}
                /\ ~Unified => c.seqs = d.seqs \ {s} \/ c.seqs = {s}
  BY <1>1, <1>3, AdoptedOrigin, Zenon
<1>12. Owned'
  <2>1. ASSUME NEW c \in mem', NEW r \in c.seqs
        PROVE  r \in Busy' \/ r = system_seq
    <3>1. PICK d \in mem : r = s \/ (r \in d.seqs /\ r # s)
      <4>1. PICK d \in mem :
                /\ Unified => c.seqs = IF system_seq \in d.seqs /\ d.pos < keep
                                       THEN d.seqs \cup {s} ELSE d.seqs \ {s}
                /\ ~Unified => c.seqs = d.seqs \ {s} \/ c.seqs = {s}
        BY <1>11
      <4>2. r \in d.seqs \cup {s}
        BY <4>1
      <4> QED
        BY <4>2
    <3> QED
      BY <1>10, <3>1 DEF RoomInv, Owned
  <2> QED
    BY <1>11, <2>1 DEF RoomInv, Owned
<1>13. SystemOnce'
  <2> SUFFICES ASSUME Unified, NEW c \in mem', NEW d \in mem',
                      system_seq \in c.seqs, system_seq \in d.seqs, c.pos = d.pos
               PROVE  c = d
    BY DEF SystemOnce
  <2>1. PICK e \in mem :
           /\ c.pos = e.pos /\ c.tok = e.tok
           /\ c.seqs = IF system_seq \in e.seqs /\ e.pos < keep THEN e.seqs \cup {s} ELSE e.seqs \ {s}
    BY <1>11
  <2>2. PICK f \in mem :
           /\ d.pos = f.pos /\ d.tok = f.tok
           /\ d.seqs = IF system_seq \in f.seqs /\ f.pos < keep THEN f.seqs \cup {s} ELSE f.seqs \ {s}
    BY <1>11
  <2>3. system_seq \in e.seqs /\ system_seq \in f.seqs /\ e.pos = f.pos
    BY <1>1, <2>1, <2>2
  <2>4. e = f
    BY <2>3 DEF RoomInv, SystemOnce
  <2>5. c.pos = d.pos /\ c.tok = d.tok /\ c.seqs = d.seqs
    BY <2>1, <2>2, <2>4
  <2>6. c \in Cell /\ d \in Cell
    BY <1>1 DEF TypeOK
  <2> QED
    BY <2>5, <2>6 DEF Cell
<1>14. ReusedIsShared'
  <2> SUFFICES ASSUME Unified, NEW r \in Busy', NEW c \in mem',
                      r \in c.seqs, c.pos < slots'[r].n_cached
               PROVE  system_seq \in c.seqs
    BY DEF ReusedIsShared
  <2>1. PICK d \in mem :
           /\ c.pos = d.pos
           /\ c.seqs = IF system_seq \in d.seqs /\ d.pos < keep THEN d.seqs \cup {s} ELSE d.seqs \ {s}
    BY <1>11
  <2>2. system_seq \in d.seqs => system_seq \in c.seqs
    BY <1>1, <2>1
  <2>3. CASE r = s
    BY <2>1, <2>2, <2>3
  <2>4. CASE r # s
    <3>1. r \in Busy /\ r \in d.seqs /\ slots'[r].n_cached = slots[r].n_cached
      BY <1>10, <2>1, <2>4 DEF Busy
    <3> QED
      BY <2>1, <2>2, <3>1 DEF RoomInv, ReusedIsShared
  <2> QED
    BY <2>3, <2>4
<1>15. Streams'
  <2> SUFFICES ASSUME ~Unified, NEW c \in mem', NEW p \in c.seqs, NEW q \in c.seqs
               PROVE  p = q
    BY DEF Streams
  <2>1. PICK d \in mem : c.seqs = d.seqs \ {s} \/ c.seqs = {s}
    BY <1>11
  <2> QED
    BY <1>1, <2>1 DEF Streams
<1>16. WithinWindow'
  <2>1. slots[s].produced = <<>>
    BY <1>1 DEF CacheInv, SlotMirrors
  <2>2. ASSUME NEW r \in Busy'
        PROVE  /\ Len(slots'[r].prompt) + slots'[r].budget <= NCtxSeq
               /\ slots'[r].n_cached <= slots'[r].n_past
               /\ slots'[r].n_cached < Len(slots'[r].prompt)
               /\ Len(slots'[r].produced) < slots'[r].budget \/ slots'[r].produced = <<>>
    <3>1. CASE r = s
      BY <1>3, <2>1, <3>1
    <3>2. CASE r # s
      <4>1. r \in Busy /\ slots'[r] = slots[r]
        BY <1>10, <3>2 DEF Busy
      <4> QED
        BY <4>1 DEF RoomInv, WithinWindow
    <3> QED
      BY <3>1, <3>2
  <2>3. Len(system') <= NCtxSeq
    BY DEF RoomInv, WithinWindow
  <2> QED
    BY <2>2, <2>3 DEF WithinWindow
<1>17. Reserved'
  <2>1. \A r \in Busy : Own(r)' = Own(r)
    BY <1>10 DEF Own, Busy
  <2>2. Own(s)' = Places(s, keep, Len(t.prompt) + t.budget)
    BY DEF Own
  <2>3. Room' = Room \cup Places(s, keep, Len(t.prompt) + t.budget)
    <3>1. Room' = UNION {Own(r)' : r \in Busy \cup {s}}
      BY <1>10 DEF Room
    <3> QED
      BY <2>1, <2>2, <3>1 DEF Room
  <2> DEFINE new == Places(s, keep, Len(t.prompt) + t.budget)
             n   == Len(t.prompt) + t.budget
  <2>4. n \in Nat /\ keep <= n
    BY <1>3
  <2>5. IsFiniteSet(new) /\ Cardinality(new) = n - keep
    <3> HIDE DEF n
    <3>1. IsFiniteSet(Places(s, keep, n)) /\ Cardinality(Places(s, keep, n)) = n - keep
      BY <1>3, <2>4, PlacesCount
    <3> QED
      BY <3>1 DEF n
  <2>6. /\ IsFiniteSet(Room \cup new)
        /\ Cardinality(Room \cup new) = Cardinality(Room) + Cardinality(new) - Cardinality(Room \cap new)
    <3> HIDE DEF new
    <3> QED
      BY <1>9, <2>5, FS_Union
  <2>7. Cardinality(Room \cap new) \in Nat
    <3> HIDE DEF new
    <3> QED
      BY <1>9, FS_Intersection, FS_CardinalityType
  <2>8. Len(system) \in Nat /\ NCtx \in Nat
    BY <1>1, WindowType, LenProperties DEF TypeOK
  <2>9. Unified => Cardinality(Room \cup new) + Len(system) <= NCtx
    <3> HIDE DEF new
    <3>1. Unified => Cardinality(Room) + Len(system) + Len(t.prompt) - keep + t.budget <= NCtx
      BY <1>9
    <3>2. Cardinality(Room \cup new) <= Cardinality(Room) + (n - keep)
      BY <1>3, <1>9, <2>4, <2>5, <2>6, <2>7
    <3>3. Cardinality(Room \cup new) \in Nat
      BY <2>6, FS_CardinalityType
    <3> DEFINE all    == Cardinality(Room \cup new)
               before == Cardinality(Room)
               len    == Len(t.prompt)
               sys    == Len(system)
               b      == t.budget
    <3>4. /\ all \in Nat /\ before \in Nat /\ len \in Nat /\ sys \in Nat
          /\ b \in Nat /\ NCtx \in Nat
          /\ all <= before + ((len + b) - keep)
          /\ Unified => before + sys + len - keep + b <= NCtx
      BY <1>3, <1>9, <2>8, <3>1, <3>2, <3>3
    <3> HIDE DEF all, before, len, sys, b
    <3>5. Unified => all + sys <= NCtx
      BY <3>4
    <3> QED
      BY <3>5 DEF all, sys
  <2> QED
    BY <2>3, <2>6, <2>9 DEF Reserved
<1> QED
  BY <1>12, <1>13, <1>14, <1>15, <1>16, <1>17 DEF RoomInv

LEMMA LaunchHeadRoom ==
    ASSUME IInv, IInv', CacheInv, RoomInv, LaunchHead
    PROVE  RoomInv'
<1> DEFINE t    == Head(queue)
           s    == FirstFree
           keep == Reused(t.prompt)
<1>1. /\ t \in Task /\ t = queue[1] /\ 1 \in DOMAIN queue
      /\ s \in SlotIds /\ Idle(s) /\ s # system_seq
      /\ TypeOK /\ TypeOK' /\ Owned /\ FreeSlots # {}
  <2>1. TypeOK /\ TypeOK' /\ Owned /\ FreeSlots # {} /\ queue # <<>>
    BY DEF IInv, LaunchHead, CanLaunch, RoomInv
  <2>2. s \in SlotIds /\ Idle(s) /\ s # system_seq
    BY <2>1, FirstFreeType DEF FreeSlots
  <2>3. t \in Task /\ t = queue[1] /\ 1 \in DOMAIN queue
    BY <2>1 DEF TypeOK
  <2> QED
    BY <2>1, <2>2, <2>3
<1>2. /\ mem' = Adopted(SeqRm(mem, s, 0), s, keep) /\ UNCHANGED <<system, system_seq>>
      /\ queue' = Tail(queue) /\ Admissible(t)
      /\ slots' = [slots EXCEPT ![s] =
          [@ EXCEPT !.id_task = t.id, !.prompt = t.prompt, !.budget = t.budget,
                    !.generating = FALSE, !.n_cached = keep, !.n_past = keep,
                    !.pending = NoToken, !.logits = FALSE]]
  BY DEF LaunchHead, CanLaunch
<1>3. /\ t.prompt \in Seq(Token) \ {<<>>} /\ t.id \in Nat \ {0} /\ t.budget \in Nat
      /\ keep \in Nat /\ keep < Len(t.prompt) /\ Len(t.prompt) \in Nat
  BY <1>1, ReusedType, LenProperties DEF TypeOK, Task
<1>4. /\ slots'[s].id_task = t.id /\ slots'[s].prompt = t.prompt
      /\ slots'[s].budget = t.budget /\ slots'[s].n_cached = keep
      /\ slots'[s].n_past = keep /\ slots'[s].produced = slots[s].produced
      /\ \A r \in SlotIds \ {s} : slots'[r] = slots[r]
  BY <1>1, <1>2 DEF TypeOK, Slot
<1>5. Len(t.prompt) + t.budget <= NCtxSeq
  BY <1>1 DEF RoomInv, WithinWindow
<1>6. \A k \in DOMAIN queue' : Len(queue'[k].prompt) + queue'[k].budget <= NCtxSeq
  <2>1. \A k \in DOMAIN Tail(queue) : k + 1 \in DOMAIN queue /\ Tail(queue)[k] = queue[k + 1]
    BY <1>1 DEF TypeOK
  <2> QED
    BY <1>2, <2>1 DEF RoomInv, WithinWindow
<1>7. Busy = {} => s = 0
  <2> SUFFICES ASSUME Busy = {} PROVE s = 0
    OBVIOUS
  <2>1. 0 \in SlotIds
    BY SizesAssumption DEF SlotIds, SeqIds
  <2>2. 0 \in FreeSlots
    BY <1>1, <2>1 DEF Busy, FreeSlots, Owned
  <2>3. FreeSlots \subseteq Nat
    BY SlotIdsFinite DEF FreeSlots
  <2>4. \E x \in FreeSlots : \A y \in FreeSlots : x <= y
    BY <1>1, <2>3, LeastElement
  <2>5. s \in FreeSlots /\ \A y \in FreeSlots : s <= y
    BY <2>4 DEF FirstFree
  <2> QED
    BY <2>2, <2>3, <2>5
<1>8. Admissible(t) => (Unified => slots_reserved + Len(system) + Len(t.prompt) - keep + t.budget <= NCtx)
  BY WindowType DEF Admissible, kv_shared
<1> HIDE DEF t, s, keep
<1>9. mem' = Adopted(SeqRm(mem, s, 0), s, keep) /\ UNCHANGED <<system, system_seq>>
  BY <1>2
<1>10. Unified => slots_reserved + Len(system) + Len(t.prompt) - keep + t.budget <= NCtx
  BY <1>2, <1>8
<1> QED
  BY <1>1, <1>3, <1>4, <1>5, <1>6, <1>7, <1>9, <1>10, LaunchedRoom

LEMMA PostRoom ==
    ASSUME IInv, RoomInv, NEW prompt \in Prompt, NEW n \in NPredict, Post(prompt, n)
    PROVE  RoomInv'
<1> DEFINE t == [id |-> next_id, prompt |-> prompt, budget |-> BudgetOf(prompt, n)]
<1>1. /\ queue' = Append(queue, t) /\ UNCHANGED <<mem, slots, system, system_seq>>
      /\ Len(prompt) + BudgetOf(prompt, n) <= NCtxSeq
  BY DEF Post
<1>2. queue \in Seq(Task)
  BY DEF IInv, TypeOK
<1>3. t.prompt = prompt /\ t.budget = BudgetOf(prompt, n)
  OBVIOUS
<1> HIDE DEF t
<1>4. \A k \in DOMAIN queue' : queue'[k] = t \/ (k \in DOMAIN queue /\ queue'[k] = queue[k])
  BY <1>1, <1>2
<1>5. \A k \in DOMAIN queue' : Len(queue'[k].prompt) + queue'[k].budget <= NCtxSeq
  BY <1>1, <1>3, <1>4 DEF RoomInv, WithinWindow
<1> QED
  BY <1>1, <1>5, RoomUntouched

LEMMA CancelQueuedRoom ==
    ASSUME IInv, RoomInv, NEW i \in DOMAIN queue, CancelQueued(i)
    PROVE  RoomInv'
<1>1. /\ queue' = SubSeq(queue, 1, i - 1) \o SubSeq(queue, i + 1, Len(queue))
      /\ UNCHANGED <<mem, slots, system, system_seq>>
  BY DEF CancelQueued
<1>2. queue \in Seq(Task) /\ i \in 1 .. Len(queue)
  BY DEF IInv, TypeOK
<1>3. \A k \in DOMAIN queue' : \E j \in DOMAIN queue : queue'[k] = queue[j]
  <2>1. /\ DOMAIN queue' = 1 .. Len(queue) - 1
        /\ \A k \in 1 .. Len(queue) - 1 : queue'[k] = IF k < i THEN queue[k] ELSE queue[k + 1]
    BY <1>1, <1>2, OneTaskLess
  <2>2. DOMAIN queue = 1 .. Len(queue) /\ Len(queue) \in Nat
    BY <1>2
  <2>3. \A k \in 1 .. Len(queue) - 1 : k \in DOMAIN queue /\ k + 1 \in DOMAIN queue
    BY <2>2
  <2> QED
    BY <2>1, <2>3
<1>4. \A k \in DOMAIN queue' : Len(queue'[k].prompt) + queue'[k].budget <= NCtxSeq
  BY <1>3 DEF RoomInv, WithinWindow
<1> QED
  BY <1>1, <1>4, RoomUntouched

LEMMA SampleTokenRoom ==
    ASSUME IInv, IInv', CacheInv, RoomInv,
           NEW tok \in Sampled, NEW stopped \in BOOLEAN, SampleToken(tok, stopped)
    PROVE  RoomInv'
<1> DEFINE s    == slots[at]
           said == Tell(events, s.id_task, "token", tok)
<1>1. CASE Finish(said, "stop") \/ Finish(said, "length")
  BY <1>1, FinishRoom DEF SampleToken
<1>2. CASE /\ ~(Len(s.produced) + 1 = s.budget)
           /\ slots' = [slots EXCEPT ![at] = [s EXCEPT !.produced = Append(@, tok), !.pending = tok,
                                                      !.logits = FALSE]]
           /\ UNCHANGED mem
  <2>1. /\ at \in SlotIds /\ slots \in [SlotIds -> Slot] /\ slots[at] \in Slot /\ ~Idle(at)
        /\ UNCHANGED <<queue, system, system_seq>> /\ tok \in Token
        /\ s.budget > 0
    BY SizesAssumption, SlotsAssumption
       DEF SampleToken, Sampling, IInv, TypeOK, SlotIds, SeqIds
  <2>2. /\ slots'[at].id_task = s.id_task /\ slots'[at].prompt = s.prompt
        /\ slots'[at].n_past = s.n_past /\ slots'[at].budget = s.budget
        /\ slots'[at].n_cached = s.n_cached /\ slots'[at].produced = Append(s.produced, tok)
        /\ \A t \in SlotIds \ {at} : slots'[t] = slots[t]
    BY <1>2, <2>1 DEF Slot
  <2>3. Len(slots'[at].produced) < slots'[at].budget
    <3>1. /\ s.produced \in Seq(Token) /\ Len(s.produced) \in Nat /\ s.budget \in Nat
      BY <2>1, SlotSizes DEF IInv
    <3>2. Len(Append(s.produced, tok)) = Len(s.produced) + 1
      BY <2>1, <3>1
    <3>3. Len(s.produced) < s.budget \/ s.produced = <<>>
      BY <2>1 DEF RoomInv, WithinWindow, Busy
    <3>4. s.produced = <<>> => Len(s.produced) = 0
      OBVIOUS
    <3>5. Len(s.produced) + 1 < s.budget
      BY <1>2, <2>1, <3>1, <3>3, <3>4
    <3> QED
      BY <2>2, <3>2, <3>5
  <2>4. \A k \in DOMAIN queue' : Len(queue'[k].prompt) + queue'[k].budget <= NCtxSeq
    BY <2>1 DEF RoomInv, WithinWindow
  <2> QED
    BY <1>2, <2>1, <2>2, <2>3, <2>4, RoomUntouched
<1> QED
  BY <1>1, <1>2 DEF SampleToken

LEMMA NextRoom == IInv /\ IInv' /\ CacheInv /\ RoomInv /\ [Next]_vars => RoomInv'
<1> SUFFICES ASSUME IInv, IInv', CacheInv, RoomInv, [Next]_vars PROVE RoomInv'
  OBVIOUS
<1>1. ASSUME UNCHANGED <<mem, queue, slots, system, system_seq>> PROVE RoomInv'
  <2>1. \A k \in DOMAIN queue' : Len(queue'[k].prompt) + queue'[k].budget <= NCtxSeq
    BY <1>1 DEF RoomInv, WithinWindow
  <2> QED
    BY <1>1, <2>1, RoomUntouched
<1>2. CASE HostCall
  <2>1. CASE LoraSet
    BY <1>1, <2>1 DEF LoraSet
  <2> QED
    BY <1>2, <2>1, PostRoom, CancelQueuedRoom, CancelBusyRoom, SetSystemRoom, ClearSystemRoom,
       ResetRoom, UseSequence0Room DEF HostCall
<1>3. CASE UpdateBegin \/ BatchReady \/ NothingToDecode \/ PassOver \/ UpdateDone \/ UNCHANGED vars
  BY <1>1, <1>3 DEF UpdateBegin, BatchReady, NothingToDecode, PassOver, UpdateDone, vars, stateVars
<1>4. CASE LaunchDone \/ TakeChunk \/ SamplerThrows
  <2>1. UNCHANGED <<mem, queue, system, system_seq>> /\ slots \in [SlotIds -> Slot]
    BY <1>4 DEF LaunchDone, TakeChunk, SamplerThrows, Sampling, IInv, TypeOK
  <2>2. ASSUME NEW s \in SlotIds
        PROVE  /\ slots'[s].id_task = slots[s].id_task
               /\ slots'[s].prompt = slots[s].prompt
               /\ slots'[s].budget = slots[s].budget
               /\ slots'[s].n_cached = slots[s].n_cached
               /\ slots'[s].n_past = slots[s].n_past
               /\ slots'[s].produced = slots[s].produced
    <3>1. slots[s] \in Slot
      BY <2>1
    <3>2. CASE LaunchDone
      <4>1. slots'[s] = [slots[s] EXCEPT !.take = 0, !.logits = FALSE]
        BY <3>2 DEF LaunchDone
      <4> QED
        BY <3>1, <4>1 DEF Slot
    <3>3. CASE TakeChunk
      <4>1. slots' = [slots EXCEPT ![at].take = ChunkOf(at)]
        BY <3>3 DEF TakeChunk
      <4>2. slots'[s] = slots[s] \/ slots'[s] = [slots[s] EXCEPT !.take = ChunkOf(at)]
        BY <2>1, <4>1
      <4> QED
        BY <3>1, <4>2 DEF Slot
    <3>4. CASE SamplerThrows
      <4>1. slots' = [slots EXCEPT ![at].logits = FALSE]
        BY <3>4 DEF SamplerThrows
      <4>2. slots'[s] = slots[s] \/ slots'[s] = [slots[s] EXCEPT !.logits = FALSE]
        BY <2>1, <4>1
      <4> QED
        BY <3>1, <4>2 DEF Slot
    <3> QED
      BY <1>4, <3>2, <3>3, <3>4
  <2>3. \A k \in DOMAIN queue' : Len(queue'[k].prompt) + queue'[k].budget <= NCtxSeq
    BY <2>1 DEF RoomInv, WithinWindow
  <2> QED
    BY <2>1, <2>2, <2>3, RoomUntouched
<1>5. CASE NoBudget \/ SampleEos
  <2>1. Sampling /\ (Finish(events, "length") \/ Finish(events, "eos"))
    BY <1>5 DEF NoBudget, SampleEos
  <2> QED
    BY <2>1, FinishRoom
<1>6. CASE \E tok \in Sampled, stopped \in BOOLEAN : SampleToken(tok, stopped)
  BY <1>6, SampleTokenRoom
<1> QED
  BY <1>2, <1>3, <1>4, <1>5, <1>6, LaunchHeadRoom, DecodeOkRoom, DecodeFailsRoom
     DEF Next, UpdateStep

\* A batch that is decoded has a row.
Loaded == phase = "decode" => rows > 0

LEMMA NextLoaded == Loaded /\ [Next]_vars => Loaded'
<1> SUFFICES ASSUME Loaded, [Next]_vars PROVE Loaded'
  OBVIOUS
<1>1. CASE HostCall
  BY <1>1 DEF Loaded, HostCall, Post, CancelQueued, CancelBusy, SetSystem, ClearSystem, Reset,
     LoraSet, UseSequence0, updateVars
<1>2. CASE UpdateBegin \/ LaunchHead \/ LaunchDone \/ TakeChunk \/ BatchReady \/ UNCHANGED vars
  BY <1>2 DEF Loaded, UpdateBegin, LaunchHead, LaunchDone, TakeChunk, BatchReady, updateVars, vars,
     stateVars
<1>3. CASE NothingToDecode \/ DecodeFails \/ SamplerThrows \/ UpdateDone
  BY <1>3 DEF Loaded, NothingToDecode, DecodeFails, SamplerThrows, UpdateDone, Return
<1>4. CASE \/ DecodeOk \/ PassOver \/ NoBudget \/ SampleEos
           \/ \E tok \in Sampled, stopped \in BOOLEAN : SampleToken(tok, stopped)
  <2>1. phase' = "sample"
    BY <1>4 DEF DecodeOk, PassOver, NoBudget, SampleEos, SampleToken, Sampling, Finish
  <2> QED
    BY <2>1 DEF Loaded
<1> QED
  BY <1>1, <1>2, <1>3, <1>4 DEF Next, UpdateStep

LEMMA RoomAlways == Spec => [](IInv /\ CacheInv /\ RoomInv /\ RowsFilled /\ Loaded)
<1>1. Init => IInv /\ CacheInv /\ RoomInv /\ RowsFilled /\ Loaded
  BY InitIInv, InitCache, InitRoom DEF Init, RowsFilled, Loaded
<1>2. IInv /\ CacheInv /\ RoomInv /\ RowsFilled /\ Loaded /\ [Next]_vars =>
          (IInv /\ CacheInv /\ RoomInv /\ RowsFilled /\ Loaded)'
  BY NextIInv, NextCache, NextRoom, NextRowsFilled, NextLoaded
<1> QED
  BY <1>1, <1>2, PTL DEF Spec

LEMMA TwoParts ==
    ASSUME NEW A, NEW B, A \cap B = {}, NEW T, IsFiniteSet(T), NEW f \in Injection(A \cup B, T)
    PROVE  Cardinality(A) + Cardinality(B) <= Cardinality(T)
<1>1. IsFiniteSet(A \cup B) /\ Cardinality(A \cup B) <= Cardinality(T)
  BY FS_Injection
<1>2. IsFiniteSet(A) /\ IsFiniteSet(B)
  BY <1>1, FS_Subset
<1>3. Cardinality(A \cup B) = Cardinality(A) + Cardinality(B) - Cardinality(A \cap B)
  BY <1>2, FS_Union
<1>4. Cardinality(A \cap B) = 0
  BY FS_EmptySet
<1>5. Cardinality(A) \in Nat /\ Cardinality(B) \in Nat /\ Cardinality(T) \in Nat
  BY <1>2, FS_CardinalityType
<1> QED
  BY <1>1, <1>3, <1>4, <1>5

\* A cell of a running task, or one the batch will fill, holds the token of
\* the task's text at its position, within what the task asked for.
LEMMA CellOfTask ==
    ASSUME IInv, CacheInv, RoomInv, NEW c \in mem \cup BatchCells, NEW s \in c.seqs, s \in Busy
    PROVE  /\ c.pos \in Nat /\ c.pos < Len(slots[s].prompt) + slots[s].budget
           /\ c.tok = Text(s)[c.pos + 1]
           /\ c \in mem => c.pos < slots[s].n_past
           /\ c \in BatchCells => s \in InBatch /\ c.seqs = {s} /\ c.pos >= slots[s].n_past
<1> DEFINE text == Text(s)
           n    == slots[s].n_past
           top  == Len(slots[s].prompt) + slots[s].budget
<1>1. s \in SlotIds /\ ~Idle(s) /\ TypeOK
  BY BusyIsSlot DEF Busy, IInv
<1>2. n \in Nat /\ Len(text) \in Nat /\ top \in Nat
  BY <1>1, TextType, SlotSizes
<1>3. Len(text) <= top
  <2>1. Len(text) = Len(slots[s].prompt) + Len(slots[s].produced)
    BY <1>1, TextType
  <2>2. Len(slots[s].produced) <= slots[s].budget
    <3>1. Len(slots[s].produced) \in Nat /\ slots[s].budget \in Nat
      BY <1>1, SlotSizes
    <3>2. slots[s].produced = <<>> => Len(slots[s].produced) = 0
      OBVIOUS
    <3> QED
      BY <3>1, <3>2 DEF RoomInv, WithinWindow
  <2>3. Len(slots[s].prompt) \in Nat /\ Len(slots[s].produced) \in Nat /\ slots[s].budget \in Nat
    BY <1>1, SlotSizes
  <2> DEFINE l == Len(text)
             m == Len(slots[s].prompt)
             k == Len(slots[s].produced)
             b == slots[s].budget
  <2>4. l = m + k /\ k <= b /\ m \in Nat /\ k \in Nat /\ b \in Nat
    BY <2>1, <2>2, <2>3
  <2> HIDE DEF l, m, k, b
  <2>5. l <= m + b
    BY <2>4
  <2> QED
    BY <2>5 DEF l, m, b
<1>4. ASSUME c \in mem
      PROVE  c.pos \in Nat /\ c.pos < n /\ n <= Len(text) /\ c.tok = text[c.pos + 1]
  <2>1. Held(mem, s) = Upto(text, n) /\ n <= Len(text)
    BY <1>1 DEF CacheInv, SlotMirrors
  <2>2. <<c.pos, c.tok>> \in Upto(text, n)
    BY <1>4, <2>1 DEF Held, CellsOf
  <2>3. PICK i \in 1 .. n : <<c.pos, c.tok>> = <<i - 1, text[i]>>
    BY <2>2 DEF Upto
  <2>4. c.pos = i - 1 /\ c.tok = text[i] /\ i \in Nat /\ i >= 1 /\ i <= n
    BY <1>2, <2>3
  <2>5. c.pos + 1 = i
    BY <2>4
  <2> QED
    BY <1>2, <2>1, <2>4, <2>5
<1>5. ASSUME c \in BatchCells
      PROVE  /\ s \in InBatch /\ c.seqs = {s} /\ c.pos \in Nat /\ c.pos >= n
             /\ c.pos < Len(text) /\ c.tok = text[c.pos + 1]
  <2>1. PICK t \in InBatch : c \in NewCells(t, slots[t].n_past, RowsOf(t))
    BY <1>5 DEF BatchCells
  <2>2. c.seqs = {t}
    BY <2>1, NewCellsOwned
  <2>3. t = s
    BY <2>2
  <2>4. PICK i \in DOMAIN RowsOf(s) : c.pos = n + i - 1 /\ c.tok = RowsOf(s)[i]
    BY <2>1, <2>3, NewCellsOwned
  <2>5. /\ DOMAIN RowsOf(s) = 1 .. Len(RowsOf(s)) /\ Len(RowsOf(s)) \in Nat
        /\ n + Len(RowsOf(s)) <= Len(text) /\ RowsOf(s)[i] = text[n + i]
    <3>1. /\ RowsOf(s) \in Seq(Token) /\ n + Len(RowsOf(s)) <= Len(text)
          /\ \A j \in 1 .. Len(RowsOf(s)) : RowsOf(s)[j] = text[n + j]
      BY <2>1, <2>3, RowsOfText
    <3>2. DOMAIN RowsOf(s) = 1 .. Len(RowsOf(s)) /\ Len(RowsOf(s)) \in Nat
      BY <3>1, LenProperties
    <3> QED
      BY <2>4, <3>1, <3>2
  <2>6. c.pos \in Nat /\ c.pos >= n /\ c.pos < Len(text) /\ c.pos + 1 = n + i
    <3> DEFINE k == Len(RowsOf(s))
               l == Len(text)
    <3>1. /\ i \in 1 .. k /\ c.pos = n + i - 1
          /\ k \in Nat /\ l \in Nat /\ n \in Nat /\ n + k <= l
      BY <1>2, <2>4, <2>5
    <3> HIDE DEF n, k, l
    <3>2. c.pos \in Nat /\ c.pos >= n /\ c.pos < l /\ c.pos + 1 = n + i
      BY <3>1
    <3> QED
      BY <3>2 DEF l
  <2>7. c.tok = text[c.pos + 1]
    BY <2>4, <2>5, <2>6, Zenon
  <2> QED
    BY <2>1, <2>2, <2>3, <2>6, <2>7
<1> HIDE DEF text, n, top
<1>6. CASE c \in mem
  <2>1. c.pos < top
    BY <1>2, <1>3, <1>4, <1>6
  <2>2. c \in BatchCells => s \in InBatch /\ c.seqs = {s} /\ c.pos >= n
    BY <1>5
  <2> QED
    BY <1>4, <1>6, <2>1, <2>2 DEF text, n, top
<1>7. CASE c \in BatchCells
  <2>1. c.pos < top
    BY <1>2, <1>3, <1>5, <1>7
  <2>2. c \in mem => c.pos < n
    BY <1>4
  <2> QED
    BY <1>5, <1>7, <2>1, <2>2 DEF text, n, top
<1> QED
  BY <1>6, <1>7

\* A cell of the system prompt.
LEMMA CellOfSystem ==
    ASSUME IInv, CacheInv, NEW c \in mem \cup BatchCells, system_seq \in c.seqs
    PROVE  /\ c \in mem /\ c.pos \in Nat /\ c.pos < Len(system)
           /\ c.tok = system[c.pos + 1]
<1>1. TypeOK
  BY DEF IInv
<1>2. c \in mem
  <2> SUFFICES ASSUME c \in BatchCells PROVE FALSE
    OBVIOUS
  <2>1. PICK t \in InBatch : c \in NewCells(t, slots[t].n_past, RowsOf(t))
    BY DEF BatchCells
  <2>2. c.seqs = {t} /\ t \in Busy
    BY <2>1, NewCellsOwned, InBatchBusy
  <2> QED
    BY <2>2 DEF CacheInv, SystemHeld
<1>3. system_seq \in SeqIds
  BY <1>1, <1>2 DEF TypeOK, Cell
<1>4. system_seq >= 0
  BY <1>3, SizesAssumption DEF SeqIds
<1>5. <<c.pos, c.tok>> \in Placed(system)
  BY <1>2, <1>4 DEF CacheInv, SystemHeld, Held, CellsOf
<1>6. PICK i \in DOMAIN system : <<c.pos, c.tok>> = <<i - 1, system[i]>>
  BY <1>5 DEF Placed
<1>7. i \in 1 .. Len(system) /\ Len(system) \in Nat
  BY <1>1 DEF TypeOK
<1>8. c.pos = i - 1 /\ c.tok = system[i]
  BY <1>6
<1>9. c.pos \in Nat /\ c.pos < Len(system) /\ c.pos + 1 = i
  BY <1>7, <1>8
<1> QED
  BY <1>2, <1>8, <1>9

\* While tasks run, every cell is a running task's or the system prompt's.
LEMMA CellOwner ==
    ASSUME IInv, CacheInv, RoomInv, Busy # {}, NEW c \in mem \cup BatchCells
    PROVE  /\ c.seqs # {} /\ \A s \in c.seqs : s \in Busy \/ s = system_seq
           /\ c \in Cell
           /\ system_seq \notin c.seqs => \A s, t \in c.seqs : s = t
<1>1. CASE c \in mem
  BY <1>1 DEF IInv, TypeOK, RoomInv, Owned, CacheInv, SharedWithSystem
<1>2. CASE c \in BatchCells
  <2>1. PICK t \in InBatch : c \in NewCells(t, slots[t].n_past, RowsOf(t))
    BY <1>2 DEF BatchCells
  <2>2. c.seqs = {t} /\ t \in Busy
    BY <2>1, NewCellsOwned, InBatchBusy
  <2>3. c \in Cell
    BY <1>2, BatchCellsType DEF IInv
  <2> QED
    BY <2>2, <2>3
<1> QED
  BY <1>1, <1>2

LEMMA BatchIsNew ==
    ASSUME IInv, CacheInv, RoomInv
    PROVE  mem \cap BatchCells = {}
<1> SUFFICES ASSUME NEW c \in mem, c \in BatchCells PROVE FALSE
  OBVIOUS
<1>1. PICK t \in InBatch : c \in NewCells(t, slots[t].n_past, RowsOf(t))
  BY DEF BatchCells
<1>2. t \in c.seqs /\ t \in Busy /\ t \in SlotIds
  BY <1>1, NewCellsOwned, InBatchBusy, BusyIsSlot
<1>3. c.pos \in Nat /\ slots[t].n_past \in Nat
  BY <1>2, SlotSizes, CellOfTask DEF IInv
<1>4. c.pos < slots[t].n_past /\ c.pos >= slots[t].n_past
  BY <1>2, CellOfTask
<1> QED
  BY <1>3, <1>4

(* In one buffer, the cells in use and those the batch fills are places     *)
(* reserved by the running tasks, or the system prompt's: they fit.         *)
LEMMA BufferHasRoom ==
    ASSUME IInv, CacheInv, RoomInv, Unified, Busy # {}
    PROVE  Cardinality(mem) + Cardinality(BatchCells) <= NCtx
<1> DEFINE M     == mem \cup BatchCells
           Sys   == Places(-1, 0, Len(system))
           T     == Room \cup Sys
           of(c) == CHOOSE s : s \in c.seqs
           f     == [c \in M |-> IF system_seq \in c.seqs THEN <<-1, c.pos>> ELSE <<of(c), c.pos>>]
<1>1. TypeOK /\ Len(system) \in Nat /\ NCtx \in Nat
  BY WindowType, LenProperties DEF IInv, TypeOK
<1>2. ASSUME NEW c \in M, system_seq \in c.seqs
      PROVE  f[c] = <<-1, c.pos>> /\ f[c] \in Sys /\ c \in mem
  <2>1. c \in mem /\ c.pos \in Nat /\ c.pos < Len(system)
    BY <1>2, CellOfSystem
  <2>2. c.pos \in 0 .. Len(system) - 1
    BY <1>1, <2>1
  <2> QED
    BY <1>2, <2>1, <2>2 DEF Places
<1>3. ASSUME NEW c \in M, system_seq \notin c.seqs
      PROVE  \E s \in Busy : c.seqs = {s} /\ f[c] = <<s, c.pos>> /\ f[c] \in Own(s)
  <2> DEFINE s == of(c)
  <2>1. s \in c.seqs
    BY CellOwner
  <2>2. s \in Busy /\ c.seqs = {s}
    BY <1>3, <2>1, CellOwner
  <2>3. f[c] = <<s, c.pos>>
    BY <1>3
  <2> HIDE DEF s, f
  <2>4. s \in SlotIds /\ slots[s].n_cached \in Nat /\ slots[s].n_past \in Nat
        /\ slots[s].n_cached <= slots[s].n_past
        /\ Len(slots[s].prompt) \in Nat /\ slots[s].budget \in Nat
    BY <1>1, <2>2, BusyIsSlot, SlotSizes DEF RoomInv, WithinWindow
  <2>5. c.pos \in Nat /\ c.pos < Len(slots[s].prompt) + slots[s].budget
    BY <2>1, <2>2, CellOfTask
  <2>6. c.pos >= slots[s].n_cached
    <3>1. CASE c \in mem
      <4>1. ~(c.pos < slots[s].n_cached)
        BY <1>3, <2>1, <2>2, <3>1 DEF RoomInv, ReusedIsShared
      <4> QED
        BY <2>4, <2>5, <4>1
    <3>2. CASE c \in BatchCells
      <4>1. c.pos >= slots[s].n_past
        BY <2>1, <2>2, <3>2, CellOfTask
      <4> QED
        BY <2>4, <2>5, <4>1
    <3> QED
      BY <3>1, <3>2
  <2>7. c.pos \in slots[s].n_cached .. (Len(slots[s].prompt) + slots[s].budget) - 1
    BY <2>4, <2>5, <2>6
  <2> QED
    BY <2>2, <2>3, <2>7 DEF Own, Places
<1>4. f \in [M -> T]
  <2>1. \A c \in M : f[c] \in T
    BY <1>2, <1>3 DEF Room
  <2> QED
    BY <2>1
<1>5. ASSUME NEW c \in M, NEW d \in M, f[c] = f[d] PROVE c = d
  <2> HIDE DEF f
  <2>1. \A s \in Busy : s # -1
    BY BusyIsSlot
  <2>2. CASE system_seq \in c.seqs
    <3>1. system_seq \in d.seqs /\ c.pos = d.pos
      BY <1>2, <1>3, <1>5, <2>1, <2>2
    <3>2. c \in mem /\ d \in mem
      BY <1>2, <2>2, <3>1
    <3> QED
      BY <2>2, <3>1, <3>2 DEF RoomInv, SystemOnce
  <2>3. CASE system_seq \notin c.seqs
    <3>1. system_seq \notin d.seqs
      BY <1>2, <1>3, <1>5, <2>1, <2>3
    <3>2. PICK s \in Busy : c.seqs = {s} /\ f[c] = <<s, c.pos>>
      BY <1>3, <2>3
    <3>3. PICK t \in Busy : d.seqs = {t} /\ f[d] = <<t, d.pos>>
      BY <1>3, <3>1
    <3>4. s = t /\ c.pos = d.pos
      <4>1. <<s, c.pos>> = <<t, d.pos>>
        BY <1>5, <3>2, <3>3, Zenon
      <4> QED
        BY <4>1
    <3>5. c.tok = Text(s)[c.pos + 1] /\ d.tok = Text(s)[d.pos + 1]
      BY <3>2, <3>3, <3>4, CellOfTask
    <3>6. c.tok = d.tok /\ c.seqs = d.seqs
      BY <3>2, <3>3, <3>4, <3>5
    <3>7. c \in Cell /\ d \in Cell
      BY CellOwner
    <3> QED
      BY <3>4, <3>6, <3>7 DEF Cell
  <2> QED
    BY <2>2, <2>3
<1>6. IsFiniteSet(Sys) /\ Cardinality(Sys) = Len(system)
  <2>1. Len(system) - 0 = Len(system)
    BY <1>1
  <2> QED
    BY <1>1, <2>1, PlacesCount
<1>7. IsFiniteSet(Room) /\ Cardinality(Room) + Len(system) <= NCtx
  BY DEF RoomInv, Reserved
<1> HIDE DEF f, Sys
<1>8. IsFiniteSet(T) /\ Cardinality(T) <= NCtx
  <2>1. /\ IsFiniteSet(T)
        /\ Cardinality(T) = Cardinality(Room) + Cardinality(Sys) - Cardinality(Room \cap Sys)
    BY <1>6, <1>7, FS_Union
  <2>2. Cardinality(Room \cap Sys) \in Nat /\ Cardinality(Room) \in Nat
    BY <1>7, FS_Intersection, FS_CardinalityType
  <2> HIDE DEF T
  <2> QED
    BY <1>1, <1>6, <1>7, <2>1, <2>2
<1>9. f \in Injection(M, T)
  <2> HIDE DEF T, M
  <2> QED
    BY <1>4, <1>5 DEF Injection, IsInjective
<1>10. Cardinality(mem) + Cardinality(BatchCells) <= Cardinality(T)
  <2>1. mem \cap BatchCells = {}
    BY BatchIsNew
  <2> HIDE DEF T
  <2> QED
    BY <1>8, <1>9, <2>1, TwoParts
<1>11. Cardinality(T) \in Nat
  <2> HIDE DEF T
  <2> QED
    BY <1>8, FS_CardinalityType
<1>12. Cardinality(mem) \in Nat /\ Cardinality(BatchCells) \in Nat
  <2>1. IsFiniteSet(M)
    <3> HIDE DEF M, T
    <3> QED
      BY <1>8, <1>9, FS_Injection
  <2> QED
    BY <2>1, FS_Subset, FS_CardinalityType
<1> HIDE DEF T
<1> QED
  BY <1>1, <1>8, <1>10, <1>11, <1>12

(* With streams of their own, each sequence holds one cell at a position of *)
(* its window.                                                              *)
LEMMA StreamHasRoom ==
    ASSUME IInv, CacheInv, RoomInv, ~Unified, Busy # {}, NEW s \in SeqIds
    PROVE  Cardinality(CellsOf(mem, s)) + Cardinality(CellsOf(BatchCells, s)) <= NCtxSeq
<1> DEFINE A == CellsOf(mem, s)
           B == CellsOf(BatchCells, s)
           T == 0 .. NCtxSeq - 1
           f == [c \in A \cup B |-> c.pos]
           text == IF s = system_seq THEN system ELSE Text(s)
<1>1. TypeOK /\ NCtxSeq \in Nat /\ s \in SlotIds
  BY WindowType DEF IInv, SlotIds
<1>2. ASSUME NEW c \in A \cup B
      PROVE  /\ c \in mem \cup BatchCells /\ s \in c.seqs /\ c.seqs = {s} /\ c \in Cell
             /\ c.pos \in T /\ c.tok = text[c.pos + 1]
  <2>1. c \in mem \cup BatchCells /\ s \in c.seqs
    BY DEF CellsOf
  <2>2. c \in Cell /\ (s \in Busy \/ s = system_seq)
    BY <2>1, CellOwner
  <2>3. c.seqs = {s}
    <3>1. CASE c \in mem
      BY <2>1, <3>1 DEF RoomInv, Streams
    <3>2. CASE c \in BatchCells
      <4>1. PICK t \in InBatch : c \in NewCells(t, slots[t].n_past, RowsOf(t))
        BY <3>2 DEF BatchCells
      <4> QED
        BY <2>1, <4>1, NewCellsOwned
    <3> QED
      BY <2>1, <3>1, <3>2
  <2>4. CASE s = system_seq
    <3>1. c.pos \in Nat /\ c.pos < Len(system) /\ c.tok = system[c.pos + 1]
      BY <2>1, <2>4, CellOfSystem
    <3>2. Len(system) \in Nat /\ Len(system) <= NCtxSeq
      BY <1>1, LenProperties DEF TypeOK, RoomInv, WithinWindow
    <3>3. c.pos \in T
      BY <1>1, <3>1, <3>2
    <3> QED
      BY <2>1, <2>2, <2>3, <2>4, <3>1, <3>3
  <2>5. CASE s # system_seq
    <3>1. s \in Busy
      BY <2>2, <2>5
    <3>2. /\ c.pos \in Nat /\ c.pos < Len(slots[s].prompt) + slots[s].budget
          /\ c.tok = Text(s)[c.pos + 1]
      BY <2>1, <3>1, CellOfTask
    <3>3. /\ Len(slots[s].prompt) + slots[s].budget <= NCtxSeq
          /\ Len(slots[s].prompt) \in Nat /\ slots[s].budget \in Nat
      BY <1>1, <3>1, SlotSizes DEF RoomInv, WithinWindow
    <3>4. c.pos \in T
      BY <1>1, <3>2, <3>3
    <3> QED
      BY <2>1, <2>2, <2>3, <2>5, <3>2, <3>4
  <2> QED
    BY <2>4, <2>5
<1> HIDE DEF text
<1>3. A \cap B = {}
  BY BatchIsNew DEF CellsOf
<1>4. IsFiniteSet(T) /\ Cardinality(T) <= NCtxSeq
  <2>1. /\ IsFiniteSet(0 .. NCtxSeq - 1)
        /\ Cardinality(0 .. NCtxSeq - 1) = IF 0 > NCtxSeq - 1 THEN 0 ELSE (NCtxSeq - 1) - 0 + 1
    BY <1>1, FS_Interval
  <2> QED
    BY <1>1, <2>1
<1>5. f \in Injection(A \cup B, T)
  <2>1. f \in [A \cup B -> T]
    BY <1>2
  <2>2. ASSUME NEW c \in A \cup B, NEW d \in A \cup B, f[c] = f[d] PROVE c = d
    <3>1. c.pos = d.pos
      BY <2>2
    <3>2. c.tok = d.tok /\ c.seqs = d.seqs /\ c \in Cell /\ d \in Cell
      BY <1>2, <3>1
    <3> QED
      BY <3>1, <3>2 DEF Cell
  <2> HIDE DEF f, A, B, T
  <2> QED
    BY <2>1, <2>2 DEF Injection, IsInjective
<1> HIDE DEF f, T, A, B
<1>6. Cardinality(A) + Cardinality(B) <= Cardinality(T)
  BY <1>3, <1>4, <1>5, TwoParts
<1>7. IsFiniteSet(A) /\ IsFiniteSet(B)
  <2>1. IsFiniteSet(A \cup B)
    BY <1>4, <1>5, FS_Injection
  <2> QED
    BY <2>1, FS_Subset
<1>8. Cardinality(A) \in Nat /\ Cardinality(B) \in Nat /\ Cardinality(T) \in Nat
  BY <1>4, <1>7, FS_CardinalityType
<1> QED
  BY <1>1, <1>4, <1>6, <1>8 DEF A, B

(* Admission keeps its word, whatever the sizes, the prompts and the order  *)
(* of the calls: once a task is launched, no decode ever ends it with "no   *)
(* room in the KV cache", in a shared buffer or with streams of their own.  *)
THEOREM AdmissionKeepsItsWord == Spec => []AdmittedTasksFit
<1>1. IInv /\ CacheInv /\ RoomInv /\ RowsFilled /\ Loaded => AdmittedTasksFit
  <2> SUFFICES ASSUME IInv, CacheInv, RoomInv, RowsFilled, Loaded, phase = "decode"
               PROVE  HasRoom(mem, BatchCells)
    BY DEF AdmittedTasksFit
  <2>1. Busy # {}
    <3>1. rows > 0 /\ rows = Cardinality(BatchCells)
      BY DEF RowsFilled, Loaded
    <3>2. BatchCells # {}
      BY <3>1, FS_EmptySet
    <3>3. InBatch # {}
      BY <3>2 DEF BatchCells
    <3> QED
      BY <3>3, InBatchBusy
  <2>2. CASE Unified
    BY <2>1, <2>2, BufferHasRoom DEF HasRoom
  <2>3. CASE ~Unified
    BY <2>1, <2>3, StreamHasRoom DEF HasRoom
  <2> QED
    BY <2>2, <2>3
<1> QED
  BY <1>1, RoomAlways, PTL

-----------------------------------------------------------------------------
(* Context.                                                                *)

\* A text at the places from `first` on.
Run(first, text) == {<<first + i - 1, text[i]>> : i \in DOMAIN text}

\* A cache has a last position.
Bounded(m) == \E b \in Nat : \A c \in m : c.pos < b

InPrompt == gen.pc \in {"check_prompt", "decode_prompt"}
Writing  == gen.pc \in {"sample", "check", "decode"}

GenType ==
    [pc : {"none", "trapped", "check_prompt", "decode_prompt", "sample", "check", "decode"},
     prompt : Seq(Token), off : Nat, budget : Nat, produced : Seq(Token),
     to_end : BOOLEAN, from : Nat, base : SUBSET (Nat \X Token), late : Nat]

CtxTypeOK ==
    /\ hist \in Seq(Token)
    /\ interrupt \in BOOLEAN
    /\ gen \in GenType
    /\ saved \in [mem : SUBSET Cell, hist : Seq(Token), valid : BOOLEAN, there : BOOLEAN]
    /\ Bounded(mem) /\ Bounded(saved.mem)

\* Who may run next to whom: a generate has the context to itself, and the
\* history is valid only while no slot has a task.
Apart ==
    /\ gen.pc # "none" => phase = "host" /\ Busy = {}
    /\ phase # "host" \/ Busy # {} => ~hist_valid
    /\ system_seq # 0

\* No batch is begun once the interrupt word has been seen.
Heeded ==
    /\ gen.late <= 1
    /\ gen.late > 0 => interrupt
    /\ gen.pc \in {"none", "decode_prompt", "decode"} => gen.late = 0

\* A generate decodes its prompt first, and then what it produced.
Shaped ==
    /\ gen.pc \in {"check_prompt", "decode_prompt"} => gen.produced = <<>>
    /\ gen.pc = "decode_prompt" => gen.off < Len(gen.prompt)
    /\ gen.pc \in {"check", "decode"} => gen.produced # <<>>

CtxInv == IInv /\ CtxTypeOK /\ Apart /\ Heeded /\ Shaped

-----------------------------------------------------------------------------
(* Places and where a sequence ends. *)

\* Cells whose positions all occur in a bounded cache are bounded.
LEMMA BoundedFrom ==
    ASSUME NEW m, NEW n, Bounded(m), \A c \in n : \E d \in m : c.pos = d.pos
    PROVE  Bounded(n)
BY DEF Bounded

\* Two bounded caches are bounded together.
LEMMA BoundedUnion ==
    ASSUME NEW m, m \subseteq Cell, NEW n, n \subseteq Cell, Bounded(m), Bounded(n)
    PROVE  Bounded(m \cup n)
<1>1. PICK b \in Nat : \A c \in m : c.pos < b
  BY DEF Bounded
<1>2. PICK d \in Nat : \A c \in n : c.pos < d
  BY DEF Bounded
<1>3. \A c \in m \cup n : c.pos \in Nat
  BY DEF Cell
<1>4. \A c \in m \cup n : c.pos < b + d
  BY <1>1, <1>2, <1>3
<1> QED
  BY <1>4 DEF Bounded

\* What one batch writes of a sequence is bounded.
LEMMA BoundedNew ==
    ASSUME NEW s, NEW first \in Nat, NEW toks \in Seq(Token)
    PROVE  Bounded(NewCells(s, first, toks))
<1> DEFINE l == Len(toks)
<1>1. l \in Nat /\ DOMAIN toks = 1 .. l
  BY LenProperties
<1>2. ASSUME NEW c \in NewCells(s, first, toks)
      PROVE  c.pos < first + l
  <2>1. PICK i \in DOMAIN toks : c.pos = first + i - 1
    BY NewCellsOwned
  <2>2. i \in 1 .. l
    BY <1>1
  <2> HIDE DEF l
  <2> QED
    BY <1>1, <2>1, <2>2
<1>3. first + l \in Nat
  BY <1>1
<1> QED
  BY <1>2, <1>3 DEF Bounded

\* The empty cache is bounded.
LEMMA BoundedNothing == Bounded({})
BY DEF Bounded

\* The first elements of f, 0 to k, have a bound.
UpToHas(f, k) == \E b \in Nat : \A i \in 0 .. k : f[i] <= b

(* Finitely many naturals have a bound. *)
LEMMA BoundedFunction ==
    ASSUME NEW n \in Nat, NEW f \in [0 .. n -> Nat]
    PROVE  \E b \in Nat : \A i \in 0 .. n : f[i] <= b
<1> DEFINE bad == {k \in 0 .. n : ~UpToHas(f, k)}
<1> SUFFICES ASSUME bad # {} PROVE FALSE
  <2>1. n \in 0 .. n
    OBVIOUS
  <2>2. bad = {} => UpToHas(f, n)
    BY <2>1
  <2> QED
    BY <2>2 DEF UpToHas
<1>1. PICK k \in bad : \A j \in bad : k <= j
  <2>1. bad \subseteq Nat
    OBVIOUS
  <2> HIDE DEF bad
  <2> QED
    BY <2>1, LeastElement
<1>2. k \in 0 .. n /\ ~UpToHas(f, k)
  OBVIOUS
<1>3. \A i \in 0 .. n : f[i] \in Nat
  OBVIOUS
<1>4. UpToHas(f, 0)
  <2>1. f[0] \in Nat /\ \A i \in 0 .. 0 : f[i] <= f[0]
    BY <1>3
  <2> QED
    BY <2>1 DEF UpToHas
<1>5. k # 0
  BY <1>2, <1>4
<1>6. k - 1 \in 0 .. n /\ ~(k <= k - 1)
  BY <1>2, <1>5
<1>7. UpToHas(f, k - 1)
  BY <1>1, <1>6
<1>8. PICK b \in Nat : \A i \in 0 .. k - 1 : f[i] <= b
  BY <1>7 DEF UpToHas
<1>9. \A i \in 0 .. k : f[i] <= b + f[k]
  <2> TAKE i \in 0 .. k
  <2>1. f[k] \in Nat /\ f[i] \in Nat
    BY <1>2, <1>3
  <2>2. CASE i = k
    BY <2>1, <2>2
  <2>3. CASE i # k
    <3>1. f[i] <= b
      BY <1>2, <1>8, <2>3
    <3> QED
      BY <2>1, <3>1
  <2> QED
    BY <2>2, <2>3
<1>10. b + f[k] \in Nat
  BY <1>2, <1>3
<1> QED
  BY <1>2, <1>9, <1>10 DEF UpToHas

\* What one batch of update_slots writes is bounded.
LEMMA BatchBounded ==
    ASSUME IInv
    PROVE  Bounded(BatchCells)
<1> DEFINE f == [s \in 0 .. NSeqMax - 1 |->
                    IF s \in InBatch THEN slots[s].n_past + Len(RowsOf(s)) ELSE 0]
<1>1. NSeqMax - 1 \in Nat
  BY SizesAssumption
<1>2. f \in [0 .. NSeqMax - 1 -> Nat]
  <2> SUFFICES ASSUME NEW s \in InBatch
               PROVE  slots[s].n_past + Len(RowsOf(s)) \in Nat
    OBVIOUS
  <2>1. slots[s].n_past \in Nat /\ RowsOf(s) \in Seq(Token)
    BY RowsOfType DEF IInv
  <2> QED
    BY <2>1, LenProperties
<1>3. PICK b \in Nat : \A s \in 0 .. NSeqMax - 1 : f[s] <= b
  <2> HIDE DEF f
  <2> QED
    BY <1>1, <1>2, BoundedFunction
<1>4. ASSUME NEW c \in BatchCells
      PROVE  c.pos < b
  <2>1. PICK s \in InBatch : c \in NewCells(s, slots[s].n_past, RowsOf(s))
    BY <1>4 DEF BatchCells
  <2>2. /\ s \in 0 .. NSeqMax - 1 /\ slots[s].n_past \in Nat
        /\ RowsOf(s) \in Seq(Token)
    BY RowsOfType DEF IInv, SlotIds, SeqIds
  <2>3. PICK i \in DOMAIN RowsOf(s) : c.pos = slots[s].n_past + i - 1
    BY <2>1, NewCellsOwned
  <2>4. i \in 1 .. Len(RowsOf(s)) /\ Len(RowsOf(s)) \in Nat
    BY <2>2, LenProperties
  <2>5. slots[s].n_past + Len(RowsOf(s)) <= b
    BY <1>3, <2>2
  <2> DEFINE k == Len(RowsOf(s))
             n == slots[s].n_past
  <2>6. n \in Nat /\ k \in Nat /\ i \in 1 .. k /\ c.pos = n + i - 1 /\ n + k <= b
    BY <2>2, <2>3, <2>4, <2>5
  <2> HIDE DEF k, n
  <2> QED
    BY <2>6
<1> QED
  BY <1>4 DEF Bounded

\* The end of sequence 0 is the place after its last cell.
LEMMA EndOfIs ==
    ASSUME NEW m, m \subseteq Cell, NEW n \in Nat,
           \A c \in CellsOf(m, 0) : c.pos < n,
           n > 0 => \E c \in CellsOf(m, 0) : c.pos = n - 1
    PROVE  EndOf(m) = n
<1>1. \A c \in CellsOf(m, 0) : c.pos \in Nat
  BY DEF CellsOf, Cell
<1>2. CASE CellsOf(m, 0) = {}
  <2>1. n = 0
    BY <1>2
  <2>2. EndOf(m) = 0
    BY <1>2, Zenon DEF EndOf
  <2> QED
    BY <2>1, <2>2
<1>3. CASE CellsOf(m, 0) # {}
  <2> DEFINE P == {c.pos : c \in CellsOf(m, 0)}
             Last(p) == \A c \in CellsOf(m, 0) : c.pos <= p
  <2>1. n > 0
    BY <1>1, <1>3
  <2>2. n - 1 \in P /\ Last(n - 1)
    BY <1>1, <2>1
  <2>3. \A p \in P : Last(p) => p = n - 1
    BY <1>1, <2>1
  <2>4. (CHOOSE p \in P : Last(p)) = n - 1
    <3> HIDE DEF P, Last
    <3> QED
      BY <2>2, <2>3
  <2> DEFINE e == CHOOSE p \in P : Last(p)
  <2>5. EndOf(m) = 1 + e
    BY <1>3, Zenon DEF EndOf
  <2>6. e = n - 1
    BY <2>4
  <2> HIDE DEF e
  <2> QED
    BY <2>5, <2>6
<1> QED
  BY <1>2, <1>3

\* In a bounded cache sequence 0 ends behind its last cell.
LEMMA EndOfType ==
    ASSUME NEW m, m \subseteq Cell, Bounded(m)
    PROVE  /\ EndOf(m) \in Nat
           /\ \A c \in CellsOf(m, 0) : c.pos < EndOf(m)
           /\ EndOf(m) > 0 => \E c \in CellsOf(m, 0) : c.pos = EndOf(m) - 1
<1>1. \A c \in CellsOf(m, 0) : c.pos \in Nat
  BY DEF CellsOf, Cell
<1>2. CASE CellsOf(m, 0) = {}
  <2>1. EndOf(m) = 0
    BY <1>2, EndOfIs
  <2> QED
    BY <1>2, <2>1
<1>3. CASE CellsOf(m, 0) # {}
  <2> DEFINE P == {c.pos : c \in CellsOf(m, 0)}
  <2>1. PICK b \in Nat : \A c \in m : c.pos < b
    BY DEF Bounded
  <2>2. P \subseteq 0 .. b /\ P # {}
    BY <1>1, <1>3, <2>1 DEF CellsOf
  <2>3. PICK x \in P : \A y \in P : y <= x
    <3> HIDE DEF P
    <3> QED
      BY <2>2, GreatestElement
  <2>4. PICK d \in CellsOf(m, 0) : d.pos = x
    OBVIOUS
  <2>5. x \in Nat /\ \A c \in CellsOf(m, 0) : c.pos < x + 1
    BY <1>1, <2>3, <2>4
  <2>6. EndOf(m) = x + 1
    <3>1. x + 1 \in Nat /\ d.pos = (x + 1) - 1
      BY <2>4, <2>5
    <3> HIDE DEF P
    <3> QED
      BY <2>5, <3>1, EndOfIs
  <2> QED
    BY <2>4, <2>5, <2>6
<1> QED
  BY <1>2, <1>3

-----------------------------------------------------------------------------
(* Texts on sequence 0. *)

\* Context's Placed is a run from position 0 on.
LEMMA PlacedIsRun ==
    ASSUME NEW text \in Seq(Token)
    PROVE  Placed(text) = Run(0, text)
<1>1. \A i \in DOMAIN text : i \in Int /\ 0 + i - 1 = i - 1
  BY LenProperties
<1> QED
  BY <1>1 DEF Placed, Run

\* A run further on is the text moved there.
LEMMA RunIsShifted ==
    ASSUME NEW text \in Seq(Token), NEW first \in Nat
    PROVE  {<<first + p[1], p[2]>> : p \in Placed(text)} = Run(first, text)
<1>1. \A i \in DOMAIN text : i \in Int /\ first + (i - 1) = first + i - 1
  BY LenProperties
<1>2. ASSUME NEW p \in Placed(text)
      PROVE  <<first + p[1], p[2]>> \in Run(first, text)
  <2>1. PICK i \in DOMAIN text : p = <<i - 1, text[i]>>
    BY DEF Placed
  <2> QED
    BY <1>1, <2>1 DEF Run
<1>3. ASSUME NEW q \in Run(first, text)
      PROVE  \E p \in Placed(text) : q = <<first + p[1], p[2]>>
  <2>1. PICK i \in DOMAIN text : q = <<first + i - 1, text[i]>>
    BY DEF Run
  <2>2. <<i - 1, text[i]>> \in Placed(text)
    BY DEF Placed
  <2> QED
    BY <1>1, <2>1, <2>2
<1> QED
  BY <1>2, <1>3

\* The run of two texts is the two runs, one after the other.
LEMMA RunConcat ==
    ASSUME NEW p \in Seq(Token), NEW q \in Seq(Token), NEW first \in Nat
    PROVE  Run(first, p \o q) = Run(first, p) \cup Run(first + Len(p), q)
<1> DEFINE m == Len(p)
           n == Len(q)
           r == p \o q
<1>1. /\ m \in Nat /\ n \in Nat /\ DOMAIN p = 1 .. m /\ DOMAIN q = 1 .. n
      /\ DOMAIN r = 1 .. m + n
      /\ \A i \in 1 .. m + n : r[i] = IF i <= m THEN p[i] ELSE q[i - m]
  BY LenProperties, ConcatProperties
<1> HIDE DEF m, n, r
<1>2. ASSUME NEW i \in 1 .. m + n
      PROVE  <<first + i - 1, r[i]>> \in Run(first, p) \cup Run(first + m, q)
  <2>1. CASE i <= m
    <3>1. i \in DOMAIN p /\ r[i] = p[i]
      BY <1>1, <2>1
    <3> QED
      BY <3>1 DEF Run
  <2>2. CASE ~(i <= m)
    <3>1. i - m \in DOMAIN q /\ r[i] = q[i - m] /\ (first + m) + (i - m) - 1 = first + i - 1
      BY <1>1, <2>2
    <3>2. <<(first + m) + (i - m) - 1, q[i - m]>> \in Run(first + m, q)
      BY <3>1, Zenon DEF Run
    <3> QED
      BY <3>1, <3>2
  <2> QED
    BY <2>1, <2>2
<1>3. ASSUME NEW i \in 1 .. m
      PROVE  <<first + i - 1, p[i]>> \in Run(first, r)
  <2>1. i \in DOMAIN r /\ r[i] = p[i]
    BY <1>1
  <2> QED
    BY <2>1 DEF Run
<1>4. ASSUME NEW i \in 1 .. n
      PROVE  <<(first + m) + i - 1, q[i]>> \in Run(first, r)
  <2>1. m + i \in DOMAIN r /\ r[m + i] = q[i] /\ first + (m + i) - 1 = (first + m) + i - 1
    BY <1>1
  <2>2. <<first + (m + i) - 1, r[m + i]>> \in Run(first, r)
    BY <2>1, Zenon DEF Run
  <2> QED
    BY <2>1, <2>2
<1>5. Run(first, r) \subseteq Run(first, p) \cup Run(first + m, q)
  BY <1>1, <1>2 DEF Run
<1>6. Run(first, p) \subseteq Run(first, r)
  BY <1>1, <1>3 DEF Run
<1>7. Run(first + m, q) \subseteq Run(first, r)
  BY <1>1, <1>4 DEF Run
<1> QED
  BY <1>5, <1>6, <1>7 DEF m, r

\* What a decode of one sequence writes is a run.
LEMMA NewCellsRun ==
    ASSUME NEW first \in Nat, NEW toks \in Seq(Token)
    PROVE  Held(NewCells(0, first, toks), 0) = Run(first, toks)
BY NewCellsHeld DEF Run

\* Sequence 0 exists.
LEMMA ZeroIsSequence == 0 \in SeqIds
BY SizesAssumption DEF SeqIds

(* What a decode on sequence 0 does. *)
LEMMA AppendedText ==
    ASSUME NEW m, m \subseteq Cell, Bounded(m), NEW toks \in Seq(Token)
    PROVE  /\ Appended(m, toks) \subseteq Cell /\ Bounded(Appended(m, toks))
           /\ Held(Appended(m, toks), 0) = Held(m, 0) \cup Run(EndOf(m), toks)
           /\ EndOf(Appended(m, toks)) = EndOf(m) + Len(toks)
<1> DEFINE e   == EndOf(m)
           l   == Len(toks)
           new == NewCells(0, e, toks)
           all == m \cup new
<1>1. /\ e \in Nat /\ \A c \in CellsOf(m, 0) : c.pos < e
      /\ e > 0 => \E c \in CellsOf(m, 0) : c.pos = e - 1
  BY EndOfType
<1>2. new \subseteq Cell /\ Bounded(new) /\ Held(new, 0) = Run(e, toks)
  BY <1>1, ZeroIsSequence, NewCellsType, BoundedNew, NewCellsRun
<1>3. Held(all, 0) = Held(m, 0) \cup Run(e, toks)
  BY <1>2, UnionHeld
<1>4. Bounded(all) /\ all \subseteq Cell
  BY <1>2, BoundedUnion
<1>5. l \in Nat /\ DOMAIN toks = 1 .. l
  BY LenProperties
<1>6. ASSUME NEW c \in CellsOf(all, 0)
      PROVE  c.pos < e + l
  <2>1. CASE c \in m
    <3>1. c \in CellsOf(m, 0) /\ c.pos \in Nat
      BY <1>6, <2>1 DEF CellsOf, Cell
    <3> HIDE DEF e, l
    <3> QED
      BY <1>1, <1>5, <3>1
  <2>2. CASE c \in new
    <3>1. PICK i \in DOMAIN toks : c.pos = e + i - 1
      BY <2>2, NewCellsOwned
    <3>2. i \in 1 .. l
      BY <1>5
    <3> HIDE DEF e, l
    <3> QED
      BY <1>1, <1>5, <3>1, <3>2
  <2> QED
    BY <1>6, <2>1, <2>2 DEF CellsOf
<1>7. ASSUME e + l > 0
      PROVE  \E c \in CellsOf(all, 0) : c.pos = (e + l) - 1
  <2>1. CASE l = 0
    <3>1. e > 0 /\ (e + l) - 1 = e - 1
      <4> HIDE DEF e, l
      <4> QED
        BY <1>1, <1>7, <2>1
    <3> QED
      BY <1>1, <3>1 DEF CellsOf
  <2>2. CASE l # 0
    <3>1. l \in DOMAIN toks /\ e + l - 1 = (e + l) - 1
      <4>1. l \in 1 .. l /\ e + l - 1 = (e + l) - 1
        <5> HIDE DEF e, l
        <5> QED
          BY <1>1, <1>5, <2>2
      <4> QED
        BY <1>5, <4>1
    <3> DEFINE c == [pos |-> e + l - 1, tok |-> toks[l], seqs |-> {0}]
    <3>2. c \in new
      BY <3>1, Zenon DEF NewCells
    <3>3. c \in CellsOf(all, 0) /\ c.pos = (e + l) - 1
      BY <3>1, <3>2 DEF CellsOf
    <3> QED
      BY <3>3
  <2> QED
    BY <2>1, <2>2
<1>8. e + l \in Nat
  BY <1>1, <1>5
<1>9. EndOf(all) = e + l
  <2> HIDE DEF all, e, l
  <2> QED
    BY <1>4, <1>6, <1>7, <1>8, EndOfIs
<1> QED
  BY <1>3, <1>4, <1>9 DEF Appended

(* A sequence that holds a text from position 0 on ends where it does. *)
LEMMA EndOfText ==
    ASSUME NEW m, m \subseteq Cell, NEW text \in Seq(Token), Held(m, 0) = Run(0, text)
    PROVE  EndOf(m) = Len(text)
<1> DEFINE n == Len(text)
<1>1. n \in Nat /\ DOMAIN text = 1 .. n
  BY LenProperties
<1>2. ASSUME NEW c \in CellsOf(m, 0)
      PROVE  c.pos < n
  <2>1. <<c.pos, c.tok>> \in Run(0, text)
    BY DEF Held
  <2>2. PICK i \in DOMAIN text : <<c.pos, c.tok>> = <<0 + i - 1, text[i]>>
    BY <2>1 DEF Run
  <2>3. i \in 1 .. n /\ c.pos = 0 + i - 1
    BY <1>1, <2>2
  <2> HIDE DEF n
  <2> QED
    BY <1>1, <2>3
<1>3. ASSUME n > 0
      PROVE  \E c \in CellsOf(m, 0) : c.pos = n - 1
  <2>1. n \in DOMAIN text /\ 0 + n - 1 = n - 1
    BY <1>1, <1>3
  <2>2. <<0 + n - 1, text[n]>> \in Held(m, 0)
    BY <2>1, Zenon DEF Run
  <2>3. PICK c \in CellsOf(m, 0) : <<c.pos, c.tok>> = <<0 + n - 1, text[n]>>
    BY <2>2 DEF Held
  <2> QED
    BY <2>1, <2>3
<1> QED
  <2> HIDE DEF n
  <2>1. EndOf(m) = n
    BY <1>1, <1>2, <1>3, EndOfIs
  <2> QED
    BY <2>1 DEF n

\* A cache without cells holds the empty text.
LEMMA EmptyCache ==
    /\ {} \subseteq Cell /\ Bounded({}) /\ Held({}, 0) = Run(0, <<>>)
    /\ EndOf({}) = 0 /\ CellsOf({}, 0) = {}
<1>1. CellsOf({}, 0) = {} /\ Held({}, 0) = {} /\ Run(0, <<>>) = {}
  BY DEF CellsOf, Held, Run
<1>2. EndOf({}) = 0
  BY <1>1, EndOfIs
<1> QED
  BY <1>1, <1>2, BoundedNothing

(* What Held says of the cells of one sequence is all that EndOf looks at. *)
LEMMA SameEnd ==
    ASSUME NEW m, m \subseteq Cell, Bounded(m), NEW n, n \subseteq Cell, Held(n, 0) = Held(m, 0)
    PROVE  EndOf(n) = EndOf(m)
<1>1. \A c \in CellsOf(n, 0) : \E d \in CellsOf(m, 0) : c.pos = d.pos
  <2> TAKE c \in CellsOf(n, 0)
  <2>1. <<c.pos, c.tok>> \in Held(m, 0)
    BY DEF Held
  <2> QED
    BY <2>1 DEF Held
<1>2. \A d \in CellsOf(m, 0) : \E c \in CellsOf(n, 0) : c.pos = d.pos
  <2> TAKE d \in CellsOf(m, 0)
  <2>1. <<d.pos, d.tok>> \in Held(n, 0)
    BY DEF Held
  <2> QED
    BY <2>1 DEF Held
<1> DEFINE e == EndOf(m)
<1>3. /\ e \in Nat /\ \A d \in CellsOf(m, 0) : d.pos < e
      /\ e > 0 => \E d \in CellsOf(m, 0) : d.pos = e - 1
  BY EndOfType
<1>4. /\ \A c \in CellsOf(n, 0) : c.pos < e
      /\ e > 0 => \E c \in CellsOf(n, 0) : c.pos = e - 1
  <2> HIDE DEF e
  <2> QED
    BY <1>1, <1>2, <1>3
<1> HIDE DEF e
<1>5. EndOf(n) = e
  BY <1>3, <1>4, EndOfIs
<1> QED
  BY <1>5 DEF e

-----------------------------------------------------------------------------
(* Types, and who runs when. *)

\* What generate's decodes leave is a bounded cache.
LEMMA GenCells ==
    ASSUME IInv, CtxTypeOK, NEW toks \in Seq(Token)
    PROVE  /\ Appended(mem, toks) \subseteq Cell /\ Bounded(Appended(mem, toks))
           /\ Appended({}, toks) \subseteq Cell /\ Bounded(Appended({}, toks))
BY AppendedText, EmptyCache DEF IInv, TypeOK, CtxTypeOK

\* Removing cells of a sequence leaves a bounded cache.
LEMMA CutCells ==
    ASSUME NEW m, m \subseteq Cell, Bounded(m), NEW s, NEW from
    PROVE  SeqRm(m, s, from) \subseteq Cell /\ Bounded(SeqRm(m, s, from))
<1>1. \A c \in SeqRm(m, s, from) : \E d \in m : c.pos = d.pos
  BY SeqRmCells DEF Cut
<1> QED
  BY <1>1, SeqRmType, BoundedFrom

\* No call of the slots makes the cache unbounded.
LEMMA SlotsBounded ==
    ASSUME IInv, Bounded(mem), Apart, SlotsCall
    PROVE  Bounded(mem')
<1>1. mem \subseteq Cell /\ TypeOK
  BY DEF IInv, TypeOK
<1>2. CASE mem' = mem
  BY <1>2
<1>3. ASSUME NEW s, mem' = SeqRm(mem, s, 0)
      PROVE  Bounded(mem')
  BY <1>1, <1>3, CutCells
<1>4. Bounded(WithoutSystem) /\ WithoutSystem \subseteq Cell
  BY <1>1, CutCells DEF WithoutSystem
<1>5. ASSUME NEW s, NEW toks \in SystemPrompt, SetSystem(toks)
      PROVE  Bounded(mem')
  <2>1. toks \in Seq(Token)
    BY SlotsAssumption
  <2>2. mem' = WithoutSystem \cup NewCells(NSeqMax - 1, 0, toks) /\ NSeqMax - 1 \in SeqIds
    BY <1>5, SizesAssumption DEF SetSystem, SeqIds
  <2>3. /\ NewCells(NSeqMax - 1, 0, toks) \subseteq Cell
        /\ Bounded(NewCells(NSeqMax - 1, 0, toks))
    BY <2>1, <2>2, NewCellsType, BoundedNew
  <2> QED
    BY <1>4, <2>2, <2>3, BoundedUnion
<1>6. ASSUME ClearSystem
      PROVE  Bounded(mem')
  BY <1>4, <1>6, CutCells DEF ClearSystem
<1>7. ASSUME LaunchHead
      PROVE  Bounded(mem')
  <2> DEFINE s    == FirstFree
             keep == Reused(Head(queue).prompt)
  <2>1. mem' = Adopted(SeqRm(mem, s, 0), s, keep) /\ FreeSlots # {} /\ queue # <<>>
    BY <1>7 DEF LaunchHead, CanLaunch
  <2>2. s \in SlotIds /\ s # system_seq
    BY <2>1, FirstFreeType DEF FreeSlots
  <2>3. keep \in Nat
    <3>1. Head(queue) \in Task
      BY <1>1, <2>1 DEF TypeOK
    <3>2. Head(queue).prompt \in Seq(Token) \ {<<>>}
      BY <3>1 DEF Task
    <3> QED
      BY <1>1, <3>2, ReusedType DEF TypeOK
  <2> HIDE DEF s, keep
  <2>4. \A c \in mem' : \E d \in mem : c.pos = d.pos
    BY <1>1, <2>1, <2>2, <2>3, AdoptedCells
  <2> QED
    BY <2>4, BoundedFrom
<1>8. ASSUME DecodeOk
      PROVE  Bounded(mem')
  <2>1. mem' = mem \cup BatchCells
    BY <1>8 DEF DecodeOk
  <2> QED
    BY <1>1, <2>1, BatchBounded, BatchCellsType, BoundedUnion DEF IInv
<1>9. ASSUME DecodeFails
      PROVE  Bounded(mem')
  <2>1. \A c \in mem' : \E d \in mem : c.pos = d.pos
    BY <1>1, <1>9, ReleasedCells DEF DecodeFails
  <2> QED
    BY <2>1, BoundedFrom
<1>10. ASSUME UpdateStep
       PROVE  Bounded(mem')
  <2>1. CASE LaunchHead
    BY <1>7, <2>1
  <2>2. CASE LaunchDone \/ TakeChunk \/ BatchReady \/ NothingToDecode \/ PassOver
             \/ SamplerThrows \/ UpdateDone
    BY <2>2 DEF LaunchDone, TakeChunk, BatchReady, NothingToDecode, PassOver, SamplerThrows,
       UpdateDone, stateVars
  <2>3. CASE DecodeOk
    BY <1>8, <2>3
  <2>4. CASE DecodeFails
    BY <1>9, <2>4
  <2>5. CASE NoBudget \/ SampleEos
    <3>1. mem' = SeqRm(mem, at, 0)
      BY <2>5 DEF NoBudget, SampleEos, Finish
    <3> QED
      BY <1>3, <3>1
  <2>6. CASE \E tok \in Sampled, stopped \in BOOLEAN : SampleToken(tok, stopped)
    <3>1. mem' = mem \/ mem' = SeqRm(mem, at, 0)
      BY <2>6 DEF SampleToken, Finish
    <3> QED
      BY <1>2, <1>3, <3>1
  <2> QED
    BY <1>10, <2>1, <2>2, <2>3, <2>4, <2>5, <2>6 DEF UpdateStep
<1>11. CASE \/ \E prompt \in Prompt, n \in NPredict : Post(prompt, n)
            \/ \E i \in DOMAIN queue : CancelQueued(i)
            \/ UpdateBegin
  BY <1>2, <1>11 DEF Post, CancelQueued, UpdateBegin
<1>12. CASE \E s \in SlotIds : CancelBusy(s)
  BY <1>3, <1>12 DEF CancelBusy
<1> QED
  BY <1>5, <1>6, <1>10, <1>11, <1>12 DEF SlotsCall

\* A call of the slots leaves them apart from generate and the history.
LEMMA SlotsApart ==
    ASSUME IInv, Apart, SlotsCall
    PROVE  Apart'
<1>1. gen.pc = "none" /\ gen' = gen
  BY DEF SlotsCall, ctxVars
<1>2. CASE \E prompt \in Prompt, n \in NPredict : Post(prompt, n)
  BY <1>1, <1>2 DEF Post, Apart, Busy, Idle, updateVars
<1>3. CASE \E i \in DOMAIN queue : CancelQueued(i)
  BY <1>1, <1>3 DEF CancelQueued, Apart, Busy, Idle, updateVars
<1>4. CASE \E s \in SlotIds : CancelBusy(s)
  BY <1>1, <1>4 DEF CancelBusy, Apart
<1>5. CASE \E toks \in SystemPrompt : SetSystem(toks)
  BY <1>1, <1>5, SizesAssumption DEF SetSystem, Apart
<1>6. CASE ClearSystem
  BY <1>1, <1>6, SizesAssumption DEF ClearSystem, Apart, Busy, Idle, updateVars
<1>7. CASE UpdateBegin
  BY <1>1, <1>7 DEF UpdateBegin, Apart
<1>8. CASE UpdateStep
  <2>1. phase # "host" /\ UNCHANGED <<system_seq, hist_valid>>
    BY <1>8 DEF UpdateStep, LaunchHead, LaunchDone, TakeChunk, BatchReady, NothingToDecode,
       DecodeOk, DecodeFails, PassOver, NoBudget, SampleEos, SampleToken, SamplerThrows,
       UpdateDone, Sampling, stateVars
  <2> QED
    BY <1>1, <2>1 DEF Apart
<1> QED
  BY <1>2, <1>3, <1>4, <1>5, <1>6, <1>7, <1>8 DEF SlotsCall

\* CtxInv is kept by the calls of the slots.
LEMMA SlotsCallInv ==
    ASSUME CtxInv, SlotsCall
    PROVE  CtxInv'
<1>1. IInv'
  <2>1. Next
    BY DEF SlotsCall, Next, HostCall
  <2> QED
    BY <2>1, NextIInv DEF CtxInv
<1>2. UNCHANGED <<hist, interrupt, gen, saved>>
  BY DEF SlotsCall, ctxVars
<1>3. Bounded(mem') /\ Apart'
  BY SlotsBounded, SlotsApart DEF CtxInv, CtxTypeOK
<1> QED
  BY <1>1, <1>2, <1>3 DEF CtxInv, CtxTypeOK, Heeded, Shaped

\* CtxInv is kept by reset.
LEMMA ResetInv ==
    ASSUME CtxInv, ContextReset
    PROVE  CtxInv'
<1>1. IInv'
  BY ResetIInv DEF CtxInv, ContextReset
<1>2. Apart'
  BY DEF ContextReset, Reset, Apart, CtxInv, Busy, Idle, IdleSlot, updateVars
<1>3. CtxTypeOK'
  <2>1. mem' = {} /\ hist' = <<>> /\ UNCHANGED <<interrupt, gen, saved>>
    BY DEF ContextReset, Reset
  <2> QED
    BY <2>1, BoundedNothing DEF CtxInv, CtxTypeOK
<1> QED
  BY <1>1, <1>2, <1>3 DEF CtxInv, Heeded, Shaped, ContextReset

\* The slots' invariant is kept by a call that only writes cache and history.
LEMMA SingleCallIInv ==
    ASSUME IInv, SlotsUntouched, mem' \subseteq Cell, hist_valid' \in BOOLEAN
    PROVE  IInv'
BY DEF IInv, TypeOK, RowKinds, RowCount, RowHolders, Idle, SlotsUntouched, updateVars

(* A call that starts and ends between two of the slots'. *)
LEMMA SingleCallInv ==
    ASSUME CtxInv, SlotsUntouched, UNCHANGED gen, gen.pc = "none", phase = "host",
           mem' \subseteq Cell, Bounded(mem'), hist_valid' \in BOOLEAN,
           Busy = {} \/ ~hist_valid',
           hist' \in Seq(Token), interrupt' \in BOOLEAN,
           saved' \in [mem : SUBSET Cell, hist : Seq(Token), valid : BOOLEAN, there : BOOLEAN],
           Bounded(saved'.mem)
    PROVE  CtxInv'
<1>1. IInv'
  BY SingleCallIInv DEF CtxInv
<1>2. CtxTypeOK'
  BY DEF CtxInv, CtxTypeOK
<1>3. Apart'
  BY DEF CtxInv, Apart, SlotsUntouched, Busy, Idle, updateVars
<1>4. Heeded' /\ Shaped'
  BY DEF CtxInv, Heeded, Shaped
<1> QED
  BY <1>1, <1>2, <1>3, <1>4 DEF CtxInv

\* CtxInv holds of a new context.
LEMMA InitInv == CtxInit => CtxInv
<1> SUFFICES ASSUME CtxInit PROVE CtxInv
  OBVIOUS
<1>1. IInv
  BY InitIInv DEF CtxInit
<1>2. gen = NoGen /\ saved = NoBlob /\ hist = <<>> /\ interrupt = FALSE /\ mem = {}
  BY DEF CtxInit, Init
<1>3. gen \in GenType
  BY <1>2 DEF NoGen, GenType
<1>4. saved \in [mem : SUBSET Cell, hist : Seq(Token), valid : BOOLEAN, there : BOOLEAN]
      /\ saved.mem = {}
  BY <1>2 DEF NoBlob
<1>5. CtxTypeOK
  <2>1. Bounded(mem) /\ Bounded(saved.mem)
    BY <1>2, <1>4, BoundedNothing, Zenon
  <2>2. hist \in Seq(Token) /\ interrupt \in BOOLEAN
    BY <1>2, EmptySeq, Zenon
  <2> QED
    BY <1>3, <1>4, <2>1, <2>2 DEF CtxTypeOK
<1>6. gen.pc = "none" /\ gen.late = 0
  BY <1>2 DEF NoGen
<1>7. Apart
  BY <1>6 DEF CtxInit, Init, Apart, Busy, Idle, IdleSlot
<1> QED
  BY <1>1, <1>5, <1>6, <1>7 DEF CtxInv, Heeded, Shaped

\* The single-sequence calls find the slots idle.
LEMMA FreeIdle ==
    ASSUME Free
    PROVE  phase = "host" /\ gen.pc = "none" /\ Busy = {} /\ queue = <<>>
BY DEF Free, slots_active

\* A prefix of a text.
LEMMA PrefixType ==
    ASSUME NEW text \in Seq(Token), NEW k \in 0 .. Len(text)
    PROVE  /\ SubSeq(text, 1, k) \in Seq(Token) /\ Len(SubSeq(text, 1, k)) = k
           /\ DOMAIN SubSeq(text, 1, k) = 1 .. k
           /\ \A i \in 1 .. k : SubSeq(text, 1, k)[i] = text[i]
<1>1. k \in Nat /\ Len(text) \in Nat /\ k <= Len(text)
  BY LenProperties
<1>2. \A i \in 1 .. k : text[i] \in Token
  BY <1>1, ElementOfSeq
<1> QED
  BY <1>1, <1>2, SubSeqProperties

\* What a failing decode got through is a prefix of the text.
LEMMA DecodableType ==
    ASSUME NEW m, NEW text \in Seq(Token), NEW k \in Decodable(m, text)
    PROVE  k \in 0 .. Len(text) /\ SubSeq(text, 1, k) \in Seq(Token)
<1>1. k \in 0 .. Len(text)
  BY DEF Decodable
<1> QED
  BY <1>1, PrefixType

\* CtxInv is kept by eval.
LEMMA EvalInv ==
    ASSUME CtxInv, NEW text \in EvalText, Eval(text)
    PROVE  CtxInv'
<1>1. text \in Seq(Token)
  BY ContextAssumption
<1>2. PICK k \in Decodable(mem, text) :
         /\ mem' = Appended(mem, SubSeq(text, 1, k))
         /\ hist' = IF hist_valid THEN hist \o SubSeq(text, 1, k) ELSE hist
  BY DEF Eval
<1>3. SubSeq(text, 1, k) \in Seq(Token)
  BY <1>1, <1>2, DecodableType
<1>4. mem' \subseteq Cell /\ Bounded(mem')
  BY <1>2, <1>3, GenCells DEF CtxInv
<1>5. hist' \in Seq(Token)
  BY <1>2, <1>3, ConcatProperties DEF CtxInv, CtxTypeOK
<1> QED
  BY <1>4, <1>5, FreeIdle, SingleCallInv DEF Eval, CtxInv, CtxTypeOK, IInv, TypeOK

\* CtxInv is kept by score.
LEMMA ScoreInv ==
    ASSUME CtxInv, NEW text \in ScoreText, Score(text)
    PROVE  CtxInv'
<1>1. text \in Seq(Token)
  BY ContextAssumption
<1>2. PICK k \in Decodable({}, text) : mem' = Appended({}, SubSeq(text, 1, k))
  BY DEF Score
<1>3. SubSeq(text, 1, k) \in Seq(Token)
  BY <1>1, <1>2, DecodableType
<1>4. mem' \subseteq Cell /\ Bounded(mem')
  BY <1>2, <1>3, GenCells DEF CtxInv
<1>5. hist' \in Seq(Token) /\ hist_valid' = FALSE
  BY DEF Score, Forget
<1> QED
  BY <1>4, <1>5, FreeIdle, SingleCallInv DEF Score, CtxInv, CtxTypeOK, IInv, TypeOK

\* CtxInv is kept by generate_speculative.
LEMMA SpeculativeInv ==
    ASSUME CtxInv, NEW text \in SpecLeft, Speculative(text)
    PROVE  CtxInv'
<1>1. text \in Seq(Token)
  BY ContextAssumption
<1>2. mem' = Appended({}, text) /\ hist' = <<>> /\ hist_valid' = FALSE /\ interrupt' = FALSE
  BY DEF Speculative, Forget
<1>3. mem' \subseteq Cell /\ Bounded(mem')
  BY <1>1, <1>2, GenCells DEF CtxInv
<1>4. /\ phase = "host" /\ gen.pc = "none" /\ SlotsUntouched /\ UNCHANGED <<gen, saved>>
      /\ saved \in [mem : SUBSET Cell, hist : Seq(Token), valid : BOOLEAN, there : BOOLEAN]
      /\ Bounded(saved.mem)
  BY DEF Speculative, CtxInv, CtxTypeOK
<1>5. hist' \in Seq(Token) /\ interrupt' \in BOOLEAN /\ hist_valid' \in BOOLEAN /\ ~hist_valid'
  BY <1>2, EmptySeq, Zenon
<1>6. Bounded(saved'.mem)
  BY <1>4
<1> QED
  BY <1>3, <1>4, <1>5, <1>6, SingleCallInv

\* Dropping the sequences of the choices leaves sequence 0 as it is.
LEMMA ChoicesCells ==
    ASSUME NEW m, m \subseteq Cell, Bounded(m), NEW ss
    PROVE  /\ WithoutSequences(m, ss) \subseteq Cell /\ Bounded(WithoutSequences(m, ss))
           /\ 0 \notin ss => Held(WithoutSequences(m, ss), 0) = Held(m, 0)
<1> DEFINE n == WithoutSequences(m, ss)
<1>1. ASSUME NEW d \in m
      PROVE  LET c == [d EXCEPT !.seqs = @ \ ss]
             IN  c \in Cell /\ c.pos = d.pos /\ c.tok = d.tok /\ c.seqs = d.seqs \ ss
  BY DEF Cell
<1>2. \A c \in n : \E d \in m :
          /\ c = [d EXCEPT !.seqs = @ \ ss]
          /\ c \in Cell /\ c.pos = d.pos /\ c.tok = d.tok /\ c.seqs = d.seqs \ ss
  BY <1>1 DEF WithoutSequences
<1>3. n \subseteq Cell /\ Bounded(n)
  BY <1>2, BoundedFrom
<1>4. ASSUME 0 \notin ss
      PROVE  Held(n, 0) = Held(m, 0)
  <2>1. ASSUME NEW d \in m, 0 \in d.seqs
        PROVE  \E c \in n : 0 \in c.seqs /\ c.pos = d.pos /\ c.tok = d.tok
    <3>1. ~(d.seqs \subseteq ss)
      BY <1>4, <2>1
    <3>2. [d EXCEPT !.seqs = @ \ ss] \in n
      BY <3>1 DEF WithoutSequences
    <3> QED
      BY <1>1, <1>4, <2>1, <3>2
  <2>2. ASSUME NEW c \in n, 0 \in c.seqs
        PROVE  \E d \in m : 0 \in d.seqs /\ c.pos = d.pos /\ c.tok = d.tok
    BY <1>2, <2>2
  <2> HIDE DEF n
  <2> QED
    BY <2>1, <2>2 DEF Held, CellsOf
<1> QED
  BY <1>3, <1>4

\* CtxInv is kept by score_choices, complete or failed.
LEMMA ChoicesInv ==
    ASSUME CtxInv, NEW n, ScoreChoices(n) \/ ScoreChoicesFails
    PROVE  CtxInv'
<1>1. mem \subseteq Cell /\ Bounded(mem)
  BY DEF CtxInv, CtxTypeOK, IInv, TypeOK
<1>2. mem' \subseteq Cell /\ Bounded(mem')
  BY <1>1, ChoicesCells, CutCells DEF ScoreChoices, ScoreChoicesFails
<1>3. /\ Free /\ SlotsUntouched /\ UNCHANGED <<hist, interrupt, gen, saved>>
      /\ hist_valid' \in BOOLEAN
  BY DEF ScoreChoices, ScoreChoicesFails, CtxInv, IInv, TypeOK
<1> QED
  BY <1>2, <1>3, FreeIdle, SingleCallInv DEF CtxInv, CtxTypeOK

\* CtxInv is kept by state_save and state_load, whatever the blob.
LEMMA StateInv ==
    ASSUME CtxInv, StateSave \/ (\E bare \in BOOLEAN : StateLoad(bare)) \/ StateRejected
    PROVE  CtxInv'
<1> DEFINE Blob == [mem : SUBSET Cell, hist : Seq(Token), valid : BOOLEAN, there : BOOLEAN]
<1>1. /\ mem \subseteq Cell /\ Bounded(mem) /\ hist_valid \in BOOLEAN /\ hist \in Seq(Token)
      /\ saved \in Blob /\ Bounded(saved.mem) /\ interrupt \in BOOLEAN
  BY DEF CtxInv, CtxTypeOK, IInv, TypeOK
<1>2. CASE StateSave
  <2>1. saved' = [mem |-> mem, hist |-> IF hist_valid THEN hist ELSE <<>>,
                  valid |-> hist_valid, there |-> TRUE]
    BY <1>2 DEF StateSave
  <2>2. saved' \in Blob /\ saved'.mem = mem
    BY <1>1, <2>1
  <2>3. UNCHANGED <<vars, hist, interrupt, gen>>
    BY <1>2 DEF StateSave
  <2>4. CtxTypeOK'
    BY <1>1, <2>2, <2>3 DEF CtxInv, CtxTypeOK, vars, stateVars
  <2>5. IInv'
    BY <2>3, NextIInv DEF CtxInv
  <2> QED
    BY <2>3, <2>4, <2>5 DEF CtxInv, Apart, Heeded, Shaped, vars, stateVars, updateVars, Busy, Idle
<1>3. CASE \E bare \in BOOLEAN : StateLoad(bare)
  <2>1. PICK bare \in BOOLEAN : StateLoad(bare)
    BY <1>3
  <2>2. /\ mem' = saved.mem /\ hist' = IF bare THEN <<>> ELSE saved.hist
        /\ hist_valid' = (saved.valid /\ ~bare)
        /\ Free /\ SlotsUntouched /\ UNCHANGED <<interrupt, gen, saved>>
    BY <2>1, Zenon DEF StateLoad
  <2>3. mem' \subseteq Cell /\ hist' \in Seq(Token)
    BY <1>1, <2>2
  <2>4. hist_valid' \in BOOLEAN
    BY <2>2
  <2> QED
    BY <1>1, <2>2, <2>3, <2>4, FreeIdle, SingleCallInv
<1>4. CASE StateRejected
  <2>1. mem' \subseteq Cell /\ Bounded(mem')
    BY <1>1, <1>4, BoundedNothing DEF StateRejected
  <2> QED
    BY <1>1, <1>4, <2>1, FreeIdle, SingleCallInv DEF StateRejected
<1> QED
  BY <1>2, <1>3, <1>4

\* CtxInv is kept by lora_set.
LEMMA LoraInv ==
    ASSUME CtxInv, ContextLoraSet
    PROVE  CtxInv'
<1>1. IInv'
  BY LoraSetIInv DEF CtxInv, ContextLoraSet
<1> QED
  BY <1>1 DEF CtxInv, ContextLoraSet, LoraSet, CtxTypeOK, Apart, Heeded, Shaped, Busy, Idle, updateVars

\* CtxInv is kept by embed and embed_tokens.
LEMMA EmbedInv ==
    ASSUME CtxInv, NEW text \in EmbedText, Embed(text)
    PROVE  CtxInv'
<1>1. text \in Seq(Token)
  BY ContextAssumption
<1>2. /\ Free /\ SlotsUntouched /\ UNCHANGED <<interrupt, saved>>
      /\ hist' = <<>> /\ hist_valid' = FALSE
      /\ mem' = {} \/ mem' = Appended({}, text)
      /\ gen' = gen \/ gen' = [gen EXCEPT !.pc = "trapped"]
  BY DEF Embed, Forget
<1>3. mem' \subseteq Cell /\ Bounded(mem')
  BY <1>1, <1>2, GenCells, BoundedNothing DEF CtxInv
<1>4. gen' \in GenType /\ gen'.late = gen.late /\ gen'.pc \in {"none", "trapped"}
  BY <1>2, FreeIdle DEF CtxInv, CtxTypeOK, GenType
<1>5. IInv'
  BY <1>2, <1>3, SingleCallIInv DEF CtxInv
<1>6. CtxTypeOK'
  BY <1>2, <1>3, <1>4 DEF CtxInv, CtxTypeOK
<1>7. Apart'
  BY <1>2, FreeIdle DEF CtxInv, Apart, SlotsUntouched, Busy, Idle, updateVars
<1>8. Heeded' /\ Shaped'
  BY <1>2, <1>4, FreeIdle DEF CtxInv, Heeded, Shaped
<1> QED
  BY <1>5, <1>6, <1>7, <1>8 DEF CtxInv

(* The steps of a generate. *)

\* generate keeps less than its prompt, and only what history and prompt share.
LEMMA KeepType ==
    ASSUME hist \in Seq(Token), NEW prompt \in Seq(Token) \ {<<>>}
    PROVE  /\ KeepOf(prompt) \in 0 .. Len(hist) /\ KeepOf(prompt) < Len(prompt)
           /\ KeepOf(prompt) > 0 => hist_valid
           /\ \A i \in 1 .. KeepOf(prompt) : hist[i] = prompt[i]
<1> DEFINE usable == {k \in 0 .. Len(hist) :
                      /\ k < Len(prompt)
                      /\ k > 0 => hist_valid
                      /\ \A i \in 1 .. k : hist[i] = prompt[i]}
<1>1. Len(hist) \in Nat /\ Len(prompt) \in Nat /\ Len(prompt) > 0
  BY LenProperties
<1>2. 0 \in usable /\ usable \subseteq 0 .. Len(hist)
  BY <1>1
<1>3. \E x \in usable : \A y \in usable : y <= x
  <2> HIDE DEF usable
  <2> QED
    BY <1>1, <1>2, GreatestElement
<1>4. KeepOf(prompt) = CHOOSE k \in usable : \A j \in usable : j <= k
  BY Zenon DEF KeepOf
<1>5. KeepOf(prompt) \in usable
  <2> HIDE DEF usable
  <2> QED
    BY <1>3, <1>4
<1> QED
  BY <1>5

\* A piece of the prompt is what one batch takes of it.
LEMMA PieceType ==
    ASSUME NEW text \in Seq(Token), NEW off \in Nat
    PROVE  /\ Piece(text, off) \in Seq(Token)
           /\ off < Len(text) =>
                /\ Piece(text, off) =
                     SubSeq(text, off + 1, IF off + NBatch <= Len(text) THEN off + NBatch ELSE Len(text))
<1> DEFINE l == Len(text)
<1>1. l \in Nat /\ NBatch \in Nat /\ NBatch > 0
  BY LenProperties, SlotsAssumption
<1>2. ASSUME NEW e \in Nat, e <= l
      PROVE  SubSeq(text, off + 1, e) \in Seq(Token)
  <2>1. \A i \in off + 1 .. e : text[i] \in Token
    <3> TAKE i \in off + 1 .. e
    <3>1. i \in 1 .. l
      BY <1>1, <1>2
    <3> QED
      BY <3>1, ElementOfSeq
  <2> QED
    BY <2>1, SubSeqProperties
<1>3. Piece(text, off) = SubSeq(text, off + 1, IF l - off <= NBatch THEN l ELSE off + NBatch)
  BY Zenon DEF Piece
<1> DEFINE e == IF l - off <= NBatch THEN l ELSE off + NBatch
           f == IF off + NBatch <= l THEN off + NBatch ELSE l
<1>4. e \in Nat /\ e <= l /\ e = f
  <2> HIDE DEF l
  <2> QED
    BY <1>1
<1>5. Piece(text, off) = SubSeq(text, off + 1, f)
  BY <1>3, <1>4, Zenon
<1>6. Piece(text, off) \in Seq(Token)
  <2> HIDE DEF e, f, l
  <2> QED
    BY <1>2, <1>4, <1>5
<1> QED
  BY <1>5, <1>6

\* What a step of a generate leaves of the types, given what it does to gen.
LEMMA GenStepInv ==
    ASSUME CtxInv, gen.pc # "none", SlotsUntouched, UNCHANGED <<hist_valid, saved>>,
           mem' \subseteq Cell, Bounded(mem'), hist' \in Seq(Token), interrupt' \in BOOLEAN,
           gen' \in GenType, Heeded', Shaped'
    PROVE  CtxInv'
<1>1. hist_valid' \in BOOLEAN
  BY DEF CtxInv, IInv, TypeOK
<1>2. IInv'
  BY <1>1, SingleCallIInv DEF CtxInv
<1>3. CtxTypeOK'
  BY DEF CtxInv, CtxTypeOK
<1>4. Apart'
  BY DEF CtxInv, Apart, SlotsUntouched, Busy, Idle, updateVars
<1> QED
  BY <1>2, <1>3, <1>4 DEF CtxInv

\* A step that leaves the slots' variables leaves cache and history valid flag.
LEMMA VarsKept ==
    ASSUME UNCHANGED vars
    PROVE  SlotsUntouched /\ UNCHANGED <<hist_valid, mem>>
BY DEF vars, stateVars, updateVars, SlotsUntouched

\* The fields of a context that generates nothing.
LEMMA NoGenType ==
    /\ NoGen \in GenType /\ NoGen.pc = "none" /\ NoGen.late = 0 /\ NoGen.produced = <<>>
    /\ NoGen.off = 0 /\ NoGen.prompt = <<>> /\ NoGen.base = {} /\ NoGen.from = 0
BY EmptySeq DEF NoGen, GenType

\* generate returns to a context that generates nothing.
LEMMA ReturnsShape ==
    ASSUME Returns
    PROVE  gen' \in GenType /\ Heeded' /\ Shaped'
<1>1. gen' \in GenType /\ gen'.pc = "none" /\ gen'.late = 0
  BY NoGenType DEF Returns
<1> QED
  BY <1>1 DEF Heeded, Shaped

\* The parts of CtxInv that the steps of a generate use.
LEMMA GenFacts ==
    ASSUME CtxInv
    PROVE  /\ gen \in GenType /\ gen.prompt \in Seq(Token) /\ gen.produced \in Seq(Token)
           /\ gen.off \in Nat /\ gen.late \in Nat /\ gen.from \in Nat /\ gen.budget \in Nat
           /\ mem \subseteq Cell /\ Bounded(mem) /\ hist \in Seq(Token) /\ interrupt \in BOOLEAN
           /\ hist_valid \in BOOLEAN
BY DEF CtxInv, CtxTypeOK, GenType, IInv, TypeOK

\* A decode of generate leaves a bounded cache and a history.
LEMMA DecodesInv ==
    ASSUME CtxInv, NEW toks \in Seq(Token), Decodes(toks)
    PROVE  mem' \subseteq Cell /\ Bounded(mem') /\ hist' \in Seq(Token)
<1>1. mem' = Appended(mem, toks) /\ hist' = IF hist_valid THEN hist \o toks ELSE hist
  BY DEF Decodes
<1>2. hist \o toks \in Seq(Token)
  BY GenFacts, ConcatProperties
<1> QED
  BY <1>1, <1>2, GenFacts, GenCells DEF CtxInv

\* CtxInv is kept by the look at the interrupt word before a batch.
LEMMA CheckPromptInv ==
    ASSUME CtxInv, CheckPrompt
    PROVE  CtxInv'
<1>1. gen.pc = "check_prompt" /\ UNCHANGED <<vars, hist, interrupt, saved>>
  BY DEF CheckPrompt
<1>2. gen' \in GenType /\ Heeded' /\ Shaped'
  <2>1. CASE Returns
    BY <2>1, ReturnsShape
  <2>2. CASE gen.off < Len(gen.prompt) /\ ~interrupt /\ gen' = [gen EXCEPT !.pc = "decode_prompt"]
    <3>1. /\ gen' \in GenType /\ gen'.pc = "decode_prompt" /\ gen'.late = gen.late
          /\ gen'.off = gen.off /\ gen'.prompt = gen.prompt /\ gen'.produced = gen.produced
      BY <2>2, GenFacts DEF GenType
    <3>2. gen.late = 0
      BY <2>2, GenFacts DEF CtxInv, Heeded
    <3> QED
      BY <1>1, <2>2, <3>1, <3>2 DEF CtxInv, Heeded, Shaped
  <2>3. CASE gen' = [gen EXCEPT !.pc = "sample"]
    <3>1. gen' \in GenType /\ gen'.pc = "sample" /\ gen'.late = gen.late
      BY <2>3, GenFacts DEF GenType
    <3> QED
      BY <1>1, <3>1 DEF CtxInv, Heeded, Shaped
  <2> QED
    BY <2>1, <2>2, <2>3 DEF CheckPrompt
<1> QED
  BY <1>1, <1>2, VarsKept, GenFacts, GenStepInv

\* A batch begun with the word raised is the first such.
LEMMA LateType ==
    ASSUME CtxInv, gen.late = 0
    PROVE  Late \in Nat /\ Late <= 1 /\ (Late > 0 => interrupt)
BY DEF Late

\* CtxInv is kept by a batch of the prompt.
LEMMA DecodePromptInv ==
    ASSUME CtxInv, DecodePrompt
    PROVE  CtxInv'
<1> DEFINE toks == Piece(gen.prompt, gen.off)
<1>1. /\ gen.pc = "decode_prompt" /\ gen.late = 0
      /\ SlotsUntouched /\ UNCHANGED <<hist_valid, interrupt, saved>>
  BY DEF DecodePrompt, CtxInv, Heeded
<1>2. toks \in Seq(Token)
  BY GenFacts, PieceType
<1>3. CASE Decodes(toks) /\ gen' = [gen EXCEPT !.pc = "check_prompt", !.off = @ + NBatch, !.late = Late]
  <2>1. /\ gen' \in GenType /\ gen'.pc = "check_prompt" /\ gen'.late = Late
        /\ gen'.produced = gen.produced
    <3>1. gen.off + NBatch \in Nat
      BY GenFacts, SlotsAssumption
    <3> QED
      BY <1>1, <1>3, <3>1, GenFacts, LateType DEF GenType
  <2>2. Heeded' /\ Shaped'
    BY <1>1, <2>1, LateType DEF CtxInv, Heeded, Shaped
  <2> HIDE DEF toks
  <2> QED
    BY <1>1, <1>2, <1>3, <2>1, <2>2, DecodesInv, GenFacts, GenStepInv
<1>4. CASE DecodeRefused(toks)
  BY <1>1, <1>4, ReturnsShape, GenFacts, GenStepInv DEF DecodeRefused
<1> QED
  BY <1>3, <1>4 DEF DecodePrompt

\* CtxInv is kept by an end of generation.
LEMMA GenEosInv ==
    ASSUME CtxInv, GenEos
    PROVE  CtxInv'
BY ReturnsShape, VarsKept, GenFacts, GenStepInv DEF GenEos

\* CtxInv is kept by a sampled token.
LEMMA GenTokenInv ==
    ASSUME CtxInv, NEW tok \in Sampled, NEW stopped \in BOOLEAN, GenToken(tok, stopped)
    PROVE  CtxInv'
<1>1. gen.pc = "sample" /\ UNCHANGED <<vars, hist, interrupt, saved>>
  BY DEF GenToken
<1>2. CASE Returns
  BY <1>1, <1>2, ReturnsShape, VarsKept, GenFacts, GenStepInv
<1>3. CASE gen' = [gen EXCEPT !.pc = "check", !.produced = Append(@, tok)]
  <2>1. Append(gen.produced, tok) \in Seq(Token) /\ Append(gen.produced, tok) # <<>>
    BY GenFacts, SlotsAssumption, AppendProperties
  <2>2. /\ gen' \in GenType /\ gen'.pc = "check" /\ gen'.late = gen.late
        /\ gen'.produced = Append(gen.produced, tok)
    BY <1>3, <2>1, GenFacts DEF GenType
  <2>3. Heeded' /\ Shaped'
    BY <1>1, <2>1, <2>2 DEF CtxInv, Heeded, Shaped
  <2> QED
    BY <1>1, <2>2, <2>3, VarsKept, GenFacts, GenStepInv
<1> QED
  BY <1>2, <1>3 DEF GenToken

\* CtxInv is kept by the look at the interrupt word before a token's decode.
LEMMA CheckTokenInv ==
    ASSUME CtxInv, CheckToken
    PROVE  CtxInv'
<1>1. gen.pc = "check" /\ UNCHANGED <<vars, hist, interrupt, saved>>
  BY DEF CheckToken
<1>2. CASE Returns
  BY <1>1, <1>2, ReturnsShape, VarsKept, GenFacts, GenStepInv
<1>3. CASE ~interrupt /\ gen' = [gen EXCEPT !.pc = "decode"]
  <2>1. /\ gen' \in GenType /\ gen'.pc = "decode" /\ gen'.late = gen.late
        /\ gen'.produced = gen.produced
    BY <1>3, GenFacts DEF GenType
  <2>2. Heeded' /\ Shaped'
    BY <1>1, <1>3, <2>1, GenFacts DEF CtxInv, Heeded, Shaped
  <2> QED
    BY <1>1, <2>1, <2>2, VarsKept, GenFacts, GenStepInv
<1> QED
  BY <1>2, <1>3 DEF CheckToken

\* There is a last token once something was produced.
LEMMA LastToken ==
    ASSUME CtxInv, gen.produced # <<>>
    PROVE  /\ <<gen.produced[Len(gen.produced)]>> \in Seq(Token)
           /\ Len(gen.produced) \in Nat /\ Len(gen.produced) > 0
<1>1. gen.produced \in Seq(Token)
  BY GenFacts
<1>2. Len(gen.produced) \in Nat /\ Len(gen.produced) > 0
  BY <1>1, LenProperties
<1>3. gen.produced[Len(gen.produced)] \in Token
  BY <1>1, <1>2, ElementOfSeq
<1> QED
  BY <1>2, <1>3

\* CtxInv is kept by the decode of a token.
LEMMA DecodeTokenInv ==
    ASSUME CtxInv, DecodeToken
    PROVE  CtxInv'
<1> DEFINE toks == <<gen.produced[Len(gen.produced)]>>
<1>1. /\ gen.pc = "decode" /\ gen.late = 0
      /\ SlotsUntouched /\ UNCHANGED <<hist_valid, interrupt, saved>>
  BY DEF DecodeToken, CtxInv, Heeded
<1>2. toks \in Seq(Token)
  BY <1>1, LastToken DEF CtxInv, Shaped
<1>3. CASE Decodes(toks) /\ gen' = [gen EXCEPT !.pc = "sample", !.late = Late]
  <2>1. /\ gen' \in GenType /\ gen'.pc = "sample" /\ gen'.late = Late
    BY <1>1, <1>3, GenFacts, LateType DEF GenType
  <2>2. Heeded' /\ Shaped'
    BY <1>1, <2>1, LateType DEF CtxInv, Heeded, Shaped
  <2> HIDE DEF toks
  <2> QED
    BY <1>1, <1>2, <1>3, <2>1, <2>2, DecodesInv, GenFacts, GenStepInv
<1>4. CASE DecodeRefused(toks)
  BY <1>1, <1>4, ReturnsShape, GenFacts, GenStepInv DEF DecodeRefused
<1> QED
  BY <1>3, <1>4 DEF DecodeToken

\* CtxInv is kept by the host that raises the interrupt word.
LEMMA RaiseInv ==
    ASSUME CtxInv, RaiseInterrupt
    PROVE  CtxInv'
<1>1. gen.pc # "none" /\ interrupt' = TRUE /\ UNCHANGED <<vars, hist, gen, saved>>
  BY DEF RaiseInterrupt
<1>2. Heeded' /\ Shaped'
  BY <1>1 DEF CtxInv, Heeded, Shaped
<1> QED
  BY <1>1, <1>2, VarsKept, GenFacts, GenStepInv

\* What a sequence holds is places with tokens.
LEMMA HeldPlaces ==
    ASSUME NEW m, m \subseteq Cell
    PROVE  Held(m, 0) \subseteq Nat \X Token
BY DEF Held, CellsOf, Cell

\* The budget of a generate is a natural, n_predict = -1 included.
LEMMA GenBudgetType ==
    ASSUME NEW prompt \in Seq(Token), NEW n \in Int
    PROVE  GenBudget(prompt, n) \in Nat
<1>1. Len(prompt) \in Nat /\ NCtx \in Nat
  BY LenProperties, SizesAssumption
<1> QED
  BY <1>1 DEF GenBudget

\* The gen a call of generate starts with.
LEMMA GenerateStart ==
    ASSUME CtxInv, NEW prompt \in GenPrompt, NEW n \in GenPredict, NEW cache_prompt \in BOOLEAN,
           Generate(prompt, n, cache_prompt)
    PROVE  LET keep == IF cache_prompt THEN KeepOf(prompt) ELSE 0
           IN  /\ gen' \in GenType /\ gen'.pc = "check_prompt" /\ gen'.late = 0
               /\ gen'.prompt = prompt /\ gen'.produced = <<>>
               /\ gen'.off = keep
               /\ gen'.from = IF cache_prompt THEN 0 ELSE EndOf(mem)
               /\ gen'.base = IF cache_prompt THEN {} ELSE Held(mem, 0)
<1> DEFINE keep == IF cache_prompt THEN KeepOf(prompt) ELSE 0
           own  == IF cache_prompt THEN {} ELSE Held(mem, 0)
           from == IF cache_prompt THEN 0 ELSE EndOf(mem)
           b    == GenBudget(prompt, n)
           te   == n < 0
<1>1. gen' = [NoGen EXCEPT !.pc = "check_prompt", !.prompt = prompt, !.off = keep,
                           !.to_end = te, !.budget = b, !.base = own, !.from = from]
  BY Zenon DEF Generate
<1>2. prompt \in Seq(Token) \ {<<>>} /\ n \in Int
  BY ContextAssumption
<1>3. keep \in Nat
  BY <1>2, GenFacts, KeepType
<1>4. own \in SUBSET (Nat \X Token)
  BY GenFacts, HeldPlaces
<1>5. from \in Nat
  BY GenFacts, EndOfType
<1>6. b \in Nat
  BY <1>2, GenBudgetType
<1>7. te \in BOOLEAN
  BY <1>2
<1>8. prompt \in Seq(Token)
  BY <1>2
<1> HIDE DEF keep, own, from, b, te
<1>9. /\ gen' \in GenType /\ gen'.pc = "check_prompt" /\ gen'.late = 0
      /\ gen'.prompt = prompt /\ gen'.produced = <<>>
      /\ gen'.off = keep /\ gen'.from = from /\ gen'.base = own
  BY <1>1, <1>3, <1>4, <1>5, <1>6, <1>7, <1>8, NoGenType DEF GenType
<1> QED
  BY <1>9 DEF keep, own, from

\* CtxInv is kept by the start of a generate.
LEMMA GenerateInv ==
    ASSUME CtxInv, NEW prompt \in GenPrompt, NEW n \in GenPredict, NEW cache_prompt \in BOOLEAN,
           Generate(prompt, n, cache_prompt)
    PROVE  CtxInv'
<1> DEFINE keep == IF cache_prompt THEN KeepOf(prompt) ELSE 0
<1>1. /\ Free /\ SlotsUntouched /\ UNCHANGED saved /\ interrupt' = FALSE
      /\ mem' = IF cache_prompt THEN Trimmed(keep) ELSE mem
      /\ hist' = IF cache_prompt THEN SubSeq(hist, 1, keep) ELSE hist
      /\ hist_valid' = (cache_prompt \/ hist_valid)
  BY Zenon DEF Generate
<1>2. prompt \in Seq(Token) \ {<<>>}
  BY ContextAssumption
<1>3. mem' \subseteq Cell /\ Bounded(mem')
  <2>1. Trimmed(keep) = {} \/ Trimmed(keep) = SeqRm(mem, 0, keep)
    BY DEF Trimmed
  <2>2. SeqRm(mem, 0, keep) \subseteq Cell /\ Bounded(SeqRm(mem, 0, keep))
    BY GenFacts, CutCells
  <2>3. mem' \in {mem, {}, SeqRm(mem, 0, keep)}
    BY <1>1, <2>1, Zenon
  <2> HIDE DEF keep
  <2> QED
    BY <2>2, <2>3, GenFacts, BoundedNothing
<1>4. hist' \in Seq(Token)
  <2>1. SubSeq(hist, 1, KeepOf(prompt)) \in Seq(Token)
    BY <1>2, GenFacts, KeepType, PrefixType
  <2> QED
    BY <1>1, <2>1, GenFacts
<1>5. hist_valid' \in BOOLEAN
  BY <1>1, GenFacts
<1>6. gen' \in GenType /\ gen'.pc = "check_prompt" /\ gen'.late = 0 /\ gen'.produced = <<>>
  BY GenerateStart
<1>7. IInv'
  BY <1>1, <1>3, <1>5, SingleCallIInv DEF CtxInv
<1>8. CtxTypeOK'
  BY <1>1, <1>3, <1>4, <1>6 DEF CtxInv, CtxTypeOK
<1>9. Apart'
  BY <1>1, <1>6, FreeIdle DEF CtxInv, Apart, SlotsUntouched, Busy, Idle, updateVars
<1>10. Heeded' /\ Shaped'
  BY <1>6 DEF Heeded, Shaped
<1> QED
  BY <1>7, <1>8, <1>9, <1>10 DEF CtxInv

\* CtxInv is kept by every step of a context.
LEMMA NextCtxInv == CtxInv /\ [CtxNext]_<<vars, ctxVars>> => CtxInv'
<1> SUFFICES ASSUME CtxInv, [CtxNext]_<<vars, ctxVars>> PROVE CtxInv'
  OBVIOUS
<1>1. CASE SlotsCall
  BY <1>1, SlotsCallInv
<1>2. CASE ContextReset
  BY <1>2, ResetInv
<1>3. CASE \E prompt \in GenPrompt, n \in GenPredict, c \in BOOLEAN : Generate(prompt, n, c)
  BY <1>3, GenerateInv
<1>4. CASE RaiseInterrupt
  BY <1>4, RaiseInv
<1>5. CASE GenerateStep
  BY <1>5, CheckPromptInv, DecodePromptInv, GenEosInv, GenTokenInv, CheckTokenInv,
     DecodeTokenInv DEF GenerateStep
<1>6. CASE \/ \E text \in EvalText : Eval(text)
           \/ \E text \in ScoreText : Score(text)
           \/ \E text \in EmbedText : Embed(text)
           \/ \E text \in SpecLeft : Speculative(text)
  BY <1>6, EvalInv, ScoreInv, EmbedInv, SpeculativeInv
<1>7. CASE \/ \E n \in 0 .. MaxChoices : ScoreChoices(n)
           \/ ScoreChoicesFails
  BY <1>7, ChoicesInv
<1>8. CASE ContextLoraSet
  BY <1>8, LoraInv
<1>9. CASE StateSave \/ (\E bare \in BOOLEAN : StateLoad(bare)) \/ StateRejected
  BY <1>9, StateInv
<1>10. CASE UNCHANGED <<vars, ctxVars>>
  <2>1. IInv'
    BY <1>10, NextIInv DEF CtxInv
  <2>2. UNCHANGED <<mem, phase, slots, hist_valid, system_seq, hist, interrupt, gen, saved>>
    BY <1>10 DEF vars, stateVars, updateVars, ctxVars
  <2> QED
    BY <2>1, <2>2 DEF CtxInv, CtxTypeOK, Apart, Heeded, Shaped, Busy, Idle
<1> QED
  BY <1>1, <1>2, <1>3, <1>4, <1>5, <1>6, <1>7, <1>8, <1>9, <1>10 DEF CtxNext, SingleCall

\* CtxInv holds throughout.
LEMMA CtxAlways == CtxSpec => []CtxInv
BY InitInv, NextCtxInv, PTL DEF CtxSpec

(* Once the host has raised the interrupt word, a generate begins no batch  *)
(* after the one that runs: whatever the prompt, the batch size and the     *)
(* moment, it is heard between two batches (llama_ctx_interrupt_addr).      *)
THEOREM InterruptsAreHeard == CtxSpec => []InterruptStops
<1>1. CtxInv => InterruptStops
  BY DEF CtxInv, Heeded, InterruptStops
<1> QED
  BY <1>1, CtxAlways, PTL

-----------------------------------------------------------------------------
(* The prompt history. *)

HistInv ==
    /\ hist_valid => Held(mem, 0) = Run(0, hist)
    /\ saved.valid => Held(saved.mem, 0) = Run(0, saved.hist)

\* The history is only left valid by calls of the slots that leave sequence 0.
LEMMA SlotsKeepHist ==
    ASSUME CtxInv, SlotsCall, hist_valid'
    PROVE  hist_valid /\ Held(mem', 0) = Held(mem, 0)
<1>1. /\ mem \subseteq Cell /\ WithoutSystem \subseteq Cell
      /\ system_seq # 0 /\ (phase # "host" \/ Busy # {} => ~hist_valid)
  BY WithoutSystemType, GenFacts DEF CtxInv, Apart, IInv
<1>2. CASE \/ \E prompt \in Prompt, n \in NPredict : Post(prompt, n)
           \/ \E i \in DOMAIN queue : CancelQueued(i)
  BY <1>2 DEF Post, CancelQueued
<1>3. CASE \E s \in SlotIds : CancelBusy(s)
  BY <1>1, <1>3 DEF CancelBusy
<1>4. CASE \/ \E toks \in SystemPrompt : SetSystem(toks)
           \/ UpdateBegin
  BY <1>4 DEF SetSystem, UpdateBegin
<1>5. CASE ClearSystem
  <2>1. Held(WithoutSystem, 0) = Held(mem, 0)
    BY <1>1, SeqRmOther DEF WithoutSystem
  <2>2. CASE mem' = WithoutSystem
    BY <1>5, <2>1, <2>2 DEF ClearSystem
  <2>3. CASE NSeqMax >= 2 /\ mem' = SeqRm(WithoutSystem, NSeqMax - 1, 0)
    <3>1. 0 # NSeqMax - 1
      BY <2>3, SizesAssumption
    <3> DEFINE last == NSeqMax - 1
    <3>2. Held(mem', 0) = Held(WithoutSystem, 0)
      <4>1. mem' = SeqRm(WithoutSystem, last, 0) /\ 0 # last
        BY <2>3, <3>1
      <4> HIDE DEF last
      <4> QED
        BY <1>1, <4>1, SeqRmOther
    <3> QED
      BY <1>5, <2>1, <3>2 DEF ClearSystem
  <2> QED
    BY <1>5, <2>2, <2>3 DEF ClearSystem
<1>6. CASE UpdateStep
  <2>1. phase # "host" /\ hist_valid' = hist_valid
    BY <1>6 DEF UpdateStep, LaunchHead, LaunchDone, TakeChunk, BatchReady, NothingToDecode,
       DecodeOk, DecodeFails, PassOver, NoBudget, SampleEos, SampleToken, SamplerThrows,
       UpdateDone, Sampling, stateVars
  <2> QED
    BY <1>1, <2>1
<1> QED
  BY <1>2, <1>3, <1>4, <1>5, <1>6 DEF SlotsCall

\* A decode appends the same text to cache and history.
LEMMA DecodesHist ==
    ASSUME CtxInv, HistInv, NEW toks \in Seq(Token),
           mem' = Appended(mem, toks), hist' = IF hist_valid THEN hist \o toks ELSE hist,
           hist_valid
    PROVE  Held(mem', 0) = Run(0, hist')
<1>1. Held(mem, 0) = Run(0, hist)
  BY DEF HistInv
<1>2. EndOf(mem) = Len(hist)
  BY <1>1, GenFacts, EndOfText
<1>3. Held(mem', 0) = Run(0, hist) \cup Run(Len(hist), toks)
  BY <1>1, <1>2, GenFacts, AppendedText
<1>4. Run(0, hist \o toks) = Run(0, hist) \cup Run(0 + Len(hist), toks)
  BY GenFacts, RunConcat
<1>5. 0 + Len(hist) = Len(hist)
  BY GenFacts, LenProperties
<1> QED
  BY <1>3, <1>4, <1>5

\* What generate keeps of the cache is the beginning of its prompt.
LEMMA KeptPrefix ==
    ASSUME CtxInv, HistInv, NEW prompt \in Seq(Token) \ {<<>>}
    PROVE  LET keep == KeepOf(prompt)
           IN  /\ SubSeq(hist, 1, keep) = SubSeq(prompt, 1, keep)
               /\ Held(Trimmed(keep), 0) = Run(0, SubSeq(prompt, 1, keep))
               /\ Trimmed(keep) \subseteq Cell
<1> DEFINE keep == KeepOf(prompt)
           p    == SubSeq(prompt, 1, keep)
           h    == SubSeq(hist, 1, keep)
<1>1. /\ keep \in 0 .. Len(hist) /\ keep < Len(prompt) /\ (keep > 0 => hist_valid)
      /\ \A i \in 1 .. keep : hist[i] = prompt[i]
      /\ Len(hist) \in Nat /\ Len(prompt) \in Nat
  BY GenFacts, KeepType, LenProperties
<1> HIDE DEF keep
<1>2. keep \in 0 .. Len(prompt) /\ keep \in Nat
  BY <1>1
<1>3. /\ p \in Seq(Token) /\ Len(p) = keep /\ DOMAIN p = 1 .. keep
      /\ \A i \in 1 .. keep : p[i] = prompt[i]
  BY <1>2, PrefixType
<1>4. /\ h \in Seq(Token) /\ Len(h) = keep /\ DOMAIN h = 1 .. keep
      /\ \A i \in 1 .. keep : h[i] = hist[i]
  BY <1>1, GenFacts, PrefixType
<1> HIDE DEF p, h
<1>5. h = p
  <2>1. \A i \in 1 .. keep : h[i] = p[i]
    BY <1>1, <1>3, <1>4
  <2> QED
    BY <1>3, <1>4, <2>1, SeqEqual
<1>6. CASE ~hist_valid
  <2>1. keep = 0 /\ Trimmed(keep) = {}
    BY <1>1, <1>2, <1>6 DEF Trimmed
  <2>2. Run(0, p) = {}
    BY <1>3, <2>1 DEF Run
  <2> QED
    BY <1>5, <2>1, <2>2, EmptyCache DEF p, h, keep, Held
<1>7. CASE hist_valid
  <2>1. Trimmed(keep) = SeqRm(mem, 0, keep) /\ Held(mem, 0) = Run(0, hist)
    BY <1>7 DEF Trimmed, HistInv
  <2>2. Held(Trimmed(keep), 0) = {q \in Run(0, hist) : ~(q[1] >= keep)}
    BY <2>1, GenFacts, SeqRmBelow
  <2>3. DOMAIN hist = 1 .. Len(hist)
    BY GenFacts, LenProperties
  <2>4. {q \in Run(0, hist) : ~(q[1] >= keep)} = Run(0, p)
    <3>1. ASSUME NEW i \in DOMAIN hist, ~(0 + i - 1 >= keep)
          PROVE  <<0 + i - 1, hist[i]>> \in Run(0, p)
      <4>1. i \in 1 .. keep
        BY <1>1, <2>3, <3>1
      <4>2. p[i] = hist[i] /\ i \in DOMAIN p
        BY <1>1, <1>3, <4>1
      <4> QED
        BY <4>2 DEF Run
    <3>2. ASSUME NEW i \in DOMAIN p
          PROVE  <<0 + i - 1, p[i]>> \in Run(0, hist) /\ ~(0 + i - 1 >= keep)
      <4>1. i \in 1 .. keep /\ i \in DOMAIN hist
        BY <1>1, <1>3, <2>3
      <4>2. p[i] = hist[i] /\ ~(0 + i - 1 >= keep)
        BY <1>1, <1>2, <1>3, <4>1
      <4> QED
        BY <4>1, <4>2 DEF Run
    <3>3. \A q \in Run(0, hist) : ~(q[1] >= keep) => q \in Run(0, p)
      BY <3>1 DEF Run
    <3>4. \A q \in Run(0, p) : q \in Run(0, hist) /\ ~(q[1] >= keep)
      BY <3>2 DEF Run
    <3> QED
      BY <3>3, <3>4
  <2>5. Trimmed(keep) \subseteq Cell
    BY <2>1, GenFacts, SeqRmType
  <2> QED
    BY <1>5, <2>2, <2>4, <2>5 DEF p, h, keep
<1> QED
  BY <1>6, <1>7

\* A blob that is not written goes on holding its history.
LEMMA SavedKept ==
    ASSUME HistInv, UNCHANGED saved
    PROVE  saved'.valid => Held(saved'.mem, 0) = Run(0, saved'.hist)
BY DEF HistInv

\* HistInv is kept by the start of a generate.
LEMMA GenerateHist ==
    ASSUME CtxInv, HistInv, NEW prompt \in GenPrompt, NEW n \in GenPredict,
           NEW cache_prompt \in BOOLEAN, Generate(prompt, n, cache_prompt)
    PROVE  HistInv'
<1> DEFINE keep == IF cache_prompt THEN KeepOf(prompt) ELSE 0
<1>1. /\ UNCHANGED saved
      /\ mem' = IF cache_prompt THEN Trimmed(keep) ELSE mem
      /\ hist' = IF cache_prompt THEN SubSeq(hist, 1, keep) ELSE hist
      /\ hist_valid' = (cache_prompt \/ hist_valid)
  BY Zenon DEF Generate
<1>2. prompt \in Seq(Token) \ {<<>>}
  BY ContextAssumption
<1>3. CASE cache_prompt
  <2>1. mem' = Trimmed(KeepOf(prompt)) /\ hist' = SubSeq(hist, 1, KeepOf(prompt))
    BY <1>1, <1>3
  <2>2. Held(mem', 0) = Run(0, hist')
    BY <1>2, <2>1, KeptPrefix
  <2> QED
    BY <1>1, <2>2 DEF HistInv
<1>4. CASE ~cache_prompt
  BY <1>1, <1>4 DEF HistInv
<1> QED
  BY <1>3, <1>4

\* HistInv is kept by every step of a generate.
LEMMA GenStepHist ==
    ASSUME CtxInv, HistInv, GenerateStep
    PROVE  HistInv'
<1>1. CASE CheckPrompt \/ GenEos \/ CheckToken
           \/ \E tok \in Sampled, stopped \in BOOLEAN : GenToken(tok, stopped)
  <2>1. UNCHANGED <<vars, hist, interrupt, saved>>
    BY <1>1, Zenon DEF CheckPrompt, GenEos, CheckToken, GenToken
  <2> QED
    BY <2>1 DEF HistInv, vars, stateVars
<1>2. ASSUME NEW toks \in Seq(Token), Decodes(toks) \/ DecodeRefused(toks),
             UNCHANGED <<hist_valid, saved>>
      PROVE  HistInv'
  <2>1. CASE Decodes(toks)
    BY <1>2, <2>1, DecodesHist DEF Decodes, HistInv
  <2>2. CASE DecodeRefused(toks)
    BY <1>2, <2>2 DEF DecodeRefused, HistInv
  <2> QED
    BY <1>2, <2>1, <2>2
<1>3. CASE DecodePrompt
  <2>1. Piece(gen.prompt, gen.off) \in Seq(Token)
    BY GenFacts, PieceType
  <2> QED
    BY <1>2, <1>3, <2>1 DEF DecodePrompt
<1>4. CASE DecodeToken
  <2>1. <<gen.produced[Len(gen.produced)]>> \in Seq(Token)
    BY <1>4, LastToken DEF DecodeToken, CtxInv, Shaped
  <2> QED
    BY <1>2, <1>4, <2>1 DEF DecodeToken
<1> QED
  BY <1>1, <1>3, <1>4 DEF GenerateStep

\* HistInv is kept by eval, complete or failed.
LEMMA EvalHist ==
    ASSUME CtxInv, HistInv, NEW text \in EvalText, Eval(text)
    PROVE  HistInv'
<1>1. text \in Seq(Token)
  BY ContextAssumption
<1>2. PICK k \in Decodable(mem, text) :
         /\ mem' = Appended(mem, SubSeq(text, 1, k))
         /\ hist' = IF hist_valid THEN hist \o SubSeq(text, 1, k) ELSE hist
  BY DEF Eval
<1>3. SubSeq(text, 1, k) \in Seq(Token)
  BY <1>1, <1>2, DecodableType
<1>4. UNCHANGED <<hist_valid, saved>>
  BY DEF Eval
<1>5. hist_valid => Held(mem', 0) = Run(0, hist')
  BY <1>2, <1>3, DecodesHist
<1>6. hist_valid' => Held(mem', 0) = Run(0, hist')
  BY <1>4, <1>5, Zenon
<1> QED
  BY <1>4, <1>6, SavedKept DEF HistInv

\* HistInv is kept by score_choices.
LEMMA ChoicesHist ==
    ASSUME CtxInv, HistInv, NEW n \in 0 .. MaxChoices, ScoreChoices(n)
    PROVE  HistInv'
<1> DEFINE spare == {s \in SeqIds : 1 <= s /\ s <= n}
<1>1. mem' = WithoutSequences(mem, spare) /\ UNCHANGED <<hist, hist_valid, saved>>
  BY DEF ScoreChoices
<1>2. 0 \notin spare
  OBVIOUS
<1> HIDE DEF spare
<1>3. Held(mem', 0) = Held(mem, 0)
  BY <1>1, <1>2, GenFacts, ChoicesCells
<1> QED
  BY <1>1, <1>3 DEF HistInv

\* HistInv is kept by state_save and state_load.
LEMMA StateHist ==
    ASSUME ~RejectClears, CtxInv, HistInv,
           StateSave \/ (\E bare \in BOOLEAN : StateLoad(bare)) \/ StateRejected
    PROVE  HistInv'
<1>1. CASE StateSave
  <2>1. /\ saved' = [mem |-> mem, hist |-> IF hist_valid THEN hist ELSE <<>>,
                     valid |-> hist_valid, there |-> TRUE]
        /\ UNCHANGED <<mem, hist, hist_valid>>
    BY <1>1 DEF StateSave, vars, stateVars
  <2>2. /\ saved'.mem = mem /\ saved'.valid = hist_valid
        /\ hist_valid => saved'.hist = hist
    BY <2>1
  <2> QED
    BY <2>1, <2>2 DEF HistInv
<1>2. CASE \E bare \in BOOLEAN : StateLoad(bare)
  <2>1. PICK bare \in BOOLEAN : StateLoad(bare)
    BY <1>2
  <2>2. /\ mem' = saved.mem /\ hist' = IF bare THEN <<>> ELSE saved.hist
        /\ hist_valid' = (saved.valid /\ ~bare) /\ UNCHANGED saved
    BY <2>1, Zenon DEF StateLoad
  <2> QED
    BY <2>2 DEF HistInv
<1>3. CASE StateRejected
  BY <1>3 DEF StateRejected, HistInv
<1> QED
  BY <1>1, <1>2, <1>3

\* HistInv is kept by every step of a context.
LEMMA NextHist == ~RejectClears /\ CtxInv /\ HistInv /\ [CtxNext]_<<vars, ctxVars>> => HistInv'
<1> SUFFICES ASSUME ~RejectClears, CtxInv, HistInv, [CtxNext]_<<vars, ctxVars>> PROVE HistInv'
  OBVIOUS
<1>1. CASE SlotsCall
  <2>1. UNCHANGED <<hist, saved>>
    BY <1>1 DEF SlotsCall, ctxVars
  <2> QED
    BY <1>1, <2>1, SlotsKeepHist DEF HistInv
<1>2. CASE ContextReset
  <2>1. mem' = {} /\ hist' = <<>> /\ UNCHANGED saved
    BY <1>2 DEF ContextReset, Reset
  <2> QED
    BY <2>1, EmptyCache DEF HistInv
<1>3. CASE \E prompt \in GenPrompt, n \in GenPredict, c \in BOOLEAN : Generate(prompt, n, c)
  BY <1>3, GenerateHist
<1>4. CASE RaiseInterrupt
  BY <1>4 DEF RaiseInterrupt, HistInv, vars, stateVars
<1>5. CASE GenerateStep
  BY <1>5, GenStepHist
<1>6. CASE \E text \in EvalText : Eval(text)
  BY <1>6, EvalHist
<1>7. CASE \/ \E text \in ScoreText : Score(text)
           \/ \E text \in EmbedText : Embed(text)
           \/ \E text \in SpecLeft : Speculative(text)
           \/ ScoreChoicesFails
           \/ ContextLoraSet
  <2>1. hist_valid' = FALSE /\ UNCHANGED saved
    BY <1>7 DEF Score, Embed, Speculative, ScoreChoicesFails, ContextLoraSet, LoraSet, Forget
  <2> QED
    BY <2>1 DEF HistInv
<1>8. CASE \E n \in 0 .. MaxChoices : ScoreChoices(n)
  BY <1>8, ChoicesHist
<1>9. CASE StateSave \/ (\E bare \in BOOLEAN : StateLoad(bare)) \/ StateRejected
  BY <1>9, StateHist
<1>10. CASE UNCHANGED <<vars, ctxVars>>
  BY <1>10 DEF HistInv, vars, stateVars, ctxVars
<1> QED
  BY <1>1, <1>2, <1>3, <1>4, <1>5, <1>6, <1>7, <1>8, <1>9, <1>10 DEF CtxNext, SingleCall

\* HistInv holds of a new context.
LEMMA InitHist == CtxInit => HistInv
BY EmptyCache DEF CtxInit, Init, NoBlob, HistInv

\* HistInv holds throughout.
LEMMA HistAlways == ASSUME ~RejectClears PROVE CtxSpec => [](CtxInv /\ HistInv)
<1>1. CtxInv /\ HistInv /\ [CtxNext]_<<vars, ctxVars>> => (CtxInv /\ HistInv)'
  BY NextCtxInv, NextHist
<1>2. CtxInit => CtxInv /\ HistInv
  BY InitInv, InitHist
<1> QED
  BY <1>1, <1>2, PTL DEF CtxSpec

(* A valid prompt history is what sequence 0 holds, token for token and at  *)
(* every moment a call can start, whatever calls came before it, unless the *)
(* engine empties a cache it then fails to load (llama_state_set_data).     *)
THEOREM HistoryIsTheCache == ASSUME ~RejectClears PROVE CtxSpec => []HistMirrors
<1>1. CtxInv /\ HistInv => HistMirrors
  BY GenFacts, PlacedIsRun DEF HistInv, HistMirrors
<1> QED
  BY <1>1, HistAlways, PTL

-----------------------------------------------------------------------------
(* What generate samples after. *)

\* How much of its prompt a generate has decoded.
Done == IF gen.off <= Len(gen.prompt) THEN gen.off ELSE Len(gen.prompt)

\* The text of a generate that is in the cache, its last token left out while
\* it waits for its batch.
Decoded ==
    IF InPrompt THEN SubSeq(gen.prompt, 1, Done)
    ELSE IF gen.pc = "sample" THEN gen.prompt \o gen.produced
    ELSE gen.prompt \o SubSeq(gen.produced, 1, Len(gen.produced) - 1)

GenHolds ==
    InPrompt \/ Writing =>
        /\ Held(mem, 0) = gen.base \cup Run(gen.from, Decoded)
        /\ EndOf(mem) = gen.from + Len(Decoded)

\* How much of the prompt is decoded.
LEMMA DoneType ==
    ASSUME CtxInv
    PROVE  Done \in 0 .. Len(gen.prompt) /\ Done \in Nat /\ Len(gen.prompt) \in Nat
<1>1. Len(gen.prompt) \in Nat /\ gen.off \in Nat
  BY GenFacts, LenProperties
<1> QED
  BY <1>1 DEF Done

\* A text is all but its last token, and the last.
LEMMA FrontType ==
    ASSUME NEW q \in Seq(Token), q # <<>>
    PROVE  /\ SubSeq(q, 1, Len(q) - 1) \in Seq(Token)
           /\ SubSeq(q, 1, Len(q) - 1) \o <<q[Len(q)]>> = q
<1> DEFINE n == Len(q)
           f == SubSeq(q, 1, n - 1)
           x == <<q[n]>>
           r == f \o x
<1>1. n \in Nat /\ n > 0 /\ DOMAIN q = 1 .. n
  BY LenProperties
<1>2. n - 1 \in 0 .. n
  BY <1>1
<1>3. f \in Seq(Token) /\ Len(f) = n - 1 /\ \A i \in 1 .. n - 1 : f[i] = q[i]
  <2> DEFINE k == n - 1
  <2>1. k \in 0 .. Len(q)
    BY <1>2
  <2> HIDE DEF k
  <2>2. /\ SubSeq(q, 1, k) \in Seq(Token) /\ Len(SubSeq(q, 1, k)) = k
        /\ \A i \in 1 .. k : SubSeq(q, 1, k)[i] = q[i]
    BY <2>1, PrefixType
  <2> QED
    BY <2>2 DEF k
<1>4. x \in Seq(Token) /\ Len(x) = 1 /\ x[1] = q[n]
  BY <1>1, ElementOfSeq
<1> HIDE DEF f, x
<1>5. r \in Seq(Token) /\ Len(r) = n
      /\ \A i \in 1 .. n : r[i] = IF i <= n - 1 THEN f[i] ELSE x[i - (n - 1)]
  <2>1. /\ r \in Seq(Token) /\ Len(r) = Len(f) + Len(x)
        /\ \A i \in 1 .. Len(f) + Len(x) : r[i] = IF i <= Len(f) THEN f[i] ELSE x[i - Len(f)]
    BY <1>3, <1>4, ConcatProperties
  <2>2. Len(f) + Len(x) = n
    <3> HIDE DEF n
    <3> QED
      BY <1>1, <1>3, <1>4
  <2> QED
    BY <1>3, <2>1, <2>2
<1>6. \A i \in 1 .. n : r[i] = q[i]
  <2> TAKE i \in 1 .. n
  <2> HIDE DEF n, r
  <2>1. CASE i <= n - 1
    BY <1>1, <1>3, <1>5, <2>1
  <2>2. CASE ~(i <= n - 1)
    <3>1. i = n /\ i - (n - 1) = 1
      BY <1>1, <2>2
    <3> QED
      BY <1>4, <1>5, <2>2, <3>1
  <2> QED
    BY <2>1, <2>2
<1>7. r = q
  <2> HIDE DEF r
  <2> QED
    BY <1>5, <1>6, SeqEqual
<1> QED
  BY <1>3, <1>7 DEF f, x

\* What a generate has decoded so far is a text.
LEMMA DecodedType ==
    ASSUME CtxInv, InPrompt \/ Writing
    PROVE  Decoded \in Seq(Token) /\ Len(Decoded) \in Nat
<1>1. gen.prompt \in Seq(Token) /\ gen.produced \in Seq(Token)
  BY GenFacts
<1>2. Decoded \in Seq(Token)
  <2>1. CASE InPrompt
    <3>1. SubSeq(gen.prompt, 1, Done) \in Seq(Token)
      BY <1>1, DoneType, PrefixType
    <3> QED
      BY <2>1, <3>1 DEF Decoded
  <2>2. CASE ~InPrompt /\ gen.pc = "sample"
    <3>1. gen.prompt \o gen.produced \in Seq(Token)
      BY <1>1, ConcatProperties
    <3> QED
      BY <2>2, <3>1 DEF Decoded
  <2>3. CASE ~InPrompt /\ gen.pc # "sample"
    <3>1. gen.produced # <<>>
      BY <2>3 DEF CtxInv, Shaped, Writing
    <3>2. SubSeq(gen.produced, 1, Len(gen.produced) - 1) \in Seq(Token)
      BY <1>1, <3>1, FrontType
    <3>3. gen.prompt \o SubSeq(gen.produced, 1, Len(gen.produced) - 1) \in Seq(Token)
      BY <1>1, <3>2, ConcatProperties
    <3> QED
      BY <2>3, <3>3 DEF Decoded
  <2> QED
    BY <2>1, <2>2, <2>3
<1> QED
  BY <1>2, LenProperties

(* A batch of a generate that goes on from where its text ends.             *)
LEMMA DecodesText ==
    ASSUME NEW m, m \subseteq Cell, Bounded(m), NEW toks \in Seq(Token),
           NEW text \in Seq(Token), NEW from \in Nat, NEW base,
           Held(m, 0) = base \cup Run(from, text), EndOf(m) = from + Len(text)
    PROVE  /\ Held(Appended(m, toks), 0) = base \cup Run(from, text \o toks)
           /\ EndOf(Appended(m, toks)) = from + Len(text \o toks)
<1>1. /\ Held(Appended(m, toks), 0) = Held(m, 0) \cup Run(EndOf(m), toks)
      /\ EndOf(Appended(m, toks)) = EndOf(m) + Len(toks)
  BY AppendedText
<1>2. Run(from, text \o toks) = Run(from, text) \cup Run(from + Len(text), toks)
  BY RunConcat
<1>3. Len(text \o toks) = Len(text) + Len(toks) /\ Len(text) \in Nat /\ Len(toks) \in Nat
  BY ConcatProperties, LenProperties
<1>4. (from + Len(text)) + Len(toks) = from + (Len(text) + Len(toks))
  BY <1>3
<1> QED
  BY <1>1, <1>2, <1>3, <1>4

(* A piece of a text goes on from the prefix before it.                     *)
LEMMA PieceJoins ==
    ASSUME NEW text \in Seq(Token), NEW off \in Nat, off < Len(text)
    PROVE  LET next == off + NBatch
               k    == IF next <= Len(text) THEN next ELSE Len(text)
           IN  SubSeq(text, 1, k) = SubSeq(text, 1, off) \o Piece(text, off)
<1> DEFINE l == Len(text)
           k == IF off + NBatch <= l THEN off + NBatch ELSE l
           n == k - off
           p == SubSeq(text, 1, off)
           q == SubSeq(text, off + 1, off + n)
           w == SubSeq(text, 1, k)
           r == p \o q
<1>1. l \in Nat /\ NBatch \in Nat
  BY LenProperties, SlotsAssumption
<1>2. /\ off \in 0 .. l /\ k \in 0 .. l /\ n \in Nat /\ off + n = k /\ off <= l /\ k \in Nat
      /\ off + n <= l
  <2> HIDE DEF l
  <2> QED
    BY <1>1 DEF l
<1>3. Piece(text, off) = q
  BY <1>2, PieceType
<1> HIDE DEF k, n
<1>4. p \in Seq(Token) /\ Len(p) = off /\ \A i \in 1 .. off : p[i] = text[i]
  BY <1>2, PrefixType
<1>5. q \in Seq(Token) /\ Len(q) = n /\ \A i \in 1 .. n : q[i] = text[off + i]
  BY <1>2, SubSeqAt
<1>6. w \in Seq(Token) /\ Len(w) = k /\ \A i \in 1 .. k : w[i] = text[i]
  BY <1>2, PrefixType
<1> HIDE DEF p, q, w
<1>7. /\ r \in Seq(Token) /\ Len(r) = off + n
      /\ \A i \in 1 .. off + n : r[i] = IF i <= off THEN p[i] ELSE q[i - off]
  <2>1. p \in Seq(Token) /\ q \in Seq(Token)
    BY <1>4, <1>5
  <2>2. /\ r \in Seq(Token) /\ Len(r) = Len(p) + Len(q)
        /\ \A i \in 1 .. Len(p) + Len(q) : r[i] = IF i <= Len(p) THEN p[i] ELSE q[i - Len(p)]
    BY <2>1, ConcatProperties
  <2> QED
    BY <1>4, <1>5, <2>2
<1> HIDE DEF r
<1>8. \A i \in 1 .. k : r[i] = w[i]
  <2> TAKE i \in 1 .. k
  <2>1. CASE i <= off
    <3>1. i \in 1 .. off /\ i \in 1 .. off + n
      BY <1>2, <2>1
    <3>2. r[i] = p[i] /\ p[i] = text[i]
      BY <1>4, <1>7, <2>1, <3>1
    <3> QED
      BY <1>6, <3>2
  <2>2. CASE ~(i <= off)
    <3>1. i - off \in 1 .. n /\ off + (i - off) = i
      BY <1>2, <2>2
    <3> QED
      BY <1>2, <1>5, <1>6, <1>7, <2>2, <3>1
  <2> QED
    BY <2>1, <2>2
<1>9. r = w
  BY <1>2, <1>6, <1>7, <1>8, SeqEqual
<1> QED
  BY <1>3, <1>9 DEF r, w, k, p, l

\* A step of a generate that changes neither the cache nor its decoded text.
LEMMA HoldsKept ==
    ASSUME GenHolds, InPrompt \/ Writing, mem' = mem, gen'.from = gen.from, gen'.base = gen.base,
           Decoded' = Decoded
    PROVE  GenHolds'
BY DEF GenHolds

\* Nothing is asked of a context that generates nothing.
LEMMA HoldsIdle ==
    ASSUME gen'.pc \in {"none", "trapped"}
    PROVE  GenHolds'
BY DEF GenHolds, InPrompt, Writing

\* GenHolds is kept by the return of a generate.
LEMMA ReturnsHolds ==
    ASSUME Returns
    PROVE  GenHolds'
BY NoGenType, HoldsIdle DEF Returns

\* GenHolds is kept by the start of a generate.
LEMMA GenerateHolds ==
    ASSUME CtxInv, HistInv, NEW prompt \in GenPrompt, NEW n \in GenPredict,
           NEW cache_prompt \in BOOLEAN, Generate(prompt, n, cache_prompt)
    PROVE  GenHolds'
<1> DEFINE keep == IF cache_prompt THEN KeepOf(prompt) ELSE 0
<1>1. /\ gen'.pc = "check_prompt" /\ gen'.prompt = prompt /\ gen'.off = keep
      /\ gen'.from = IF cache_prompt THEN 0 ELSE EndOf(mem)
      /\ gen'.base = IF cache_prompt THEN {} ELSE Held(mem, 0)
  BY GenerateStart
<1>2. mem' = IF cache_prompt THEN Trimmed(keep) ELSE mem
  BY Zenon DEF Generate
<1>3. prompt \in Seq(Token) \ {<<>>} /\ prompt \in Seq(Token)
  BY ContextAssumption
<1>4. keep \in 0 .. Len(prompt) /\ keep <= Len(prompt)
  <2>1. Len(prompt) \in Nat
    BY <1>3, LenProperties
  <2>2. KeepOf(prompt) \in 0 .. Len(hist) /\ KeepOf(prompt) < Len(prompt) /\ Len(hist) \in Nat
    BY <1>3, GenFacts, KeepType, LenProperties
  <2> QED
    BY <2>1, <2>2
<1>5. InPrompt' /\ Decoded' = SubSeq(prompt, 1, keep)
  <2>1. Done' = keep
    BY <1>1, <1>4 DEF Done
  <2> QED
    BY <1>1, <2>1 DEF Decoded, InPrompt
<1>6. SubSeq(prompt, 1, keep) \in Seq(Token) /\ Len(SubSeq(prompt, 1, keep)) = keep
  BY <1>3, <1>4, PrefixType
<1>7. CASE cache_prompt
  <2>1. keep = KeepOf(prompt) /\ mem' = Trimmed(KeepOf(prompt))
    BY <1>2, <1>7
  <2>2. Held(mem', 0) = Run(0, SubSeq(prompt, 1, keep)) /\ mem' \subseteq Cell
    BY <1>3, <2>1, KeptPrefix
  <2>3. EndOf(mem') = keep
    BY <1>6, <2>2, EndOfText
  <2>4. keep \in Int /\ 0 + keep = keep
    BY <1>4
  <2>5. gen'.from = 0 /\ gen'.base = {}
    BY <1>1, <1>7
  <2> HIDE DEF keep
  <2> QED
    BY <1>5, <1>6, <2>2, <2>3, <2>4, <2>5 DEF GenHolds
<1>8. CASE ~cache_prompt
  <2>1. keep = 0 /\ mem' = mem /\ gen'.from = EndOf(mem) /\ gen'.base = Held(mem, 0)
    BY <1>1, <1>2, <1>8
  <2>2. EndOf(mem) \in Nat
    BY GenFacts, EndOfType
  <2>3. DOMAIN SubSeq(prompt, 1, keep) = {}
    BY <1>3, <1>4, <2>1, PrefixType
  <2>4. Run(EndOf(mem), SubSeq(prompt, 1, keep)) = {}
    BY <2>3 DEF Run
  <2> HIDE DEF keep
  <2> QED
    BY <1>5, <1>6, <2>1, <2>2, <2>4 DEF GenHolds
<1> QED
  BY <1>7, <1>8

\* GenHolds is kept by the look at the interrupt word before a batch.
LEMMA CheckPromptHolds ==
    ASSUME CtxInv, GenHolds, CheckPrompt
    PROVE  GenHolds'
<1>1. gen.pc = "check_prompt" /\ mem' = mem /\ gen.produced = <<>>
  BY DEF CheckPrompt, vars, stateVars, CtxInv, Shaped
<1>2. InPrompt
  BY <1>1 DEF InPrompt
<1>3. CASE Returns
  BY <1>3, ReturnsHolds
<1>4. CASE gen' = [gen EXCEPT !.pc = "decode_prompt"]
  <2>1. /\ gen'.pc = "decode_prompt" /\ gen'.prompt = gen.prompt /\ gen'.off = gen.off
        /\ gen'.produced = gen.produced /\ gen'.from = gen.from /\ gen'.base = gen.base
    BY <1>4, GenFacts DEF GenType
  <2>2. Decoded' = Decoded
    BY <1>1, <2>1 DEF Decoded, InPrompt, Done
  <2> QED
    BY <1>1, <1>2, <2>1, <2>2, HoldsKept
<1>5. CASE gen.off >= Len(gen.prompt) /\ gen' = [gen EXCEPT !.pc = "sample"]
  <2>1. /\ gen'.pc = "sample" /\ gen'.prompt = gen.prompt
        /\ gen'.produced = gen.produced /\ gen'.from = gen.from /\ gen'.base = gen.base
    BY <1>5, GenFacts DEF GenType
  <2>2. Done = Len(gen.prompt)
    BY <1>5, GenFacts, LenProperties DEF Done
  <2>3. SubSeq(gen.prompt, 1, Len(gen.prompt)) = gen.prompt
    <3>1. Len(gen.prompt) \in 0 .. Len(gen.prompt)
      BY GenFacts, LenProperties
    <3> DEFINE w == SubSeq(gen.prompt, 1, Len(gen.prompt))
    <3>2. /\ w \in Seq(Token) /\ Len(w) = Len(gen.prompt)
          /\ \A i \in 1 .. Len(gen.prompt) : w[i] = gen.prompt[i]
      BY <3>1, GenFacts, PrefixType
    <3> HIDE DEF w
    <3>3. w = gen.prompt
      BY <3>2, GenFacts, SeqEqual
    <3> QED
      BY <3>3 DEF w
  <2>4. Decoded = gen.prompt
    BY <1>2, <2>2, <2>3 DEF Decoded
  <2>5. Decoded' = gen.prompt \o <<>>
    BY <1>1, <2>1 DEF Decoded, InPrompt
  <2>6. gen.prompt \o <<>> = gen.prompt
    BY GenFacts, ConcatEmptySeq
  <2> QED
    BY <1>1, <1>2, <2>1, <2>4, <2>5, <2>6, HoldsKept
<1> QED
  BY <1>3, <1>4, <1>5 DEF CheckPrompt

\* GenHolds is kept by a batch of the prompt.
LEMMA DecodePromptHolds ==
    ASSUME CtxInv, GenHolds, DecodePrompt
    PROVE  GenHolds'
<1> DEFINE toks == Piece(gen.prompt, gen.off)
<1>1. gen.pc = "decode_prompt" /\ gen.off < Len(gen.prompt)
  BY DEF DecodePrompt, CtxInv, Shaped
<1>2. InPrompt /\ toks \in Seq(Token)
  BY <1>1, GenFacts, PieceType DEF InPrompt
<1>3. Len(gen.prompt) \in Nat /\ gen.off \in Nat /\ NBatch \in Nat
  BY GenFacts, LenProperties, SlotsAssumption
<1>4. CASE Decodes(toks) /\ gen' = [gen EXCEPT !.pc = "check_prompt", !.off = @ + NBatch, !.late = Late]
  <2>1. /\ gen'.pc = "check_prompt" /\ gen'.prompt = gen.prompt /\ gen'.off = gen.off + NBatch
        /\ gen'.from = gen.from /\ gen'.base = gen.base
    BY <1>4, GenFacts DEF GenType
  <2>2. Decoded = SubSeq(gen.prompt, 1, gen.off)
    <3>1. Done = gen.off
      BY <1>1, <1>3 DEF Done
    <3> QED
      BY <1>2, <3>1 DEF Decoded
  <2>3. Decoded' = Decoded \o toks
    <3> DEFINE k == IF gen.off + NBatch <= Len(gen.prompt) THEN gen.off + NBatch ELSE Len(gen.prompt)
    <3>1. Done' = k
      BY <2>1 DEF Done
    <3>2. Decoded' = SubSeq(gen.prompt, 1, k)
      BY <2>1, <3>1 DEF Decoded, InPrompt
    <3>3. SubSeq(gen.prompt, 1, k) = SubSeq(gen.prompt, 1, gen.off) \o toks
      BY <1>1, <1>3, GenFacts, PieceJoins
    <3> QED
      BY <2>2, <3>2, <3>3
  <2>4. mem' = Appended(mem, toks)
    BY <1>4 DEF Decodes
  <2>5. Held(mem, 0) = gen.base \cup Run(gen.from, Decoded) /\ EndOf(mem) = gen.from + Len(Decoded)
    BY <1>2 DEF GenHolds
  <2>6. /\ Held(mem', 0) = gen.base \cup Run(gen.from, Decoded \o toks)
        /\ EndOf(mem') = gen.from + Len(Decoded \o toks)
    <3> DEFINE d == Decoded
    <3>1. d \in Seq(Token) /\ mem \subseteq Cell /\ Bounded(mem) /\ gen.from \in Nat
      BY <1>2, GenFacts, DecodedType
    <3>2. Held(mem, 0) = gen.base \cup Run(gen.from, d) /\ EndOf(mem) = gen.from + Len(d)
      BY <2>5
    <3> HIDE DEF toks, d
    <3>3. /\ Held(Appended(mem, toks), 0) = gen.base \cup Run(gen.from, d \o toks)
          /\ EndOf(Appended(mem, toks)) = gen.from + Len(d \o toks)
      BY <1>2, <3>1, <3>2, DecodesText
    <3> QED
      BY <2>4, <3>3, Zenon DEF d
  <2> QED
    BY <2>1, <2>3, <2>6 DEF GenHolds
<1>5. CASE DecodeRefused(toks)
  BY <1>5, ReturnsHolds DEF DecodeRefused
<1> QED
  BY <1>4, <1>5 DEF DecodePrompt

\* GenHolds is kept by a sampled token.
LEMMA GenTokenHolds ==
    ASSUME CtxInv, GenHolds, NEW tok \in Sampled, NEW stopped \in BOOLEAN, GenToken(tok, stopped)
    PROVE  GenHolds'
<1>1. gen.pc = "sample" /\ mem' = mem /\ Writing
  BY DEF GenToken, vars, stateVars, Writing
<1>2. CASE Returns
  BY <1>2, ReturnsHolds
<1>3. CASE gen' = [gen EXCEPT !.pc = "check", !.produced = Append(@, tok)]
  <2>1. /\ gen'.pc = "check" /\ gen'.prompt = gen.prompt
        /\ gen'.produced = Append(gen.produced, tok)
        /\ gen'.from = gen.from /\ gen'.base = gen.base
    BY <1>3, GenFacts DEF GenType
  <2> DEFINE q == gen.produced
             r == Append(q, tok)
             w == SubSeq(r, 1, Len(r) - 1)
  <2>2. /\ q \in Seq(Token) /\ r \in Seq(Token) /\ Len(r) = Len(q) + 1
        /\ \A i \in 1 .. Len(q) : r[i] = q[i]
    BY GenFacts, SlotsAssumption, AppendProperties
  <2>3. Len(q) \in Nat /\ Len(r) - 1 = Len(q) /\ Len(q) \in 0 .. Len(r)
    BY <2>2, LenProperties
  <2>4. SubSeq(r, 1, Len(q)) = q
    <3> DEFINE v == SubSeq(r, 1, Len(q))
    <3> HIDE DEF q, r
    <3>1. v \in Seq(Token) /\ Len(v) = Len(q) /\ \A i \in 1 .. Len(q) : v[i] = r[i]
      BY <2>2, <2>3, PrefixType
    <3> HIDE DEF v
    <3>2. v = q
      BY <2>2, <3>1, SeqEqual
    <3> QED
      BY <3>2 DEF v
  <2>5. Decoded' = gen.prompt \o SubSeq(r, 1, Len(r) - 1)
    BY <2>1 DEF Decoded, InPrompt
  <2>6. Decoded = gen.prompt \o q
    BY <1>1 DEF Decoded, InPrompt
  <2>7. Decoded' = Decoded
    <3> HIDE DEF q, r
    <3> QED
      BY <2>3, <2>4, <2>5, <2>6
  <2> QED
    BY <1>1, <2>1, <2>7, HoldsKept
<1> QED
  BY <1>2, <1>3 DEF GenToken

\* GenHolds is kept by the look at the interrupt word before a token's decode.
LEMMA CheckTokenHolds ==
    ASSUME CtxInv, GenHolds, CheckToken
    PROVE  GenHolds'
<1>1. gen.pc = "check" /\ mem' = mem /\ Writing
  BY DEF CheckToken, vars, stateVars, Writing
<1>2. CASE Returns
  BY <1>2, ReturnsHolds
<1>3. CASE gen' = [gen EXCEPT !.pc = "decode"]
  <2>1. /\ gen'.pc = "decode" /\ gen'.prompt = gen.prompt /\ gen'.produced = gen.produced
        /\ gen'.from = gen.from /\ gen'.base = gen.base
    BY <1>3, GenFacts DEF GenType
  <2>2. Decoded' = Decoded
    BY <1>1, <2>1 DEF Decoded, InPrompt
  <2> QED
    BY <1>1, <2>1, <2>2, HoldsKept
<1> QED
  BY <1>2, <1>3 DEF CheckToken

\* Appending is associative.
LEMMA SpliceLast ==
    ASSUME NEW s \in Seq(Token), NEW t \in Seq(Token), NEW u \in Seq(Token)
    PROVE  (s \o t) \o u = s \o (t \o u)
BY ConcatAssociative

\* GenHolds is kept by the decode of a token.
LEMMA DecodeTokenHolds ==
    ASSUME CtxInv, GenHolds, DecodeToken
    PROVE  GenHolds'
<1> DEFINE q    == gen.produced
           toks == <<q[Len(q)]>>
           f    == SubSeq(q, 1, Len(q) - 1)
<1>1. gen.pc = "decode" /\ q # <<>> /\ q \in Seq(Token) /\ gen.prompt \in Seq(Token)
  BY GenFacts DEF DecodeToken, CtxInv, Shaped
<1>2. Writing /\ ~InPrompt
  BY <1>1 DEF InPrompt, Writing
<1>3. toks \in Seq(Token)
  BY <1>1, LastToken
<1>4. f \in Seq(Token) /\ f \o toks = q
  BY <1>1, FrontType
<1>5. CASE Decodes(toks) /\ gen' = [gen EXCEPT !.pc = "sample", !.late = Late]
  <2>1. /\ gen'.pc = "sample" /\ gen'.prompt = gen.prompt /\ gen'.produced = q
        /\ gen'.from = gen.from /\ gen'.base = gen.base
    BY <1>5, GenFacts DEF GenType
  <2>2. Decoded = gen.prompt \o f
    BY <1>1, <1>2 DEF Decoded
  <2>3. Decoded' = gen.prompt \o q
    BY <2>1 DEF Decoded, InPrompt
  <2>4. gen.prompt \o q = (gen.prompt \o f) \o toks
    <3> DEFINE p == gen.prompt
    <3>0. p \in Seq(Token) /\ f \in Seq(Token) /\ toks \in Seq(Token)
      BY <1>1, <1>3, <1>4
    <3> HIDE DEF p, q, f, toks
    <3>a. (p \o f) \o toks = p \o (f \o toks)
      BY <3>0, SpliceLast, Zenon
    <3>1. (gen.prompt \o f) \o toks = gen.prompt \o (f \o toks)
      BY <3>a, Zenon DEF p
    <3> QED
      BY <1>4, <3>1
  <2>5. mem' = Appended(mem, toks)
    BY <1>5 DEF Decodes
  <2>6. Held(mem, 0) = gen.base \cup Run(gen.from, Decoded) /\ EndOf(mem) = gen.from + Len(Decoded)
    BY <1>2 DEF GenHolds
  <2>7. /\ Held(mem', 0) = gen.base \cup Run(gen.from, Decoded \o toks)
        /\ EndOf(mem') = gen.from + Len(Decoded \o toks)
    <3> DEFINE d == Decoded
    <3>1. d \in Seq(Token) /\ mem \subseteq Cell /\ Bounded(mem) /\ gen.from \in Nat
      BY <1>2, GenFacts, DecodedType
    <3>2. Held(mem, 0) = gen.base \cup Run(gen.from, d) /\ EndOf(mem) = gen.from + Len(d)
      BY <2>6
    <3> HIDE DEF toks, d
    <3>3. /\ Held(Appended(mem, toks), 0) = gen.base \cup Run(gen.from, d \o toks)
          /\ EndOf(Appended(mem, toks)) = gen.from + Len(d \o toks)
      BY <1>3, <3>1, <3>2, DecodesText
    <3> QED
      BY <2>5, <3>3, Zenon DEF d
  <2>8. Decoded' = Decoded \o toks
    BY <2>2, <2>3, <2>4
  <2> QED
    BY <2>1, <2>7, <2>8 DEF GenHolds
<1>6. CASE DecodeRefused(toks)
  BY <1>6, ReturnsHolds DEF DecodeRefused
<1> QED
  BY <1>5, <1>6 DEF DecodeToken

\* GenHolds is kept by every step of a context.
LEMMA NextHolds ==
    CtxInv /\ HistInv /\ GenHolds /\ [CtxNext]_<<vars, ctxVars>> => GenHolds'
<1> SUFFICES ASSUME CtxInv, HistInv, GenHolds, [CtxNext]_<<vars, ctxVars>> PROVE GenHolds'
  OBVIOUS
<1>1. ASSUME gen.pc = "none", gen' = gen
      PROVE  GenHolds'
  BY <1>1, HoldsIdle
<1>2. CASE SlotsCall \/ ContextReset \/ ContextLoraSet
  BY <1>1, <1>2 DEF SlotsCall, ContextReset, ContextLoraSet, ctxVars
<1>3. CASE \E prompt \in GenPrompt, n \in GenPredict, c \in BOOLEAN : Generate(prompt, n, c)
  BY <1>3, GenerateHolds
<1>4. CASE RaiseInterrupt \/ UNCHANGED <<vars, ctxVars>>
  <2>1. gen' = gen /\ mem' = mem
    BY <1>4 DEF RaiseInterrupt, vars, stateVars, ctxVars
  <2> QED
    BY <2>1 DEF GenHolds, InPrompt, Writing, Decoded, Done
<1>5. CASE GenEos
  BY <1>5, ReturnsHolds DEF GenEos
<1>6. CASE GenerateStep
  BY <1>5, <1>6, CheckPromptHolds, DecodePromptHolds, GenTokenHolds, CheckTokenHolds,
     DecodeTokenHolds DEF GenerateStep
<1>7. CASE \E text \in EmbedText : Embed(text)
  <2>1. gen.pc = "none" /\ (gen' = gen \/ gen' = [gen EXCEPT !.pc = "trapped"])
    BY <1>7, FreeIdle DEF Embed
  <2>2. gen'.pc \in {"none", "trapped"}
    BY <2>1, GenFacts DEF GenType
  <2> QED
    BY <2>2, HoldsIdle
<1>8. CASE \/ \E text \in EvalText : Eval(text)
           \/ \E text \in ScoreText : Score(text)
           \/ \E text \in SpecLeft : Speculative(text)
           \/ \E n \in 0 .. MaxChoices : ScoreChoices(n)
           \/ ScoreChoicesFails
           \/ StateSave
           \/ \E bare \in BOOLEAN : StateLoad(bare)
           \/ StateRejected
  BY <1>1, <1>8, FreeIdle DEF Eval, Score, Speculative, ScoreChoices, ScoreChoicesFails, StateSave,
     StateLoad, StateRejected
<1> QED
  BY <1>2, <1>3, <1>4, <1>6, <1>7, <1>8 DEF CtxNext, SingleCall

(* Each token generate draws is drawn after its whole prompt and all it     *)
(* produced, each token once and at its position, whatever prefix came      *)
(* from the cache and in however many batches the rest was decoded.         *)
THEOREM SamplesItsOwnText == ASSUME ~RejectClears PROVE CtxSpec => []SampledFromItsPrompt
<1>1. CtxInit => CtxInv /\ HistInv /\ GenHolds
  <2>1. CtxInit => GenHolds
    BY NoGenType DEF CtxInit, GenHolds, InPrompt, Writing
  <2> QED
    BY <2>1, InitInv, InitHist
<1>2. CtxInv /\ HistInv /\ GenHolds /\ [CtxNext]_<<vars, ctxVars>> => (CtxInv /\ HistInv /\ GenHolds)'
  BY NextCtxInv, NextHist, NextHolds
<1>3. CtxInv /\ HistInv /\ GenHolds => SampledFromItsPrompt
  <2> SUFFICES ASSUME CtxInv, GenHolds, gen.pc = "sample"
               PROVE  Held(mem, 0) = gen.base \cup
                        {<<gen.from + p[1], p[2]>> : p \in Placed(gen.prompt \o gen.produced)}
    BY DEF SampledFromItsPrompt
  <2>1. Held(mem, 0) = gen.base \cup Run(gen.from, gen.prompt \o gen.produced)
    BY DEF GenHolds, Writing, Decoded, InPrompt
  <2>2. gen.prompt \o gen.produced \in Seq(Token) /\ gen.from \in Nat
    BY GenFacts, ConcatProperties
  <2> QED
    BY <2>1, <2>2, RunIsShifted
<1> QED
  BY <1>1, <1>2, <1>3, PTL DEF CtxSpec
-----------------------------------------------------------------------------
(* The slots' steps are those of the instance S: the two differ only in    *)
(* the texts a single-sequence call may leave.                             *)

\* slots_post is a step of the instance.
LEMMA PostSeen ==
    ASSUME NEW prompt \in Prompt, NEW n \in NPredict, Post(prompt, n)
    PROVE  S!Post(prompt, n)
BY Zenon DEF Post, S!Post, BudgetOf, S!BudgetOf, NCtxSeq, S!NCtxSeq,
   updateVars, S!updateVars

\* slots_cancel of a task that waits is a step of the instance.
LEMMA CancelQueuedSeen ==
    ASSUME NEW i \in DOMAIN queue, CancelQueued(i)
    PROVE  S!CancelQueued(i)
BY Zenon DEF CancelQueued, S!CancelQueued, Tell, S!Tell, updateVars,
   S!updateVars

\* slots_cancel of a task that runs is a step of the instance.
LEMMA CancelBusySeen ==
    ASSUME NEW s \in SlotIds, CancelBusy(s)
    PROVE  S!CancelBusy(s)
BY Zenon DEF CancelBusy, S!CancelBusy, Busy, S!Busy, Idle, S!Idle, SlotIds,
   S!SlotIds, SeqIds, S!SeqIds, Tell, S!Tell, SeqRm, S!SeqRm, CellsOf,
   S!CellsOf, IdleSlot, S!IdleSlot, updateVars, S!updateVars

\* Dropping the system prompt is a step of the instance.
LEMMA ClearSystemSeen ==
    ASSUME ClearSystem
    PROVE  S!ClearSystem
BY Zenon DEF ClearSystem, S!ClearSystem, slots_active, S!slots_active, Busy,
   S!Busy, Idle, S!Idle, SlotIds, S!SlotIds, SeqIds, S!SeqIds, WithoutSystem,
   S!WithoutSystem, SeqRm, S!SeqRm, CellsOf, S!CellsOf, updateVars,
   S!updateVars

\* reset is a step of the instance.
LEMMA ResetSeen ==
    ASSUME Reset
    PROVE  S!Reset
BY Zenon DEF Reset, S!Reset, SlotIds, S!SlotIds, SeqIds, S!SeqIds, IdleSlot,
   S!IdleSlot, Quiet, S!Quiet, Ids, S!Ids, updateVars, S!updateVars

\* lora_set is a step of the instance.
LEMMA LoraSetSeen ==
    ASSUME LoraSet
    PROVE  S!LoraSet
BY Zenon DEF LoraSet, S!LoraSet, updateVars, S!updateVars

\* The start of slots_update is a step of the instance.
LEMMA UpdateBeginSeen ==
    ASSUME UpdateBegin
    PROVE  S!UpdateBegin
BY Zenon DEF UpdateBegin, S!UpdateBegin, Quiet, S!Quiet, Ids, S!Ids

\* The launch of a task is a step of the instance.
LEMMA LaunchHeadSeen ==
    ASSUME LaunchHead
    PROVE  S!LaunchHead
BY Zenon DEF LaunchHead, S!LaunchHead, CanLaunch, S!CanLaunch, FreeSlots,
   S!FreeSlots, Idle, S!Idle, SlotIds, S!SlotIds, SeqIds, S!SeqIds,
   Admissible, S!Admissible, kv_shared, S!kv_shared, NCtxSeq, S!NCtxSeq,
   slots_reserved, S!slots_reserved, ReservedBelow, S!ReservedBelow, Reserve,
   S!Reserve, Reused, S!Reused, Reusable, S!Reusable, FirstFree, S!FirstFree,
   Adopted, S!Adopted, SeqRm, S!SeqRm, SeqCp, S!SeqCp, CellsOf, S!CellsOf,
   updateVars, S!updateVars

\* The end of the launch loop is a step of the instance.
LEMMA LaunchDoneSeen ==
    ASSUME LaunchDone
    PROVE  S!LaunchDone
BY Zenon DEF LaunchDone, S!LaunchDone, CanLaunch, S!CanLaunch, FreeSlots,
   S!FreeSlots, Idle, S!Idle, SlotIds, S!SlotIds, SeqIds, S!SeqIds,
   Admissible, S!Admissible, kv_shared, S!kv_shared, NCtxSeq, S!NCtxSeq,
   slots_reserved, S!slots_reserved, ReservedBelow, S!ReservedBelow, Reserve,
   S!Reserve, Reused, S!Reused, Reusable, S!Reusable, Decoding, S!Decoding,
   Cardinality, S!Cardinality

\* A chunk of a prompt taken into the batch is a step of the instance.
LEMMA TakeChunkSeen ==
    ASSUME TakeChunk
    PROVE  S!TakeChunk
BY Zenon DEF TakeChunk, S!TakeChunk, ChunkOf, S!ChunkOf, Idle, S!Idle

\* A batch that is full is a step of the instance.
LEMMA BatchReadySeen ==
    ASSUME BatchReady
    PROVE  S!BatchReady
BY Zenon DEF BatchReady, S!BatchReady, stateVars, S!stateVars

\* An update without a batch is a step of the instance.
LEMMA NothingToDecodeSeen ==
    ASSUME NothingToDecode
    PROVE  S!NothingToDecode
BY Zenon DEF NothingToDecode, S!NothingToDecode, Return, S!Return, Quiet,
   S!Quiet, Ids, S!Ids, stateVars, S!stateVars

\* A decode is a step of the instance.
LEMMA DecodeOkSeen ==
    ASSUME DecodeOk
    PROVE  S!DecodeOk
BY Zenon DEF DecodeOk, S!DecodeOk, HasRoom, S!HasRoom, BatchCells,
   S!BatchCells, InBatch, S!InBatch, Decoding, S!Decoding, Chunked, S!Chunked,
   RowsOf, S!RowsOf, NewCells, S!NewCells, LastChunk, S!LastChunk, CellsOf,
   S!CellsOf, NCtxSeq, S!NCtxSeq, SlotIds, S!SlotIds, SeqIds, S!SeqIds,
   Cardinality, S!Cardinality

\* A decode that fails is a step of the instance.
LEMMA DecodeFailsSeen ==
    ASSUME DecodeFails
    PROVE  S!DecodeFails
BY Zenon DEF DecodeFails, S!DecodeFails, HasRoom, S!HasRoom, BatchCells,
   S!BatchCells, InBatch, S!InBatch, Decoding, S!Decoding, Chunked, S!Chunked,
   RowsOf, S!RowsOf, NewCells, S!NewCells, CellsOf, S!CellsOf, NCtxSeq,
   S!NCtxSeq, SlotIds, S!SlotIds, SeqIds, S!SeqIds, Released, S!Released,
   Failed, S!Failed, Tell, S!Tell, Return, S!Return, Quiet, S!Quiet, Ids,
   S!Ids, IdleSlot, S!IdleSlot,
   Cardinality, S!Cardinality

\* A slot the sampling loop passes over is a step of the instance.
LEMMA PassOverSeen ==
    ASSUME PassOver
    PROVE  S!PassOver
BY Zenon DEF PassOver, S!PassOver, Idle, S!Idle, stateVars, S!stateVars

\* A task without a budget that ends is a step of the instance.
LEMMA NoBudgetSeen ==
    ASSUME NoBudget
    PROVE  S!NoBudget
BY Zenon DEF NoBudget, S!NoBudget, Sampling, S!Sampling, Finish, S!Finish,
   Tell, S!Tell, SeqRm, S!SeqRm, CellsOf, S!CellsOf, IdleSlot, S!IdleSlot,
   Idle, S!Idle

\* A task that ends its text is a step of the instance.
LEMMA SampleEosSeen ==
    ASSUME SampleEos
    PROVE  S!SampleEos
BY Zenon DEF SampleEos, S!SampleEos, Sampling, S!Sampling, Finish, S!Finish,
   Tell, S!Tell, SeqRm, S!SeqRm, CellsOf, S!CellsOf, IdleSlot, S!IdleSlot,
   Idle, S!Idle

\* A token that is drawn is a step of the instance.
LEMMA SampleTokenSeen ==
    ASSUME NEW tok \in Sampled, NEW stopped \in BOOLEAN, SampleToken(tok, stopped)
    PROVE  S!SampleToken(tok, stopped)
BY Zenon DEF SampleToken, S!SampleToken, Sampling, S!Sampling, Finish,
   S!Finish, Tell, S!Tell, SeqRm, S!SeqRm, CellsOf, S!CellsOf, IdleSlot,
   S!IdleSlot, Idle, S!Idle

\* A sampler that throws is a step of the instance.
LEMMA SamplerThrowsSeen ==
    ASSUME SamplerThrows
    PROVE  S!SamplerThrows
BY Zenon DEF SamplerThrows, S!SamplerThrows, Sampling, S!Sampling, Return,
   S!Return, Quiet, S!Quiet, Ids, S!Ids, Idle, S!Idle

\* The end of slots_update is a step of the instance.
LEMMA UpdateDoneSeen ==
    ASSUME UpdateDone
    PROVE  S!UpdateDone
BY Zenon DEF UpdateDone, S!UpdateDone, Return, S!Return, Quiet, S!Quiet, Ids,
   S!Ids, stateVars, S!stateVars

\* So every step of slots_update is one.
LEMMA UpdateSeen == UpdateStep => S!UpdateStep
<1> SUFFICES ASSUME UpdateStep PROVE S!UpdateStep
  OBVIOUS
<1>1. ASSUME NEW tok \in Sampled, NEW stopped \in BOOLEAN, SampleToken(tok, stopped)
      PROVE  S!UpdateStep
  BY <1>1, SampleTokenSeen DEF S!UpdateStep
<1> QED
  BY <1>1, LaunchHeadSeen, LaunchDoneSeen, TakeChunkSeen, BatchReadySeen, NothingToDecodeSeen,
     DecodeOkSeen, DecodeFailsSeen, PassOverSeen, NoBudgetSeen, SampleEosSeen,
     SamplerThrowsSeen, UpdateDoneSeen DEF UpdateStep, S!UpdateStep

\* A new context is a new instance.
LEMMA InitSeen == CtxInit => S!Init
BY Zenon DEF CtxInit, Init, S!Init, IdleSlot, S!IdleSlot, Quiet, S!Quiet, Ids, S!Ids,
   SlotIds, S!SlotIds, SeqIds, S!SeqIds

\* The instance has the variables of the slots.
LEMMA VarsSeen == S!vars = vars /\ (S!vars)' = vars'
BY Zenon DEF S!updateVars, updateVars, S!stateVars, stateVars, S!vars, vars

\* A host that sets no system prompt: its calls of the slots are steps of the instance.
LEMMA SlotsCallSeen ==
    ASSUME SystemPrompt = {}, SlotsCall
    PROVE  S!Next
<1>1. CASE \E prompt \in Prompt, n \in NPredict : Post(prompt, n)
  BY <1>1, PostSeen DEF S!Next, S!HostCall
<1>2. CASE \E i \in DOMAIN queue : CancelQueued(i)
  BY <1>2, CancelQueuedSeen DEF S!Next, S!HostCall
<1>3. CASE \E s \in SlotIds : CancelBusy(s)
  BY <1>3, CancelBusySeen DEF S!Next, S!HostCall, S!SlotIds, S!SeqIds, SlotIds, SeqIds
<1>4. CASE ClearSystem
  BY <1>4, ClearSystemSeen DEF S!Next, S!HostCall
<1>5. CASE UpdateBegin
  BY <1>5, UpdateBeginSeen DEF S!Next
<1>6. CASE UpdateStep
  BY <1>6, UpdateSeen DEF S!Next
<1> QED
  BY <1>1, <1>2, <1>3, <1>4, <1>5, <1>6 DEF SlotsCall

-----------------------------------------------------------------------------
(* A cache that holds a text on sequence 0. *)

ZeroText(m) == \E text \in AllTexts : Held(m, 0) = Run(0, text)

\* Nothing else is in it.
OnlyText(m) == m \subseteq Cell /\ (\A c \in m : c.seqs = {0}) /\ ZeroText(m)

\* Without a system prompt a cell has one sequence: a busy slot's, or 0.
SoloCells == \A c \in mem : \E s \in Busy \cup {0} : c.seqs = {s}

SoloInv ==
    /\ system = <<>> /\ system_seq = -1
    /\ \A s \in SlotIds : Idle(s) => ~slots[s].generating
    /\ gen.pc # "none" => queue = <<>>
    /\ SoloCells
    /\ Idle(0) => ZeroText(mem)
    /\ OnlyText(saved.mem)

\* The texts a sequence can hold are those its window holds.
LEMMA AllTextsAre ==
    ASSUME NEW text
    PROVE  text \in AllTexts <=> text \in Seq(Token) /\ Len(text) <= NCtxSeq
<1>1. NCtxSeq \in Nat
  BY WindowType
<1>2. ASSUME NEW n \in 0 .. NCtxSeq, text \in [1 .. n -> Token]
      PROVE  text \in Seq(Token) /\ Len(text) <= NCtxSeq
  <2>1. n \in Nat /\ n <= NCtxSeq
    BY <1>1
  <2>2. text \in Seq(Token)
    BY <1>2, <2>1, SeqDef
  <2>3. Len(text) \in Nat /\ DOMAIN text = 1 .. Len(text) /\ DOMAIN text = 1 .. n
    BY <1>2, <2>2, LenProperties
  <2>4. Len(text) = n
    <3> DEFINE l == Len(text)
    <3>1. l \in Nat /\ 1 .. l = 1 .. n
      BY <2>3
    <3> HIDE DEF l
    <3>2. l > 0 => l \in 1 .. n
      BY <3>1
    <3>3. n > 0 => n \in 1 .. l
      BY <2>1, <3>1
    <3>4. l = n
      BY <2>1, <3>1, <3>2, <3>3
    <3> QED
      BY <3>4 DEF l
  <2> QED
    BY <2>1, <2>2, <2>4
<1>3. ASSUME text \in Seq(Token), Len(text) <= NCtxSeq
      PROVE  text \in [1 .. Len(text) -> Token] /\ Len(text) \in 0 .. NCtxSeq
  BY <1>1, <1>3, LenProperties
<1> QED
  BY <1>2, <1>3 DEF AllTexts

\* The empty cache holds the empty text.
LEMMA OnlyNothing == OnlyText({})
<1>1. <<>> \in Seq(Token) /\ Len(<<>>) = 0
  BY EmptySeq
<1>2. <<>> \in AllTexts
  <2>1. Len(<<>>) <= NCtxSeq
    BY <1>1, WindowType
  <2> QED
    BY <1>1, <2>1, AllTextsAre, Zenon
<1> QED
  BY <1>2, EmptyCache DEF OnlyText, ZeroText

\* Cells of sequence 0 alone are told by their places and tokens.
LEMMA SameCells ==
    ASSUME NEW m, m \subseteq Cell, \A c \in m : c.seqs = {0},
           NEW n, n \subseteq Cell, \A c \in n : c.seqs = {0},
           Held(m, 0) = Held(n, 0)
    PROVE  m \subseteq n
<1> SUFFICES ASSUME NEW c \in m PROVE c \in n
  OBVIOUS
<1>1. <<c.pos, c.tok>> \in Held(m, 0)
  BY DEF Held, CellsOf
<1>2. <<c.pos, c.tok>> \in Held(n, 0)
  BY <1>1
<1>3. PICK d \in CellsOf(n, 0) : <<d.pos, d.tok>> = <<c.pos, c.tok>>
  BY <1>2 DEF Held
<1>4. d \in n /\ c \in Cell /\ d \in Cell /\ d.pos = c.pos /\ d.tok = c.tok /\ d.seqs = c.seqs
  BY <1>3 DEF CellsOf
<1>5. d = c
  BY <1>4 DEF Cell
<1> QED
  BY <1>4, <1>5

\* Such a cache is what decoding its text into an empty one leaves.
LEMMA TextIsCells ==
    ASSUME NEW m, m \subseteq Cell, \A c \in m : c.seqs = {0},
           NEW text \in Seq(Token), Held(m, 0) = Run(0, text)
    PROVE  m = NewCells(0, 0, text)
<1> DEFINE n == NewCells(0, 0, text)
<1>1. n \subseteq Cell /\ (\A c \in n : c.seqs = {0}) /\ Held(n, 0) = Run(0, text)
  BY ZeroIsSequence, NewCellsType, NewCellsOwned, NewCellsRun
<1> HIDE DEF n
<1>2. m \subseteq n /\ n \subseteq m
  BY <1>1, SameCells
<1> QED
  BY <1>2 DEF n

\* An empty cache has room for what a window holds.
LEMMA RoomForText ==
    ASSUME NEW text \in AllTexts
    PROVE  HasRoom({}, NewCells(0, 0, text))
<1> DEFINE new == NewCells(0, 0, text)
<1>1. text \in Seq(Token) /\ Len(text) <= NCtxSeq /\ Len(text) \in Nat
  BY AllTextsAre, LenProperties
<1>2. Cardinality(new) = Len(text) /\ \A c \in new : c.seqs = {0}
  BY <1>1, NewCellsCount, NewCellsOwned
<1> HIDE DEF new
<1>3. Cardinality({}) = 0
  BY FS_EmptySet
<1>4. \A s \in SeqIds : CellsOf({}, s) = {} /\ CellsOf(new, s) = IF s = 0 THEN new ELSE {}
  BY <1>2 DEF CellsOf
<1>5. CASE Unified
  BY <1>1, <1>2, <1>3, <1>5, WindowType DEF HasRoom, new
<1>6. CASE ~Unified
  <2>1. ASSUME NEW s \in SeqIds
        PROVE  Cardinality(CellsOf({}, s)) + Cardinality(CellsOf(new, s)) <= NCtxSeq
    <3>1. CASE s = 0
      BY <1>1, <1>2, <1>3, <1>4, <3>1
    <3>2. CASE s # 0
      BY <1>3, <1>4, <3>2, WindowType
    <3> QED
      BY <3>1, <3>2
  <2> QED
    BY <1>6, <2>1 DEF HasRoom, new
<1> QED
  BY <1>5, <1>6

\* A decode that finds room leaves a text that a window holds.
LEMMA OnlyAppended ==
    ASSUME NEW m, OnlyText(m), Bounded(m), NEW toks \in Seq(Token), Fits(m, toks)
    PROVE  OnlyText(Appended(m, toks))
<1>1. PICK text \in AllTexts : Held(m, 0) = Run(0, text)
  BY DEF OnlyText, ZeroText
<1> DEFINE e   == EndOf(m)
           new == NewCells(0, e, toks)
           all == text \o toks
<1>2. text \in Seq(Token) /\ Len(text) \in Nat /\ Len(toks) \in Nat
  BY AllTextsAre, LenProperties
<1>3. m \subseteq Cell /\ (\A c \in m : c.seqs = {0}) /\ e = Len(text)
  BY <1>1, <1>2, EndOfText DEF OnlyText
<1>4. Cardinality(m) = Len(text) /\ CellsOf(m, 0) = m
  <2>1. m = NewCells(0, 0, text)
    BY <1>1, <1>2, <1>3, TextIsCells
  <2>2. Cardinality(m) = Len(text)
    BY <1>2, <2>1, NewCellsCount
  <2>3. CellsOf(m, 0) = m
    BY <1>3 DEF CellsOf
  <2> QED
    BY <2>2, <2>3
<1> HIDE DEF e
<1>5. Cardinality(new) = Len(toks) /\ (\A c \in new : c.seqs = {0}) /\ CellsOf(new, 0) = new
  <2>1. e \in Nat
    BY <1>2, <1>3
  <2>2. Cardinality(new) = Len(toks) /\ \A c \in new : c.seqs = {0}
    BY <2>1, NewCellsCount, NewCellsOwned
  <2> QED
    BY <2>2 DEF CellsOf
<1>6. HasRoom(m, new)
  BY DEF Fits, e
<1> HIDE DEF new
<1>7. Len(text) + Len(toks) <= NCtxSeq
  <2>1. CASE Unified
    BY <1>4, <1>5, <1>6, <2>1, WindowType DEF HasRoom
  <2>2. CASE ~Unified
    BY <1>4, <1>5, <1>6, <2>2, ZeroIsSequence DEF HasRoom
  <2> QED
    BY <2>1, <2>2
<1>8. all \in Seq(Token) /\ Len(all) = Len(text) + Len(toks)
  BY <1>2, ConcatProperties
<1>9. Run(0, all) = Run(0, text) \cup Run(Len(text), toks)
  BY <1>2, RunConcat
<1> HIDE DEF all
<1>10. all \in AllTexts
  BY <1>7, <1>8, AllTextsAre
<1>11. Appended(m, toks) \subseteq Cell /\ Held(Appended(m, toks), 0) = Run(0, all)
  BY <1>1, <1>3, <1>9, AppendedText DEF e
<1>12. \A c \in Appended(m, toks) : c.seqs = {0}
  BY <1>3, <1>5 DEF Appended, new, e
<1> QED
  BY <1>10, <1>11, <1>12 DEF OnlyText, ZeroText

\* A text that is cut is a text.
LEMMA OnlyCut ==
    ASSUME NEW m, OnlyText(m), NEW k \in Nat
    PROVE  OnlyText(SeqRm(m, 0, k))
<1>1. PICK text \in AllTexts : Held(m, 0) = Run(0, text)
  BY DEF OnlyText, ZeroText
<1> DEFINE l    == Len(text)
           keep == IF k <= l THEN k ELSE l
           p    == SubSeq(text, 1, keep)
           n    == SeqRm(m, 0, k)
<1>2. text \in Seq(Token) /\ l \in Nat /\ DOMAIN text = 1 .. l /\ l <= NCtxSeq /\ NCtxSeq \in Nat
  BY AllTextsAre, LenProperties, WindowType
<1>3. m \subseteq Cell /\ \A c \in m : c.seqs = {0}
  BY DEF OnlyText
<1>4. n \subseteq m
  <2>1. {d \in {c \in CellsOf(m, 0) : c.pos >= k} : d.seqs # {0}} = {}
    BY <1>3 DEF CellsOf
  <2> QED
    BY <2>1 DEF SeqRm
<1>5. Held(n, 0) = {q \in Run(0, text) : ~(q[1] >= k)}
  BY <1>1, <1>3, SeqRmBelow
<1> HIDE DEF n, l
<1>6. keep \in 0 .. l /\ keep \in Nat
  BY <1>2
<1>7. \A i \in 1 .. l : i <= keep <=> ~(0 + i - 1 >= k)
  BY <1>2
<1> HIDE DEF keep
<1>8. /\ p \in Seq(Token) /\ Len(p) = keep /\ DOMAIN p = 1 .. keep
      /\ \A i \in 1 .. keep : p[i] = text[i]
  BY <1>2, <1>6, PrefixType DEF l
<1> HIDE DEF p
<1>9. p \in AllTexts
  BY <1>2, <1>6, <1>8, AllTextsAre
<1>10. {q \in Run(0, text) : ~(q[1] >= k)} = Run(0, p)
  <2>1. ASSUME NEW i \in DOMAIN text, ~(0 + i - 1 >= k)
        PROVE  <<0 + i - 1, text[i]>> \in Run(0, p)
    <3>1. i \in 1 .. keep
      BY <1>2, <1>6, <1>7, <2>1
    <3>2. p[i] = text[i] /\ i \in DOMAIN p
      BY <1>8, <3>1
    <3> QED
      BY <3>2 DEF Run
  <2>2. ASSUME NEW i \in DOMAIN p
        PROVE  <<0 + i - 1, p[i]>> \in Run(0, text) /\ ~(0 + i - 1 >= k)
    <3>1. i \in 1 .. keep /\ i \in DOMAIN text /\ i \in 1 .. l
      BY <1>2, <1>6, <1>8
    <3>2. p[i] = text[i] /\ ~(0 + i - 1 >= k)
      BY <1>6, <1>7, <1>8, <3>1
    <3> QED
      BY <3>1, <3>2 DEF Run
  <2>3. \A q \in Run(0, text) : ~(q[1] >= k) => q \in Run(0, p)
    BY <2>1 DEF Run
  <2>4. \A q \in Run(0, p) : q \in Run(0, text) /\ ~(q[1] >= k)
    BY <2>2 DEF Run
  <2> QED
    BY <2>3, <2>4
<1>11. n \subseteq Cell /\ \A c \in n : c.seqs = {0}
  BY <1>3, <1>4
<1> QED
  BY <1>5, <1>9, <1>10, <1>11 DEF OnlyText, ZeroText, n

-----------------------------------------------------------------------------
(* The slots' steps leave no cell of an idle slot. *)

\* The tasks stay in their slots.
SameTasks == \A s \in SlotIds : slots'[s].id_task = slots[s].id_task

\* Tasks and cells are as they were.
LEMMA SoloStill ==
    ASSUME SoloInv, mem' = mem, SameTasks
    PROVE  SoloCells' /\ (Idle(0)' => ZeroText(mem'))
<1>1. Busy' = Busy /\ Idle(0)' = Idle(0)
  BY ZeroIsSequence DEF SameTasks, Busy, Idle, SlotIds
<1> QED
  BY <1>1 DEF SoloInv, SoloCells

\* The cells of slot s are removed, whose task may have changed.
LEMMA SoloEmptied ==
    ASSUME SoloInv, mem \subseteq Cell, NEW s \in SlotIds, mem' = SeqRm(mem, s, 0),
           \A t \in SlotIds \ {s} : slots'[t].id_task = slots[t].id_task
    PROVE  SoloCells' /\ (Idle(0)' => ZeroText(mem'))
<1>1. \A c \in mem : c.pos >= 0
  BY DEF Cell
<1>2. mem' = {c \in mem : s \notin c.seqs}
  <2>1. \A c \in mem : \E t : c.seqs = {t}
    BY DEF SoloInv, SoloCells
  <2>2. \A c \in mem : s \in c.seqs => c.seqs = {s}
    BY <2>1
  <2>3. {d \in {c \in CellsOf(mem, s) : c.pos >= 0} : d.seqs # {s}} = {}
    BY <2>2 DEF CellsOf
  <2>4. SeqRm(mem, s, 0) = mem \ {c \in CellsOf(mem, s) : c.pos >= 0}
    BY <2>3 DEF SeqRm
  <2> QED
    BY <1>1, <2>4 DEF CellsOf
<1>3. SoloCells'
  <2>1. ASSUME NEW c \in mem, s \notin c.seqs
        PROVE  \E t \in Busy' \cup {0} : c.seqs = {t}
    <3>1. PICK t \in Busy \cup {0} : c.seqs = {t}
      BY DEF SoloInv, SoloCells
    <3>2. t # s
      BY <2>1, <3>1
    <3>3. t \in Busy' \cup {0}
      BY <3>1, <3>2 DEF Busy, Idle
    <3> QED
      BY <3>1, <3>3
  <2> QED
    BY <1>2, <2>1 DEF SoloCells
<1>4. ASSUME Idle(0)' PROVE ZeroText(mem')
  <2>1. CASE s = 0
    <3>1. Held(mem', 0) = {}
      BY <2>1, SeqRmAll
    <3>2. Held({}, 0) = {}
      BY DEF Held, CellsOf
    <3> QED
      BY <3>1, <3>2, OnlyNothing DEF OnlyText, ZeroText
  <2>2. CASE s # 0
    <3>1. Idle(0)
      BY <1>4, <2>2, ZeroIsSequence DEF Idle, SlotIds
    <3>2. Held(mem', 0) = Held(mem, 0)
      BY <2>2, SeqRmOther
    <3> QED
      BY <3>1, <3>2 DEF SoloInv, ZeroText
  <2> QED
    BY <2>1, <2>2
<1> QED
  BY <1>3, <1>4

\* A launch without a system prompt starts from no cells.
LEMMA LaunchSolo ==
    ASSUME IInv, SoloInv, LaunchHead
    PROVE  /\ SoloCells' /\ (Idle(0)' => ZeroText(mem'))
           /\ \A s \in SlotIds : Idle(s)' => ~slots'[s].generating
<1> DEFINE t    == Head(queue)
           s    == FirstFree
           keep == Reused(t.prompt)
           new  == [slots[s] EXCEPT !.id_task = t.id, !.prompt = t.prompt, !.budget = t.budget,
                         !.generating = FALSE, !.n_cached = keep, !.n_past = keep,
                         !.pending = NoToken, !.logits = FALSE]
<1>1. /\ CanLaunch /\ mem' = Adopted(SeqRm(mem, s, 0), s, keep)
      /\ slots' = [slots EXCEPT ![s] = new]
  BY DEF LaunchHead
<1>2. s \in SlotIds /\ mem \subseteq Cell /\ slots \in [SlotIds -> Slot]
  BY <1>1, FirstFreeType DEF CanLaunch, FreeSlots, IInv, TypeOK
<1>3. t \in Task
  BY <1>1 DEF CanLaunch, IInv, TypeOK
<1>4. keep = 0
  <2>1. t.prompt \in Seq(Token) \ {<<>>} /\ system \in Seq(Token) /\ system = <<>>
    BY <1>3 DEF Task, IInv, TypeOK, SoloInv
  <2>2. keep \in Nat /\ keep <= Len(system)
    BY <2>1, ReusedType
  <2>3. Len(system) = 0
    BY <2>1, EmptySeq
  <2> HIDE DEF keep
  <2> QED
    BY <2>2, <2>3
<1>5. mem' = SeqRm(mem, s, 0)
  BY <1>1, <1>4 DEF Adopted
<1>6. /\ \A u \in SlotIds \ {s} : slots'[u] = slots[u]
      /\ slots'[s] = new
  <2> HIDE DEF new, s
  <2> QED
    BY <1>1, <1>2
<1>7. new.id_task = t.id /\ new.generating = FALSE /\ t.id # 0
  <2>1. slots[s] \in Slot
    BY <1>2
  <2>2. t.id # 0
    BY <1>3 DEF Task
  <2> HIDE DEF s, t, keep
  <2> QED
    BY <2>1, <2>2 DEF Slot
<1> HIDE DEF s, new, t, keep
<1>8. SoloCells' /\ (Idle(0)' => ZeroText(mem'))
  BY <1>2, <1>5, <1>6, SoloEmptied
<1>9. \A u \in SlotIds : Idle(u)' => ~slots'[u].generating
  BY <1>6, <1>7 DEF Idle, SoloInv
<1> QED
  BY <1>8, <1>9

\* A batch writes cells of the slots it is for.
LEMMA DecodeOkSolo ==
    ASSUME IInv, SoloInv, DecodeOk
    PROVE  /\ SoloCells' /\ (Idle(0)' => ZeroText(mem'))
           /\ \A s \in SlotIds : Idle(s)' => ~slots'[s].generating
<1>1. InBatch \subseteq Busy
  BY DEF InBatch, Decoding, Chunked, Busy, IInv, RowKinds, SoloInv
<1>2. mem' = mem \cup BatchCells /\ slots \in [SlotIds -> Slot]
  BY DEF DecodeOk, IInv, TypeOK
<1>3. \A c \in BatchCells : \E s \in InBatch : c.seqs = {s}
  BY NewCellsOwned DEF BatchCells
<1>4. \A s \in SlotIds : /\ slots'[s].id_task = slots[s].id_task
                         /\ s \notin InBatch => slots'[s] = slots[s]
  <2> TAKE s \in SlotIds
  <2>1. slots[s] \in Slot
    BY <1>2
  <2>2. CASE s \in Decoding
    BY <2>1, <2>2 DEF DecodeOk, Slot, InBatch
  <2>3. CASE s \notin Decoding /\ s \in Chunked
    BY <2>1, <2>3 DEF DecodeOk, Slot, InBatch
  <2>4. CASE s \notin Decoding /\ s \notin Chunked
    BY <2>4 DEF DecodeOk
  <2> QED
    BY <2>2, <2>3, <2>4 DEF InBatch
<1>5. Busy' = Busy /\ Idle(0)' = Idle(0)
  <2>1. SameTasks
    BY <1>4 DEF SameTasks
  <2> QED
    BY <2>1, ZeroIsSequence DEF SameTasks, Busy, Idle, SlotIds
<1>6. SoloCells'
  BY <1>1, <1>2, <1>3, <1>5 DEF SoloInv, SoloCells
<1>7. ASSUME Idle(0)' PROVE ZeroText(mem')
  <2>1. 0 \notin InBatch
    BY <1>1, <1>5, <1>7 DEF Busy
  <2>2. CellsOf(mem', 0) = CellsOf(mem, 0)
    BY <1>2, <1>3, <2>1 DEF CellsOf
  <2> QED
    BY <1>5, <1>7, <2>2 DEF SoloInv, ZeroText, Held
<1>8. ASSUME NEW s \in SlotIds, Idle(s)' PROVE ~slots'[s].generating
  <2>1. s \notin InBatch
    BY <1>1, <1>5, <1>8 DEF Busy
  <2>2. slots'[s] = slots[s]
    BY <1>4, <1>8, <2>1
  <2> QED
    BY <1>8, <2>2 DEF Idle, SoloInv
<1> QED
  BY <1>6, <1>7, <1>8

\* A failed decode takes their cells away.
LEMMA DecodeFailsSolo ==
    ASSUME IInv, SoloInv, DecodeFails
    PROVE  /\ SoloCells' /\ (Idle(0)' => ZeroText(mem'))
           /\ \A s \in SlotIds : Idle(s)' => ~slots'[s].generating
<1>1. /\ mem' = Released(InBatch) /\ mem \subseteq Cell
      /\ \A s \in SlotIds : slots'[s] = IF s \in InBatch THEN IdleSlot ELSE slots[s]
  BY DEF DecodeFails, IInv, TypeOK
<1>2. \A s \in SlotIds : s \in InBatch => Idle(s)' /\ ~slots'[s].generating
  BY <1>1 DEF Idle, IdleSlot
<1>3. \A c \in mem' : \E d \in mem : c.seqs = d.seqs \ InBatch /\ ~(d.seqs \subseteq InBatch)
  BY <1>1 DEF Released, Cell
<1>4. SoloCells'
  <2>1. ASSUME NEW c \in mem'
        PROVE  \E t \in Busy' \cup {0} : c.seqs = {t}
    <3>1. PICK d \in mem : c.seqs = d.seqs \ InBatch /\ ~(d.seqs \subseteq InBatch)
      BY <1>3
    <3>2. PICK t \in Busy \cup {0} : d.seqs = {t}
      BY DEF SoloInv, SoloCells
    <3>3. t \notin InBatch /\ c.seqs = {t}
      BY <3>1, <3>2
    <3>4. t \in Busy' \cup {0}
      BY <1>1, <3>2, <3>3 DEF Busy, Idle
    <3> QED
      BY <3>3, <3>4
  <2> QED
    BY <2>1 DEF SoloCells
<1>5. ASSUME Idle(0)' PROVE ZeroText(mem')
  <2>1. CASE 0 \in InBatch
    <3>1. Held(mem', 0) = {}
      BY <1>1, <2>1, ReleasedHeld
    <3>2. Held({}, 0) = {}
      BY DEF Held, CellsOf
    <3> QED
      BY <3>1, <3>2, OnlyNothing DEF OnlyText, ZeroText
  <2>2. CASE 0 \notin InBatch
    <3>1. Held(mem', 0) = Held(mem, 0)
      BY <1>1, <2>2, ReleasedHeld
    <3>2. Idle(0)
      BY <1>1, <1>5, <2>2, ZeroIsSequence DEF Idle, SlotIds
    <3> QED
      BY <3>1, <3>2 DEF SoloInv, ZeroText
  <2> QED
    BY <2>1, <2>2
<1>6. \A s \in SlotIds : Idle(s)' => ~slots'[s].generating
  BY <1>1, <1>2 DEF SoloInv, Idle
<1> QED
  BY <1>4, <1>5, <1>6

\* A slot that ends its task gives up its cells.
LEMMA FinishSolo ==
    ASSUME IInv, SoloInv, NEW s \in SlotIds, mem' = SeqRm(mem, s, 0),
           slots' = [slots EXCEPT ![s] = IdleSlot]
    PROVE  /\ SoloCells' /\ (Idle(0)' => ZeroText(mem'))
           /\ \A t \in SlotIds : Idle(t)' => ~slots'[t].generating
<1>1. slots \in [SlotIds -> Slot] /\ mem \subseteq Cell
  BY DEF IInv, TypeOK
<1>2. slots'[s] = IdleSlot /\ \A t \in SlotIds \ {s} : slots'[t] = slots[t]
  BY <1>1
<1>3. SoloCells' /\ (Idle(0)' => ZeroText(mem'))
  BY <1>1, <1>2, SoloEmptied
<1>4. \A t \in SlotIds : Idle(t)' => ~slots'[t].generating
  BY <1>2 DEF IdleSlot, Idle, SoloInv
<1> QED
  BY <1>3, <1>4

\* A step that changes neither the cells nor the task and phase of a slot.
LEMMA QuietSolo ==
    ASSUME SoloInv, mem' = mem,
           \A s \in SlotIds : /\ slots'[s].id_task = slots[s].id_task
                              /\ slots'[s].generating = slots[s].generating
    PROVE  /\ SoloCells' /\ (Idle(0)' => ZeroText(mem'))
           /\ \A s \in SlotIds : Idle(s)' => ~slots'[s].generating
<1>1. SameTasks
  BY DEF SameTasks
<1> QED
  BY <1>1, SoloStill DEF SoloInv, Idle

\* All steps of slots_update keep the cells to the slots with a task.
LEMMA UpdateSolo ==
    ASSUME IInv, SoloInv, UpdateStep
    PROVE  /\ SoloCells' /\ (Idle(0)' => ZeroText(mem'))
           /\ \A s \in SlotIds : Idle(s)' => ~slots'[s].generating
<1>1. slots \in [SlotIds -> Slot] /\ at \in 0 .. NSeqMax
  BY DEF IInv, TypeOK
<1>2. CASE BatchReady \/ NothingToDecode \/ PassOver \/ UpdateDone
  <2>1. UNCHANGED stateVars
    BY <1>2 DEF BatchReady, NothingToDecode, PassOver, UpdateDone
  <2>2. mem' = mem /\ slots' = slots
    BY <2>1 DEF stateVars
  <2> QED
    BY <2>2, QuietSolo
<1>3. CASE LaunchDone
  <2>1. ASSUME NEW s \in SlotIds
        PROVE  /\ slots'[s].id_task = slots[s].id_task
               /\ slots'[s].generating = slots[s].generating
    <3>1. slots[s] \in Slot /\ slots'[s] = [slots[s] EXCEPT !.take = 0, !.logits = FALSE]
      BY <1>1, <1>3 DEF LaunchDone
    <3> QED
      BY <3>1 DEF Slot
  <2>2. mem' = mem
    BY <1>3 DEF LaunchDone
  <2> QED
    BY <2>1, <2>2, QuietSolo
<1>4. CASE TakeChunk
  <2>1. ASSUME NEW s \in SlotIds
        PROVE  /\ slots'[s].id_task = slots[s].id_task
               /\ slots'[s].generating = slots[s].generating
    <3>1. slots[s] \in Slot /\ slots' = [slots EXCEPT ![at].take = ChunkOf(at)]
      BY <1>1, <1>4 DEF TakeChunk
    <3> DEFINE x == ChunkOf(at)
    <3> HIDE DEF x
    <3>2. slots' = [slots EXCEPT ![at] = [slots[at] EXCEPT !.take = x]]
      BY <3>1 DEF x
    <3>3. slots'[s] = IF s = at THEN [slots[s] EXCEPT !.take = x] ELSE slots[s]
      BY <1>1, <3>2
    <3> QED
      BY <3>1, <3>3 DEF Slot
  <2>2. mem' = mem
    BY <1>4 DEF TakeChunk
  <2> QED
    BY <2>1, <2>2, QuietSolo
<1>5. CASE NoBudget \/ SampleEos
  <2>1. /\ at \in SlotIds /\ mem' = SeqRm(mem, at, 0)
        /\ slots' = [slots EXCEPT ![at] = IdleSlot]
    BY <1>1, <1>5, SizesAssumption DEF NoBudget, SampleEos, Sampling, Finish, SlotIds, SeqIds
  <2> QED
    BY <2>1, FinishSolo
<1>6. ASSUME NEW tok \in Sampled, NEW stopped \in BOOLEAN, SampleToken(tok, stopped)
      PROVE  /\ SoloCells' /\ (Idle(0)' => ZeroText(mem'))
             /\ \A s \in SlotIds : Idle(s)' => ~slots'[s].generating
  <2>1. at \in SlotIds
    BY <1>1, <1>6, SizesAssumption DEF SampleToken, Sampling, SlotIds, SeqIds
  <2>2. CASE mem' = SeqRm(mem, at, 0) /\ slots' = [slots EXCEPT ![at] = IdleSlot]
    BY <2>1, <2>2, FinishSolo
  <2>3. CASE /\ mem' = mem
             /\ slots' = [slots EXCEPT ![at] =
                    [slots[at] EXCEPT !.produced = Append(@, tok), !.pending = tok,
                                      !.logits = FALSE]]
    <3>1. ASSUME NEW s \in SlotIds
          PROVE  /\ slots'[s].id_task = slots[s].id_task
                 /\ slots'[s].generating = slots[s].generating
      <4> DEFINE x == Append(slots[at].produced, tok)
                 new == [slots[at] EXCEPT !.produced = x, !.pending = tok, !.logits = FALSE]
      <4>1. slots' = [slots EXCEPT ![at] = new]
        BY <2>3
      <4>2. slots[at] \in Slot /\ slots[s] \in Slot
        BY <1>1, <2>1
      <4> HIDE DEF x
      <4>3. new.id_task = slots[at].id_task /\ new.generating = slots[at].generating
        BY <4>2 DEF Slot
      <4> HIDE DEF new
      <4>4. slots'[s] = IF s = at THEN new ELSE slots[s]
        BY <1>1, <4>1
      <4> QED
        BY <4>3, <4>4
    <3> QED
      BY <2>3, <3>1, QuietSolo
  <2> QED
    BY <1>6, <2>2, <2>3 DEF SampleToken, Finish
<1>7. CASE SamplerThrows
  <2>1. ASSUME NEW s \in SlotIds
        PROVE  /\ slots'[s].id_task = slots[s].id_task
               /\ slots'[s].generating = slots[s].generating
    <3>1. slots[s] \in Slot /\ slots' = [slots EXCEPT ![at].logits = FALSE]
      BY <1>1, <1>7 DEF SamplerThrows
    <3>2. slots' = [slots EXCEPT ![at] = [slots[at] EXCEPT !.logits = FALSE]]
      BY <3>1
    <3>3. slots'[s] = IF s = at THEN [slots[s] EXCEPT !.logits = FALSE] ELSE slots[s]
      BY <1>1, <3>2
    <3> QED
      BY <3>1, <3>3 DEF Slot
  <2>2. mem' = mem
    BY <1>7 DEF SamplerThrows
  <2> QED
    BY <2>1, <2>2, QuietSolo
<1> QED
  BY <1>2, <1>3, <1>4, <1>5, <1>6, <1>7, LaunchSolo, DecodeOkSolo, DecodeFailsSolo DEF UpdateStep

-----------------------------------------------------------------------------
(* The calls of the slots keep SoloInv. *)

\* The parts of SoloInv that speak of cells and slots.
SoloParts ==
    /\ SoloCells /\ (Idle(0) => ZeroText(mem))
    /\ \A s \in SlotIds : Idle(s) => ~slots[s].generating

\* No slot's call but the one that sets it leaves a system prompt.
LEMMA NoSystem ==
    ASSUME SystemPrompt = {}, SoloInv, SlotsCall
    PROVE  system' = <<>> /\ system_seq' = -1
<1>1. CASE ClearSystem
  BY <1>1 DEF ClearSystem
<1>2. CASE \/ \E prompt \in Prompt, n \in NPredict : Post(prompt, n)
           \/ \E i \in DOMAIN queue : CancelQueued(i)
           \/ \E s \in SlotIds : CancelBusy(s)
           \/ UpdateBegin
  BY <1>2 DEF Post, CancelQueued, CancelBusy, UpdateBegin, SoloInv
<1>3. CASE UpdateStep
  <2>1. CASE LaunchHead \/ LaunchDone \/ TakeChunk \/ DecodeOk \/ DecodeFails
    BY <2>1 DEF LaunchHead, LaunchDone, TakeChunk, DecodeOk, DecodeFails, SoloInv
  <2>2. CASE BatchReady \/ NothingToDecode \/ PassOver \/ UpdateDone
    <3>1. UNCHANGED stateVars
      BY <2>2 DEF BatchReady, NothingToDecode, PassOver, UpdateDone
    <3> QED
      BY <3>1 DEF stateVars, SoloInv
  <2>3. CASE Sampling
    BY <2>3 DEF Sampling, SoloInv
  <2> QED
    BY <1>3, <2>1, <2>2, <2>3 DEF UpdateStep, NoBudget, SampleEos, SampleToken, SamplerThrows
<1> QED
  BY <1>1, <1>2, <1>3 DEF SlotsCall

\* ClearSystem can only take cells from a slot that has none of its own.
LEMMA ClearSolo ==
    ASSUME IInv, SoloInv, ClearSystem
    PROVE  SoloParts'
<1>1. mem \subseteq Cell /\ slots' = slots /\ WithoutSystem = mem
  BY DEF ClearSystem, WithoutSystem, SoloInv, IInv, TypeOK
<1>2. CASE mem' = mem
  BY <1>1, <1>2, QuietSolo DEF SoloParts
<1>3. CASE mem' = SeqRm(mem, NSeqMax - 1, 0)
  <2>1. NSeqMax - 1 \in SlotIds
    BY SizesAssumption DEF SlotIds, SeqIds
  <2>2. SoloCells' /\ (Idle(0)' => ZeroText(mem'))
    BY <1>1, <1>3, <2>1, SoloEmptied
  <2>3. \A s \in SlotIds : Idle(s)' => ~slots'[s].generating
    BY <1>1 DEF Idle, SoloInv
  <2> QED
    BY <2>2, <2>3 DEF SoloParts
<1> QED
  BY <1>1, <1>2, <1>3 DEF ClearSystem

\* SoloInv is kept by the calls of the slots.
LEMMA SlotsCallSolo ==
    ASSUME SystemPrompt = {}, IInv, SoloInv, SlotsCall
    PROVE  SoloInv'
<1>1. SoloParts'
  <2>1. CASE \/ \E prompt \in Prompt, n \in NPredict : Post(prompt, n)
             \/ \E i \in DOMAIN queue : CancelQueued(i)
             \/ UpdateBegin
    <3>1. mem' = mem /\ slots' = slots
      BY <2>1 DEF Post, CancelQueued, UpdateBegin
    <3> QED
      BY <3>1, QuietSolo DEF SoloParts
  <2>2. ASSUME NEW s \in SlotIds, CancelBusy(s)
        PROVE  SoloParts'
    <3>1. mem' = SeqRm(mem, s, 0) /\ slots' = [slots EXCEPT ![s] = IdleSlot]
      BY <2>2 DEF CancelBusy
    <3> QED
      BY <3>1, FinishSolo DEF SoloParts
  <2>3. CASE ClearSystem
    BY <2>3, ClearSolo
  <2>4. CASE UpdateStep
    BY <2>4, UpdateSolo DEF SoloParts
  <2> QED
    BY <2>1, <2>2, <2>3, <2>4 DEF SlotsCall
<1>2. gen' = gen /\ saved' = saved /\ gen.pc = "none"
  BY DEF SlotsCall, ctxVars
<1>3. OnlyText(saved'.mem)
  BY <1>2 DEF SoloInv
<1> QED
  BY <1>1, <1>2, <1>3, NoSystem DEF SoloParts, SoloInv

-----------------------------------------------------------------------------
(* The single-sequence calls, seen from the slots. *)

\* What they all do: no slot has a task, and a text is left on sequence 0.
LeavesText ==
    /\ phase = "host" /\ ~slots_active
    /\ SlotsUntouched
    /\ hist_valid' \in BOOLEAN
    /\ OnlyText(mem')

\* While no slot has a task the cache holds a text and nothing else.
LEMMA QuietHost ==
    ASSUME CtxInv, SoloInv, Free \/ gen.pc # "none"
    PROVE  phase = "host" /\ ~slots_active /\ Busy = {} /\ OnlyText(mem)
<1>1. phase = "host" /\ Busy = {} /\ queue = <<>>
  BY FreeIdle DEF CtxInv, Apart, SoloInv
<1>2. Idle(0)
  BY <1>1, ZeroIsSequence DEF Busy, SlotIds
<1>3. \A c \in mem : c.seqs = {0}
  BY <1>1 DEF SoloInv, SoloCells
<1> QED
  BY <1>1, <1>2, <1>3 DEF slots_active, OnlyText, SoloInv, CtxInv, IInv, TypeOK

\* Such a call in the names of the instance.
LEMMA UseSeen ==
    ASSUME NEW text, UseSequence0(text)
    PROVE  S!UseSequence0(text)
BY Zenon DEF UseSequence0, S!UseSequence0, SeqRm, S!SeqRm, CellsOf, S!CellsOf, NewCells,
   S!NewCells, HasRoom, S!HasRoom, NCtxSeq, S!NCtxSeq, SeqIds, S!SeqIds, Cardinality,
   S!Cardinality, slots_active, S!slots_active, Busy, S!Busy, Idle, S!Idle, SlotIds, S!SlotIds,
   updateVars, S!updateVars

\* It is UseSequence0.
LEMMA LeavesSeen ==
    ASSUME CtxInv, SoloInv, LeavesText, OnlyText(mem)
    PROVE  S!Next
<1>1. PICK text \in AllTexts : Held(mem', 0) = Run(0, text)
  BY DEF LeavesText, OnlyText, ZeroText
<1>2. text \in Seq(Token)
  BY AllTextsAre
<1>3. mem' = NewCells(0, 0, text)
  <2>1. mem' \subseteq Cell /\ \A c \in mem' : c.seqs = {0}
    BY DEF LeavesText, OnlyText
  <2> QED
    BY <1>1, <1>2, <2>1, TextIsCells
<1>4. SeqRm(mem, 0, 0) = {}
  <2>1. \A c \in mem : c.seqs = {0} /\ c.pos >= 0
    BY DEF OnlyText, Cell
  <2>2. {c \in CellsOf(mem, 0) : c.pos >= 0} = mem
    BY <2>1 DEF CellsOf
  <2>3. {d \in mem : d.seqs # {0}} = {}
    BY <2>1
  <2> QED
    BY <2>2, <2>3 DEF SeqRm
<1>5. HasRoom(SeqRm(mem, 0, 0), NewCells(0, 0, text))
  BY <1>4, RoomForText
<1>6. mem' = SeqRm(mem, 0, 0) \cup NewCells(0, 0, text)
  BY <1>3, <1>4
<1>7. UseSequence0(text)
  BY <1>5, <1>6 DEF UseSequence0, LeavesText, SlotsUntouched, CtxInv, Apart
<1>8. S!UseSequence0(text)
  BY <1>7, UseSeen
<1> QED
  BY <1>8 DEF S!Next, S!HostCall

\* SoloInv is kept by it.
LEMMA LeavesSolo ==
    ASSUME CtxInv, SoloInv, LeavesText, OnlyText(saved'.mem)
    PROVE  SoloInv'
<1>1. queue' = <<>> /\ slots' = slots /\ system' = <<>> /\ system_seq' = -1 /\ Busy' = {}
  BY DEF LeavesText, SlotsUntouched, slots_active, SoloInv, Busy, Idle
<1>2. SoloCells' /\ ZeroText(mem')
  BY DEF LeavesText, OnlyText, SoloCells
<1>3. \A s \in SlotIds : Idle(s)' => ~slots'[s].generating
  BY <1>1 DEF SoloInv, Idle
<1> QED
  BY <1>1, <1>2, <1>3 DEF SoloInv

-----------------------------------------------------------------------------
(* Each of them leaves a text. *)

\* A call that leaves the cache and the blob as they were.
LEMMA SameLeaves ==
    ASSUME CtxInv, SoloInv, Free \/ gen.pc # "none", SlotsUntouched, mem' = mem,
           hist_valid' \in BOOLEAN, saved' = saved
    PROVE  LeavesText /\ OnlyText(saved'.mem)
BY QuietHost DEF LeavesText, SoloInv

\* A call that decodes the text from the cache's end on.
LEMMA AppendLeaves ==
    ASSUME CtxInv, SoloInv, Free \/ gen.pc # "none", SlotsUntouched,
           NEW toks \in Seq(Token), Fits(mem, toks), mem' = Appended(mem, toks),
           hist_valid' \in BOOLEAN, saved' = saved
    PROVE  LeavesText /\ OnlyText(saved'.mem)
<1>1. phase = "host" /\ ~slots_active /\ OnlyText(mem)
  BY QuietHost
<1>2. OnlyText(Appended(mem, toks))
  BY <1>1, OnlyAppended, GenFacts
<1> QED
  BY <1>1, <1>2 DEF LeavesText, SoloInv

\* A call that decodes the text into an empty cache.
LEMMA ScratchLeaves ==
    ASSUME CtxInv, SoloInv, Free, SlotsUntouched,
           NEW toks \in Seq(Token), Fits({}, toks), mem' = Appended({}, toks),
           hist_valid' \in BOOLEAN, saved' = saved
    PROVE  LeavesText /\ OnlyText(saved'.mem)
<1>1. phase = "host" /\ ~slots_active
  BY QuietHost
<1>2. OnlyText(Appended({}, toks))
  BY OnlyNothing, BoundedNothing, OnlyAppended
<1> QED
  BY <1>1, <1>2 DEF LeavesText, SoloInv

\* What an action that leaves the slots' variables alone leaves.
LEMMA VarsLeave ==
    ASSUME UNCHANGED vars
    PROVE  SlotsUntouched /\ mem' = mem /\ hist_valid' = hist_valid
BY DEF vars, stateVars, SlotsUntouched

\* generate starts by cutting the text, or dropping it.
LEMMA GenerateLeaves ==
    ASSUME CtxInv, SoloInv, NEW prompt \in GenPrompt, NEW n \in GenPredict,
           NEW cache_prompt \in BOOLEAN, Generate(prompt, n, cache_prompt)
    PROVE  LeavesText /\ OnlyText(saved'.mem)
<1> DEFINE keep == IF cache_prompt THEN KeepOf(prompt) ELSE 0
<1>1. /\ Free /\ SlotsUntouched /\ UNCHANGED saved
      /\ mem' = IF cache_prompt THEN Trimmed(keep) ELSE mem
      /\ hist_valid' = (cache_prompt \/ hist_valid)
  BY DEF Generate
<1>2. hist_valid' \in BOOLEAN
  BY <1>1, GenFacts
<1>3. keep \in Nat
  <2>1. prompt \in Seq(Token) \ {<<>>}
    BY ContextAssumption
  <2>2. KeepOf(prompt) \in 0 .. Len(hist) /\ Len(hist) \in Nat
    BY <2>1, GenFacts, KeepType, LenProperties
  <2> QED
    BY <2>2
<1> HIDE DEF keep
<1>4. phase = "host" /\ ~slots_active /\ OnlyText(mem)
  BY <1>1, QuietHost
<1>5. OnlyText(mem')
  BY <1>1, <1>3, <1>4, OnlyCut, OnlyNothing DEF Trimmed
<1> QED
  BY <1>1, <1>2, <1>4, <1>5 DEF LeavesText, SoloInv

\* Its decodes append to the text or leave it.
LEMMA DecodesLeave ==
    ASSUME CtxInv, SoloInv, gen.pc # "none", SlotsUntouched, NEW toks \in Seq(Token),
           Decodes(toks) \/ DecodeRefused(toks), UNCHANGED <<hist_valid, saved>>
    PROVE  LeavesText /\ OnlyText(saved'.mem)
<1>1. hist_valid' \in BOOLEAN
  BY GenFacts
<1>2. CASE Decodes(toks)
  BY <1>1, <1>2, AppendLeaves DEF Decodes
<1>3. CASE DecodeRefused(toks)
  BY <1>1, <1>3, SameLeaves DEF DecodeRefused
<1> QED
  BY <1>2, <1>3

\* Every step of a generate leaves a text.
LEMMA GenStepLeaves ==
    ASSUME CtxInv, SoloInv, RaiseInterrupt \/ GenerateStep
    PROVE  LeavesText /\ OnlyText(saved'.mem)
<1>1. ASSUME gen.pc # "none", UNCHANGED vars, saved' = saved
      PROVE  LeavesText /\ OnlyText(saved'.mem)
  BY <1>1, VarsLeave, SameLeaves, GenFacts
<1>2. CASE RaiseInterrupt \/ CheckPrompt \/ GenEos \/ CheckToken
  BY <1>1, <1>2 DEF RaiseInterrupt, CheckPrompt, GenEos, CheckToken
<1>3. CASE \E tok \in Sampled, stopped \in BOOLEAN : GenToken(tok, stopped)
  BY <1>1, <1>3 DEF GenToken
<1>4. CASE DecodePrompt
  <2>1. Piece(gen.prompt, gen.off) \in Seq(Token)
    BY GenFacts, PieceType
  <2> QED
    BY <1>4, <2>1, DecodesLeave DEF DecodePrompt
<1>5. CASE DecodeToken
  <2>1. gen.produced # <<>>
    BY <1>5 DEF DecodeToken, CtxInv, Shaped
  <2>2. <<gen.produced[Len(gen.produced)]>> \in Seq(Token)
    BY <2>1, LastToken
  <2> QED
    BY <1>5, <2>2, DecodesLeave DEF DecodeToken
<1> QED
  BY <1>2, <1>3, <1>4, <1>5 DEF GenerateStep

\* eval leaves a text, of which its own may be there in part.
LEMMA EvalLeaves ==
    ASSUME CtxInv, SoloInv, NEW text \in EvalText, Eval(text)
    PROVE  LeavesText /\ OnlyText(saved'.mem)
<1>1. PICK k \in Decodable(mem, text) : mem' = Appended(mem, SubSeq(text, 1, k))
  BY DEF Eval
<1>2. SubSeq(text, 1, k) \in Seq(Token) /\ Fits(mem, SubSeq(text, 1, k))
  BY DecodableType, ContextAssumption DEF Decodable
<1>3. Free /\ SlotsUntouched /\ hist_valid' \in BOOLEAN /\ saved' = saved
  BY GenFacts DEF Eval
<1> QED
  BY <1>1, <1>2, <1>3, AppendLeaves

\* score leaves what it scored.
LEMMA ScoreLeaves ==
    ASSUME CtxInv, SoloInv, NEW text \in ScoreText, Score(text)
    PROVE  LeavesText /\ OnlyText(saved'.mem)
<1>1. PICK k \in Decodable({}, text) : mem' = Appended({}, SubSeq(text, 1, k))
  BY DEF Score
<1>2. SubSeq(text, 1, k) \in Seq(Token) /\ Fits({}, SubSeq(text, 1, k))
  BY DecodableType, ContextAssumption DEF Decodable
<1>3. Free /\ SlotsUntouched /\ hist_valid' \in BOOLEAN /\ saved' = saved
  BY DEF Score, Forget
<1> QED
  BY <1>1, <1>2, <1>3, ScratchLeaves

\* embed leaves its text, or nothing.
LEMMA EmbedLeaves ==
    ASSUME CtxInv, SoloInv, NEW text \in EmbedText, Embed(text)
    PROVE  LeavesText /\ OnlyText(saved'.mem)
<1>1. Free /\ SlotsUntouched /\ hist_valid' \in BOOLEAN /\ saved' = saved
  BY DEF Embed, Forget
<1>2. text \in Seq(Token)
  BY ContextAssumption
<1>3. CASE mem' = {}
  BY <1>1, <1>3, QuietHost, OnlyNothing DEF LeavesText, SoloInv
<1>4. CASE mem' = Appended({}, text) /\ Fits({}, text)
  BY <1>1, <1>2, <1>4, ScratchLeaves
<1> QED
  BY <1>3, <1>4 DEF Embed

\* score_choices leaves the stem, with or without its last token.
LEMMA ChoicesLeave ==
    ASSUME CtxInv, SoloInv, (\E n \in 0 .. MaxChoices : ScoreChoices(n)) \/ ScoreChoicesFails
    PROVE  LeavesText /\ OnlyText(saved'.mem)
<1>1. Free /\ SlotsUntouched /\ hist_valid' \in BOOLEAN /\ saved' = saved
  BY GenFacts DEF ScoreChoices, ScoreChoicesFails
<1>2. phase = "host" /\ ~slots_active /\ OnlyText(mem)
  BY <1>1, QuietHost
<1>3. ASSUME NEW n \in 0 .. MaxChoices, ScoreChoices(n)
      PROVE  mem' = mem
  <2> DEFINE spare == {s \in SeqIds : 1 <= s /\ s <= n}
  <2>1. 0 \notin spare
    OBVIOUS
  <2>2. mem' = WithoutSequences(mem, spare)
    BY <1>3 DEF ScoreChoices
  <2> HIDE DEF spare
  <2>3. \A c \in mem : /\ ~(c.seqs \subseteq spare) /\ c.seqs \ spare = c.seqs
                       /\ [c EXCEPT !.seqs = c.seqs] = c
    BY <1>2, <2>1 DEF OnlyText, Cell
  <2>4. {d \in mem : ~(d.seqs \subseteq spare)} = mem
    BY <2>3
  <2>5. WithoutSequences(mem, spare) = {[c EXCEPT !.seqs = @ \ spare] : c \in mem}
    BY <2>4, Zenon DEF WithoutSequences
  <2>6. \A c \in mem : [c EXCEPT !.seqs = @ \ spare] = c
    BY <2>3
  <2> QED
    BY <2>2, <2>5, <2>6
<1>4. CASE ScoreChoicesFails
  <2>1. mem' = SeqRm(mem, 0, EndOf(mem) - 1) /\ CellsOf(mem, 0) # {}
    BY <1>4 DEF ScoreChoicesFails
  <2>2. \A c \in CellsOf(mem, 0) : c.pos \in Nat /\ c.pos < EndOf(mem)
    BY GenFacts, EndOfType DEF CellsOf, Cell
  <2>3. EndOf(mem) \in Nat
    BY GenFacts, EndOfType
  <2>4. EndOf(mem) - 1 \in Nat
    BY <2>1, <2>2, <2>3
  <2>5. OnlyText(mem')
    BY <1>2, <2>1, <2>4, OnlyCut
  <2> QED
    BY <1>1, <1>2, <2>5 DEF LeavesText, SoloInv
<1> QED
  BY <1>1, <1>3, <1>4, SameLeaves

\* state_load leaves the text that was saved.
LEMMA StateLeaves ==
    ASSUME CtxInv, SoloInv,
           StateSave \/ (\E bare \in BOOLEAN : StateLoad(bare)) \/ StateRejected
    PROVE  LeavesText /\ OnlyText(saved'.mem)
<1>1. Free
  BY DEF StateSave, StateLoad, StateRejected
<1>2. phase = "host" /\ ~slots_active /\ OnlyText(mem)
  BY <1>1, QuietHost
<1>3. CASE StateSave
  <2>1. saved'.mem = mem /\ UNCHANGED vars
    BY <1>3 DEF StateSave
  <2> QED
    BY <1>2, <2>1, VarsLeave, GenFacts DEF LeavesText
<1>4. ASSUME NEW bare \in BOOLEAN, StateLoad(bare)
      PROVE  LeavesText /\ OnlyText(saved'.mem)
  <2>1. /\ mem' = saved.mem /\ saved' = saved /\ SlotsUntouched
        /\ hist_valid' = (saved.valid /\ ~bare)
    BY <1>4 DEF StateLoad
  <2>2. hist_valid' \in BOOLEAN
    BY <2>1 DEF CtxInv, CtxTypeOK
  <2> QED
    BY <1>2, <2>1, <2>2 DEF LeavesText, SoloInv
<1>5. CASE StateRejected
  BY <1>2, <1>5, OnlyNothing, GenFacts DEF StateRejected, LeavesText, SoloInv
<1> QED
  BY <1>3, <1>4, <1>5

\* Every single-sequence call but lora_set leaves a text.
LEMMA CallLeaves ==
    ASSUME SpecLeft = {}, CtxInv, SoloInv, SingleCall, ~ContextLoraSet
    PROVE  LeavesText /\ OnlyText(saved'.mem)
<1>1. CASE \E prompt \in GenPrompt, n \in GenPredict, c \in BOOLEAN : Generate(prompt, n, c)
  BY <1>1, GenerateLeaves
<1>2. CASE RaiseInterrupt \/ GenerateStep
  BY <1>2, GenStepLeaves
<1>3. CASE \/ \E text \in EvalText : Eval(text)
           \/ \E text \in ScoreText : Score(text)
           \/ \E text \in EmbedText : Embed(text)
  BY <1>3, EvalLeaves, ScoreLeaves, EmbedLeaves
<1>4. CASE (\E n \in 0 .. MaxChoices : ScoreChoices(n)) \/ ScoreChoicesFails
  BY <1>4, ChoicesLeave
<1>5. CASE StateSave \/ (\E bare \in BOOLEAN : StateLoad(bare)) \/ StateRejected
  BY <1>5, StateLeaves
<1> QED
  BY <1>1, <1>2, <1>3, <1>4, <1>5 DEF SingleCall

-----------------------------------------------------------------------------
(* The refinement. *)

\* A new context is empty.
LEMMA InitSolo == CtxInit => SoloInv
<1> SUFFICES ASSUME CtxInit PROVE SoloInv
  OBVIOUS
<1>1. mem = {} /\ queue = <<>> /\ system = <<>> /\ system_seq = -1 /\ saved.mem = {}
  BY DEF CtxInit, Init, NoBlob
<1>2. \A s \in SlotIds : ~slots[s].generating
  BY DEF CtxInit, Init, IdleSlot
<1>3. SoloCells /\ ZeroText(mem) /\ OnlyText(saved.mem)
  BY <1>1, OnlyNothing DEF SoloCells, OnlyText
<1> QED
  BY <1>1, <1>2, <1>3 DEF SoloInv

\* SoloInv is kept by reset.
LEMMA ResetSolo ==
    ASSUME SoloInv, ContextReset
    PROVE  SoloInv'
<1>1. /\ mem' = {} /\ queue' = <<>> /\ system' = <<>> /\ system_seq' = -1
      /\ slots' = [s \in SlotIds |-> IdleSlot] /\ saved' = saved
  BY DEF ContextReset, Reset
<1>2. \A s \in SlotIds : ~slots'[s].generating
  BY <1>1 DEF IdleSlot
<1>3. SoloCells' /\ ZeroText(mem')
  BY <1>1, OnlyNothing DEF SoloCells, OnlyText
<1> QED
  BY <1>1, <1>2, <1>3 DEF SoloInv

\* SoloInv is kept by lora_set.
LEMMA LoraSolo ==
    ASSUME SoloInv, ContextLoraSet
    PROVE  SoloInv'
<1>1. UNCHANGED <<mem, queue, slots, system, system_seq, gen, saved>>
  BY DEF ContextLoraSet, LoraSet
<1> QED
  BY <1>1 DEF SoloInv, SoloCells, Busy, Idle

\* Every step keeps SoloInv and is a step of the instance, or none.
LEMMA NextSolo ==
    ASSUME SystemPrompt = {}, SpecLeft = {}
    PROVE  CtxInv /\ SoloInv /\ [CtxNext]_<<vars, ctxVars>> => SoloInv' /\ [S!Next]_(S!vars)
<1> SUFFICES ASSUME CtxInv, SoloInv, [CtxNext]_<<vars, ctxVars>>
             PROVE  SoloInv' /\ [S!Next]_(S!vars)
  OBVIOUS
<1>1. CASE SlotsCall
  <2>1. SoloInv'
    BY <1>1, SlotsCallSolo DEF CtxInv
  <2>2. S!Next
    BY <1>1, SlotsCallSeen
  <2> QED
    BY <2>1, <2>2
<1>2. CASE ContextReset
  <2>1. S!Next
    BY <1>2, ResetSeen DEF ContextReset, S!Next, S!HostCall
  <2> QED
    BY <1>2, <2>1, ResetSolo
<1>3. CASE ContextLoraSet
  <2>1. S!Next
    BY <1>3, LoraSetSeen DEF ContextLoraSet, S!Next, S!HostCall
  <2> QED
    BY <1>3, <2>1, LoraSolo
<1>4. CASE SingleCall /\ ~ContextLoraSet
  <2>1. LeavesText /\ OnlyText(saved'.mem)
    BY <1>4, CallLeaves
  <2>2. OnlyText(mem)
    <3>1. Free \/ gen.pc # "none"
      BY <1>4 DEF SingleCall, Generate, RaiseInterrupt, GenerateStep, CheckPrompt, DecodePrompt,
         GenEos, GenToken, CheckToken, DecodeToken, Eval, Score, Embed, ScoreChoices,
         ScoreChoicesFails, Speculative, StateSave, StateLoad, StateRejected
    <3> QED
      BY <3>1, QuietHost
  <2>3. SoloInv'
    BY <2>1, LeavesSolo
  <2>4. S!Next
    BY <2>1, <2>2, LeavesSeen
  <2> QED
    BY <2>3, <2>4
<1>5. CASE UNCHANGED <<vars, ctxVars>>
  <2>1. UNCHANGED vars /\ UNCHANGED ctxVars
    BY <1>5
  <2>2. UNCHANGED <<mem, queue, slots, system, system_seq, gen, saved>>
    BY <2>1 DEF vars, stateVars, ctxVars
  <2>3. SoloInv'
    BY <2>2 DEF SoloInv, SoloCells, Busy, Idle
  <2>4. UNCHANGED S!vars
    BY <2>1, VarsSeen
  <2> QED
    BY <2>3, <2>4
<1> QED
  BY <1>1, <1>2, <1>3, <1>4, <1>5 DEF CtxNext

(* The context implements the slots: a host that sets no system prompt and  *)
(* runs no speculative decoding may mix the single-sequence calls with the  *)
(* tasks of the slots in any order, and to the slots each of them is one    *)
(* atomic use of sequence 0 between two batches. (With either of the two    *)
(* calls it is not so: they drop cells that slots own, see the README.)     *)
THEOREM ContextImplementsSlots ==
    ASSUME SystemPrompt = {}, SpecLeft = {}
    PROVE  CtxSpec => SlotsSeeSequence0
<1>1. CtxInit => CtxInv /\ SoloInv /\ S!Init
  BY InitInv, InitSolo, InitSeen
<1>2. CtxInv /\ SoloInv /\ [CtxNext]_<<vars, ctxVars>>
          => (CtxInv /\ SoloInv)' /\ [S!Next]_(S!vars)
  BY NextCtxInv, NextSolo
<1> QED
  BY <1>1, <1>2, PTL DEF CtxSpec, SlotsSeeSequence0, S!Spec
=============================================================================
