-------------------------- MODULE FlashAttnProofs --------------------------
(***************************************************************************)
(* The attention kernels, for every value of the constants of FlashAttn:   *)
(* any calls, any size of block, any memory.                               *)
(***************************************************************************)
EXTENDS FlashAttn, NaturalsInduction, WellFoundedInduction, TLAPS

Loops == {"convert", "pos", "block", "fast", "exact", "advance"}
InBlock == {"fast", "exact", "advance"}

\* Where the loops are: the pointers move together, and what is left of the
\* call is what lies before its end.
Places ==
    /\ kernel \in Kernels /\ call \in Calls
    /\ pc \in Loops \cup {"prologue", "convertout", "done", "ret", "trap"}
    /\ rows.k \in Nat /\ rows.k >= call.start
    /\ rows.v = rows.k /\ (call.mask # 0 => rows.m = rows.k)
    /\ pc \in Loops \cup {"convertout", "done"} => PointersFit
    /\ pc \in Loops => RowsFit /\ rows.k < call.end /\ left = call.end - rows.k
    /\ pc \in InBlock => n \in 1 .. left /\ n <= Block
    /\ pc = "exact" => i \in 0 .. n - 1
    /\ pc = "prologue" => rows.k = call.start

-----------------------------------------------------------------------------
(* Numbers. *)

LEMMA LeastElement ==
    ASSUME NEW S, S \subseteq Nat, S # {}
    PROVE  \E x \in S : \A y \in S : x <= y
<1>1. PICK x \in S : \A y \in S : ~ (<<y, x>> \in OpToRel(<, Nat))
  BY NatLessThanWellFounded, WFMin, Zenon
<1>2. \A y \in S : ~(y < x)
  BY <1>1 DEF OpToRel
<1> QED
  BY <1>2

LEMMA UpTo ==
    ASSUME NEW k \in Nat, NEW S, 0 \in S,
           \A j \in S : j \in 0 .. k - 1 => j + 1 \in S
    PROVE  0 .. k \subseteq S
<1> DEFINE T == {j \in 0 .. k : j \notin S}
<1>1. SUFFICES ASSUME T # {} PROVE FALSE
  OBVIOUS
<1>2. PICK x \in T : \A y \in T : x <= y
  <2>1. T \subseteq Nat
    OBVIOUS
  <2> QED
    BY <1>1, <2>1, LeastElement, Zenon
<1>3. x # 0 /\ x \in 0 .. k
  BY <1>2
<1>4. x - 1 \in 0 .. k - 1 /\ x - 1 \notin T
  BY <1>2, <1>3
<1>5. x - 1 \in S
  BY <1>4
<1>6. (x - 1) + 1 \in S
  BY <1>4, <1>5
<1> QED
  BY <1>2, <1>3, <1>6

LEMMA Products ==
    ASSUME NEW a \in Nat, NEW b \in Nat, NEW c \in Nat, a <= b
    PROVE  a * c \in Nat /\ b * c \in Nat /\ a * c <= b * c
<1> DEFINE d == b - a
<1>1. d \in Nat /\ b = a + d
  OBVIOUS
<1>2. a * c \in Nat /\ d * c \in Nat /\ b * c \in Nat
  BY <1>1
<1>3. b * c = a * c + d * c
  BY <1>1
<1> QED
  BY <1>2, <1>3

-----------------------------------------------------------------------------
(* Memory. *)

LEMMA CallTypes ==
    ASSUME NEW c \in Calls
    PROVE  /\ c.l0 \in Nat /\ c.Q \in Nat /\ c.K \in Nat /\ c.nbk \in Nat
           /\ c.V \in Nat /\ c.nbv \in Nat /\ c.mask \in Nat
           /\ c.SM \in Nat /\ c.VKQ \in Nat
           /\ c.DK \in Nat /\ c.DV \in Nat /\ c.start \in Nat /\ c.end \in Nat
           /\ c.M \in Int
BY CallsAssumption

Safe(t) == 0 <= t.from /\ t.to <= Size

LEMMA RowSize ==
    ASSUME NEW d \in Nat
    PROVE  RowBytes(d) \in Nat /\ RowBytes(d) <= 2 * d
BY DEF RowBytes

LEMMA RowsAreSafe ==
    ASSUME call \in Calls, RowsFit, NEW p \in Nat, p < call.end
    PROVE  /\ Safe(KRow(p)) /\ Safe(VRow(p))
           /\ call.mask # 0 => Safe(MaskAt(p))
<1>1. /\ call.K \in Nat /\ call.nbk \in Nat /\ call.V \in Nat /\ call.nbv \in Nat
      /\ call.DK \in Nat /\ call.DV \in Nat /\ call.end \in Nat /\ call.mask \in Nat
  BY CallTypes
<1>2. /\ p * call.nbk \in Nat /\ (call.end - 1) * call.nbk \in Nat
      /\ p * call.nbk <= (call.end - 1) * call.nbk
  BY <1>1, Products
<1>3. /\ p * call.nbv \in Nat /\ (call.end - 1) * call.nbv \in Nat
      /\ p * call.nbv <= (call.end - 1) * call.nbv
  BY <1>1, Products
<1>4. /\ RowBytes(call.DK) \in Nat /\ RowBytes(call.DK) <= 2 * call.DK
      /\ RowBytes(call.DV) \in Nat /\ RowBytes(call.DV) <= 2 * call.DV
  BY <1>1, RowSize
<1>5. Safe(KRow(p))
  BY <1>1, <1>2, <1>4, SizeAssumption DEF Safe, KRow, Range, RowsFit, Fits
<1>6. Safe(VRow(p))
  BY <1>1, <1>3, <1>4, SizeAssumption DEF Safe, VRow, Range, RowsFit, Fits
<1>7. call.mask # 0 => Safe(MaskAt(p))
  BY <1>1, SizeAssumption DEF Safe, MaskAt, Range, RowsFit, Fits
<1> QED
  BY <1>5, <1>6, <1>7

LEMMA PointersAreSafe ==
    ASSUME call \in Calls, PointersFit
    PROVE  Safe(SM) /\ Safe(QRow) /\ Safe(VKQRow)
<1>1. /\ call.SM \in Nat /\ call.Q \in Nat /\ call.VKQ \in Nat
      /\ call.DK \in Nat /\ call.DV \in Nat
  BY CallTypes
<1>2. RowBytes(call.DK) \in Nat /\ RowBytes(call.DK) <= 2 * call.DK
  BY <1>1, RowSize
<1> QED
  BY <1>1, <1>2, SizeAssumption DEF Safe, SM, QRow, VKQRow, Range, PointersFit, Fits

-----------------------------------------------------------------------------
(* The loops stay in the call. *)

LEMMA InitPlaces == Init => Places
<1> SUFFICES ASSUME Init PROVE Places
  OBVIOUS
<1>1. call.start \in Nat
  BY CallTypes DEF Init
<1> QED
  BY <1>1 DEF Init, Places, Loops, InBlock

LEMMA BlockSizes ==
    ASSUME Places, pc = "block"
    PROVE  BlockSize \in 1 .. left /\ BlockSize <= Block
<1>1. left \in Nat /\ left >= 1
  BY CallTypes DEF Places, Loops
<1> QED
  BY <1>1, BlockAssumption DEF BlockSize

LEMMA SameMemory ==
    ASSUME UNCHANGED call
    PROVE  (PointersFit' <=> PointersFit) /\ (RowsFit' <=> RowsFit)
BY DEF PointersFit, RowsFit, Fits

LEMMA PlacesPrologue == Places /\ (prologue \/ x64Prologue) => Places'
<1> SUFFICES ASSUME Places, NEW empty \in {"done", "ret"},
                    NEW first \in {"convert", "pos", "block"}, Enter(empty, first)
             PROVE  Places'
  BY DEF prologue, x64Prologue
<1>1. pc = "prologue" /\ UNCHANGED <<kernel, call, rows>> /\ left' = call.end - call.start
  BY DEF Enter
<1>2. call.start \in Nat /\ call.end \in Nat /\ rows.k = call.start
  BY <1>1, CallTypes DEF Places
<1>3. (PointersFit' <=> PointersFit) /\ (RowsFit' <=> RowsFit)
  BY <1>1, SameMemory
<1>4. \/ pc' = "trap"
      \/ PointersFit /\ pc' = empty
      \/ PointersFit /\ RowsFit /\ call.end > call.start /\ pc' = first
  BY <1>2 DEF Enter
<1>5. CASE pc' = "trap"
  BY <1>1, <1>5 DEF Places, Loops, InBlock
<1>6. CASE PointersFit /\ pc' = empty
  BY <1>1, <1>3, <1>6 DEF Places, Loops, InBlock
<1>7. CASE PointersFit /\ RowsFit /\ call.end > call.start /\ pc' = first
  BY <1>1, <1>2, <1>3, <1>7 DEF Places, Loops, InBlock
<1> QED
  BY <1>4, <1>5, <1>6, <1>7

\* A step that leaves the pointers where they are.
Stays == UNCHANGED <<kernel, call, rows>>

LEMMA PlacesStays ==
    ASSUME Places, Stays,
           pc' \in {"block", "convertout", "done", "ret"} \cup InBlock,
           pc \in Loops \cup {"convertout", "done"},
           pc' \in Loops => pc \in Loops /\ UNCHANGED left,
           pc' \in InBlock => n' \in 1 .. left /\ n' <= Block,
           pc' = "exact" => i' \in 0 .. n' - 1
    PROVE  Places'
<1>1. (PointersFit' <=> PointersFit) /\ (RowsFit' <=> RowsFit)
  BY SameMemory DEF Stays
<1> QED
  BY <1>1 DEF Stays, Places, Loops, InBlock

LEMMA PlacesAdvance ==
    ASSUME Places, NEW by \in Nat, by \in 1 .. left, Advance(by), pc \in Loops,
           UNCHANGED <<kernel, call>>,
           NEW again \in {"pos", "block"}, NEW last \in {"done", "convertout"},
           pc' = IF left' = 0 THEN last ELSE again
    PROVE  Places'
<1>1. (PointersFit' <=> PointersFit) /\ (RowsFit' <=> RowsFit)
  BY SameMemory
<1>2. call.start \in Nat /\ call.end \in Nat
  BY CallTypes DEF Places
<1>3. left \in Nat /\ left = call.end - rows.k
  BY <1>2 DEF Places, Loops
<1>4. rows'.k = rows.k + by /\ rows'.v = rows.v + by /\ (call.mask # 0 => rows'.m = rows.m + by)
  BY DEF Advance
<1>5. left' = left - by
  BY DEF Advance
<1> QED
  BY <1>1, <1>2, <1>3, <1>4, <1>5 DEF Places, Loops, InBlock

LEMMA PlacesStep ==
    ASSUME Places, NEW M, BlockScores(M)
    PROVE  Places'
<1>1. /\ Stays /\ UNCHANGED left /\ pc = "block" /\ n' = BlockSize /\ i' = 0
      /\ pc' \in InBlock
  BY DEF BlockScores, Stays, InBlock
<1>2. n' \in 1 .. left /\ n' <= Block
  BY <1>1, BlockSizes
<1>3. i' \in 0 .. n' - 1
  BY <1>1, <1>2
<1> QED
  BY <1>1, <1>2, <1>3, PlacesStays DEF Loops

LEMMA PlacesLane ==
    ASSUME Places, pc = "exact", NextLane
    PROVE  Places'
<1>1. Stays /\ UNCHANGED <<left, n>> /\ i' = i + 1 /\ pc' = IF i' < n THEN "exact" ELSE "advance"
  BY DEF NextLane, Stays
<1>2. n \in 1 .. left /\ n <= Block /\ i \in 0 .. n - 1
  BY DEF Places, InBlock
<1>3. n \in Int
  BY <1>2
<1>4. pc' = "exact" => i' \in 0 .. n' - 1
  BY <1>1, <1>2, <1>3
<1>5. n' \in 1 .. left /\ n' <= Block
  BY <1>1, <1>2
<1>6. pc' \in InBlock /\ pc \in Loops /\ UNCHANGED left
  BY <1>1 DEF InBlock, Loops
<1> QED
  BY <1>1, <1>4, <1>5, <1>6, PlacesStays

LEMMA NextPlaces == Places /\ [Next]_vars => Places'
<1> SUFFICES ASSUME Places, [Next]_vars PROVE Places'
  OBVIOUS
<1>1. CASE prologue \/ x64Prologue
  BY <1>1, PlacesPrologue
<1>2. CASE perPositionLoop
  <2>1. /\ Advance(1) /\ pc = "pos" /\ UNCHANGED <<kernel, call>>
        /\ pc' = IF left' = 0 THEN "done" ELSE "pos"
    BY <1>2 DEF perPositionLoop
  <2>2. 1 \in 1 .. left
    BY <2>1, CallTypes DEF Places, Loops
  <2> QED
    BY <2>1, <2>2, PlacesAdvance DEF Loops
<1>3. CASE epilogue
  <2>1. pc = "done" /\ pc' = "ret" /\ Stays
    BY <1>3 DEF epilogue, Stays
  <2> QED
    BY <2>1, PlacesStays DEF Loops, InBlock
<1>4. CASE fhmConvertIn
  <2>1. pc = "convert" /\ pc' = "block" /\ Stays /\ UNCHANGED left
    BY <1>4 DEF fhmConvertIn, Stays
  <2> QED
    BY <2>1, PlacesStays DEF Loops, InBlock
<1>5. CASE fhmBlock \/ x64Block
  BY <1>5, PlacesStep DEF fhmBlock, x64Block
<1>6. CASE fhmFast \/ x64Fast
  <2>1. pc = "fast" /\ pc' = "advance" /\ Stays /\ UNCHANGED <<left, n>>
    BY <1>6 DEF fhmFast, x64Fast, Stays
  <2>2. n' \in 1 .. left /\ n' <= Block
    BY <2>1 DEF Places, InBlock
  <2> QED
    BY <2>1, <2>2, PlacesStays DEF Loops, InBlock
<1>7. CASE fhmExact \/ x64Exact
  BY <1>7, PlacesLane DEF fhmExact, x64Exact
<1>8. CASE fhmAdvance \/ x64Advance
  <2>1. PICK last \in {"done", "convertout"} : NextBlock(last)
    BY <1>8 DEF fhmAdvance, x64Advance
  <2>2. /\ Advance(n) /\ pc = "advance" /\ UNCHANGED <<kernel, call>>
        /\ pc' = IF left' = 0 THEN last ELSE "block"
    BY <2>1 DEF NextBlock
  <2>3. n \in Nat /\ n \in 1 .. left
    BY <2>2 DEF Places, InBlock
  <2> QED
    BY <2>2, <2>3, PlacesAdvance DEF Loops
<1>9. CASE fhmConvertOut
  <2>1. pc = "convertout" /\ pc' = "done" /\ Stays
    BY <1>9 DEF fhmConvertOut, Stays
  <2> QED
    BY <2>1, PlacesStays DEF Loops, InBlock
<1>10. CASE UNCHANGED vars
  <2>1. UNCHANGED <<kernel, call, rows, pc, left, n, i>>
    BY <1>10 DEF vars
  <2>2. (PointersFit' <=> PointersFit) /\ (RowsFit' <=> RowsFit)
    BY <2>1, SameMemory
  <2> QED
    BY <2>1, <2>2 DEF Places
<1> QED
  BY <1>1, <1>2, <1>3, <1>4, <1>5, <1>6, <1>7, <1>8, <1>9, <1>10 DEF Next

-----------------------------------------------------------------------------
(* What a step touches. *)

LEMMA ScoresAreSafe ==
    ASSUME Places, pc = "block"
    PROVE  \A t \in ScoreRanges(BlockSize) : Safe(t)
<1>1. PointersFit /\ RowsFit /\ call \in Calls
  BY DEF Places, Loops
<1>2. BlockSize \in 1 .. left
  BY BlockSizes
<1>3. ASSUME NEW l \in 0 .. BlockSize - 1
      PROVE  /\ rows.k + l \in Nat /\ rows.k + l < call.end
             /\ call.mask # 0 => rows.m + l = rows.k + l
  BY <1>2, CallTypes DEF Places, Loops
<1>4. ASSUME NEW l \in 0 .. BlockSize - 1
      PROVE  Safe(KRow(rows.k + l)) /\ (call.mask # 0 => Safe(MaskAt(rows.m + l)))
  <2>1. /\ Safe(KRow(rows.k + l))
        /\ call.mask # 0 => Safe(MaskAt(rows.k + l))
    BY <1>1, <1>3, RowsAreSafe
  <2> QED
    BY <1>3, <2>1, Zenon
<1>5. Safe(QRow)
  BY <1>1, PointersAreSafe
<1> QED
  BY <1>4, <1>5 DEF ScoreRanges

LEMMA VRowsAreSafe ==
    ASSUME Places, pc \in {"fast", "exact"}
    PROVE  /\ \A t \in VRows : Safe(t)
           /\ pc = "exact" => Safe(VRow(rows.v + i))
<1>1. RowsFit /\ call \in Calls /\ n \in 1 .. left
  BY DEF Places, Loops, InBlock
<1>2. ASSUME NEW l \in 0 .. n - 1
      PROVE  rows.v + l \in Nat /\ rows.v + l < call.end
  BY <1>1, CallTypes DEF Places, Loops
<1>3. ASSUME NEW l \in 0 .. n - 1
      PROVE  Safe(VRow(rows.v + l))
  BY <1>1, <1>2, RowsAreSafe
<1>4. pc = "exact" => i \in 0 .. n - 1
  BY DEF Places
<1> QED
  BY <1>3, <1>4 DEF VRows

LEMMA PositionIsSafe ==
    ASSUME Places, pc = "pos"
    PROVE  /\ Safe(KRow(rows.k)) /\ Safe(VRow(rows.v))
           /\ call.mask # 0 => Safe(MaskAt(rows.m))
<1>1. /\ RowsFit /\ call \in Calls /\ rows.k \in Nat /\ rows.k < call.end
      /\ rows.v = rows.k /\ (call.mask # 0 => rows.m = rows.k)
  BY DEF Places, Loops
<1>2. /\ Safe(KRow(rows.k)) /\ Safe(VRow(rows.k))
      /\ call.mask # 0 => Safe(MaskAt(rows.k))
  BY <1>1, RowsAreSafe
<1> QED
  BY <1>1, <1>2, Zenon

AllSafe == \A t \in touched : Safe(t)

LEMMA NextAllSafe == Places /\ AllSafe /\ [Next]_vars => AllSafe'
<1> SUFFICES ASSUME Places, AllSafe, [Next]_vars PROVE AllSafe'
  OBVIOUS
<1> SUFFICES \A t \in touched' : Safe(t)
  BY DEF AllSafe, Safe
<1>a. call \in Calls
  BY DEF Places
<1>b. PointersFit => Safe(SM) /\ Safe(QRow) /\ Safe(VKQRow)
  BY <1>a, PointersAreSafe
<1>c. pc \in Loops \cup {"convertout", "done"} => PointersFit
  BY DEF Places
<1>1. CASE prologue
  <2>1. touched' = {} \/ (PointersFit /\ touched' = {SM})
    BY <1>1 DEF prologue
  <2> QED
    BY <2>1, <1>b
<1>2. CASE x64Prologue
  <2>1. pc = "prologue" /\ call.start \in Nat /\ call.end \in Nat
    BY <1>2, <1>a, CallTypes DEF x64Prologue, Enter
  <2>2. touched' = {} \/ (pc' = "block" /\ touched' = {SM})
    BY <1>2 DEF x64Prologue
  <2>3. pc' = "block" => PointersFit
    BY <1>2, <2>1 DEF x64Prologue, Enter
  <2> QED
    BY <2>2, <2>3, <1>b
<1>3. CASE perPositionLoop
  <2>1. pc = "pos" /\ PointersFit
    BY <1>3, <1>c DEF perPositionLoop, Loops
  <2>2. touched' \subseteq (IF call.mask = 0 THEN {} ELSE {MaskAt(rows.m)})
                            \cup {KRow(rows.k), QRow, VRow(rows.v), VKQRow}
    BY <1>3 DEF perPositionLoop
  <2>3. /\ Safe(KRow(rows.k)) /\ Safe(VRow(rows.v))
        /\ call.mask # 0 => Safe(MaskAt(rows.m))
    BY <2>1, PositionIsSafe
  <2> QED
    BY <2>1, <2>2, <2>3, <1>b
<1>4. CASE epilogue
  <2>1. touched' = {SM} /\ PointersFit
    BY <1>4, <1>c DEF epilogue
  <2> QED
    BY <2>1, <1>b
<1>5. CASE fhmConvertIn
  <2>1. touched' = {VKQRow} /\ PointersFit
    BY <1>5, <1>c DEF fhmConvertIn, Loops
  <2> QED
    BY <2>1, <1>b
<1>6. CASE fhmBlock \/ x64Block
  <2>1. pc = "block" /\ touched' = ScoreRanges(BlockSize)
    BY <1>6 DEF fhmBlock, x64Block, BlockScores
  <2> QED
    BY <2>1, ScoresAreSafe
<1>7. CASE fhmFast \/ x64Fast
  <2>1. pc = "fast" /\ touched' \subseteq {SM, VKQRow} \cup VRows /\ PointersFit
    BY <1>7, <1>c DEF fhmFast, x64Fast, Loops
  <2> QED
    BY <2>1, <1>b, VRowsAreSafe
<1>8. CASE fhmExact \/ x64Exact
  <2>1. pc = "exact" /\ PointersFit
    BY <1>8, <1>c DEF fhmExact, x64Exact, Loops
  <2>2. touched' \subseteq {SM, VKQRow, VRow(rows.v + i)}
    BY <1>8 DEF fhmExact, x64Exact
  <2> QED
    BY <2>1, <2>2, <1>b, VRowsAreSafe
<1>9. CASE fhmAdvance \/ x64Advance
  <2>1. touched' = {}
    BY <1>9 DEF fhmAdvance, x64Advance, NextBlock
  <2> QED
    BY <2>1
<1>10. CASE fhmConvertOut
  <2>1. touched' = {VKQRow, SM} /\ PointersFit
    BY <1>10, <1>c DEF fhmConvertOut
  <2> QED
    BY <2>1, <1>b
<1>11. CASE UNCHANGED vars
  BY <1>11 DEF vars, AllSafe
<1> QED
  BY <1>1, <1>2, <1>3, <1>4, <1>5, <1>6, <1>7, <1>8, <1>9, <1>10, <1>11 DEF Next

LEMMA AlwaysPlaces == Spec => []Places
BY InitPlaces, NextPlaces, PTL DEF Spec

\* Whatever the calls, the blocks and the memory, no kernel reads or writes
\* past the end of memory: the checks the prologue makes of the last row and
\* the last mask element cover every row of every block, the partial last
\* block and the tails of the rows included.
THEOREM NothingPastTheEnd == Spec => []AttnInBounds
<1>1. Init => AllSafe
  BY DEF Init, AllSafe
<1>2. AllSafe => AttnInBounds
  BY DEF AllSafe, AttnInBounds, Safe
<1> QED
  BY <1>1, <1>2, InitPlaces, NextPlaces, NextAllSafe, PTL DEF Spec

-----------------------------------------------------------------------------
(* Recursive functions: what they are at 0 and from one number to the next. *)

\* The states of the recurrence over k positions.
Walk(st, c, from, k) ==
    LET w[j \in 0 .. k] ==
            IF j = 0 THEN st
            ELSE Position(w[j - 1], Score(c, from + j - 1), from + j - 1)
    IN w

\* The sums of the weights of the first lanes, the scores in sc.
Sums(log, sc, from, M, k) ==
    LET sum[l \in 0 .. k] ==
            IF l = 0 THEN log ELSE Add(sum[l - 1], Clamp(sc[l - 1] - M), from + l - 1)
    IN sum

LEMMA WalkExists ==
    ASSUME NEW st, NEW c, NEW from \in Nat, NEW k \in Nat
    PROVE  Walk(st, c, from, k) =
             [j \in 0 .. k |->
                IF j = 0 THEN st
                ELSE Position(Walk(st, c, from, k)[j - 1],
                              Score(c, from + j - 1), from + j - 1)]
<1> DEFINE Body(f, j) == IF j = 0 THEN st
                         ELSE Position(f[j - 1], Score(c, from + j - 1), from + j - 1)
           Good(f, m) == f = [j \in 0 .. m |-> Body(f, j)]
           S == {m \in Nat : \E f : Good(f, m)}
<1>1. 0 \in S
  <2>1. Good([j \in 0 .. 0 |-> st], 0)
    OBVIOUS
  <2> QED
    BY <2>1
<1>2. ASSUME NEW m \in S, m \in 0 .. k - 1
      PROVE  m + 1 \in S
  <2>1. m \in Nat
    OBVIOUS
  <2>2. PICK f : Good(f, m)
    OBVIOUS
  <2> DEFINE g == [j \in 0 .. m + 1 |-> IF j <= m THEN f[j] ELSE Body(f, m + 1)]
  <2>3. ASSUME NEW j \in 0 .. m + 1
        PROVE  g[j] = Body(g, j)
    <3>1. CASE j = 0
      BY <2>1, <2>2, <3>1
    <3>2. CASE j # 0
      <4>1. j - 1 \in 0 .. m /\ g[j - 1] = f[j - 1]
        BY <2>1, <3>2
      <4>2. Body(g, j) = Body(f, j)
        BY <3>2, <4>1
      <4>3. j <= m => f[j] = Body(f, j)
        BY <2>1, <2>2
      <4>4. ~(j <= m) => j = m + 1
        BY <2>1
      <4>5. g[j] = Body(f, j)
        BY <4>3, <4>4
      <4> QED
        BY <4>2, <4>5
    <3> QED
      BY <3>1, <3>2
  <2>4. Good(g, m + 1)
    BY <2>3
  <2>5. \E h : Good(h, m + 1)
    <3> HIDE DEF g, Good
    <3> QED
      BY <2>4
  <2> QED
    BY <2>1, <2>5
<1>3. 0 .. k \subseteq S
  <2> HIDE DEF S
  <2> QED
    BY <1>1, <1>2, UpTo
<1>4. PICK f : Good(f, k)
  <2> HIDE DEF Good
  <2> QED
    BY <1>3
<1>5. Walk(st, c, from, k) = CHOOSE h : Good(h, k)
  BY DEF Walk
<1> QED
  BY <1>4, <1>5

LEMMA SumsExist ==
    ASSUME NEW log, NEW sc, NEW from \in Nat, NEW M, NEW k \in Nat
    PROVE  Sums(log, sc, from, M, k) =
             [j \in 0 .. k |->
                IF j = 0 THEN log
                ELSE Add(Sums(log, sc, from, M, k)[j - 1],
                         Clamp(sc[j - 1] - M), from + j - 1)]
<1> DEFINE Body(f, j) == IF j = 0 THEN log
                         ELSE Add(f[j - 1], Clamp(sc[j - 1] - M), from + j - 1)
           Good(f, m) == f = [j \in 0 .. m |-> Body(f, j)]
           S == {m \in Nat : \E f : Good(f, m)}
<1>1. 0 \in S
  <2>1. Good([j \in 0 .. 0 |-> log], 0)
    OBVIOUS
  <2> QED
    BY <2>1
<1>2. ASSUME NEW m \in S, m \in 0 .. k - 1
      PROVE  m + 1 \in S
  <2>1. m \in Nat
    OBVIOUS
  <2>2. PICK f : Good(f, m)
    OBVIOUS
  <2> DEFINE g == [j \in 0 .. m + 1 |-> IF j <= m THEN f[j] ELSE Body(f, m + 1)]
  <2>3. ASSUME NEW j \in 0 .. m + 1
        PROVE  g[j] = Body(g, j)
    <3>1. CASE j = 0
      BY <2>1, <2>2, <3>1
    <3>2. CASE j # 0
      <4>1. j - 1 \in 0 .. m /\ g[j - 1] = f[j - 1]
        BY <2>1, <3>2
      <4>2. Body(g, j) = Body(f, j)
        BY <3>2, <4>1
      <4>3. j <= m => f[j] = Body(f, j)
        BY <2>1, <2>2
      <4>4. ~(j <= m) => j = m + 1
        BY <2>1
      <4>5. g[j] = Body(f, j)
        BY <4>3, <4>4
      <4> QED
        BY <4>2, <4>5
    <3> QED
      BY <3>1, <3>2
  <2>4. Good(g, m + 1)
    BY <2>3
  <2>5. \E h : Good(h, m + 1)
    <3> HIDE DEF g, Good
    <3> QED
      BY <2>4
  <2> QED
    BY <2>1, <2>5
<1>3. 0 .. k \subseteq S
  <2> HIDE DEF S
  <2> QED
    BY <1>1, <1>2, UpTo
<1>4. PICK f : Good(f, k)
  <2> HIDE DEF Good
  <2> QED
    BY <1>3
<1>5. Sums(log, sc, from, M, k) = CHOOSE h : Good(h, k)
  BY DEF Sums
<1> QED
  BY <1>4, <1>5

LEMMA WalkSteps ==
    ASSUME NEW st, NEW c, NEW from \in Nat, NEW k \in Nat
    PROVE  /\ Walk(st, c, from, k)[0] = st
           /\ \A j \in 1 .. k :
                 Walk(st, c, from, k)[j] =
                   Position(Walk(st, c, from, k)[j - 1],
                            Score(c, from + j - 1), from + j - 1)
<1> DEFINE w == Walk(st, c, from, k)
<1>1. w = [j \in 0 .. k |->
             IF j = 0 THEN st ELSE Position(w[j - 1], Score(c, from + j - 1), from + j - 1)]
  BY WalkExists
<1> HIDE DEF w
<1>2. /\ w[0] = st
      /\ \A j \in 1 .. k : w[j] = Position(w[j - 1], Score(c, from + j - 1), from + j - 1)
  BY <1>1
<1> QED
  BY <1>2 DEF w

LEMMA SumsSteps ==
    ASSUME NEW log, NEW sc, NEW from \in Nat, NEW M, NEW k \in Nat
    PROVE  /\ Sums(log, sc, from, M, k)[0] = log
           /\ \A j \in 1 .. k :
                 Sums(log, sc, from, M, k)[j] =
                   Add(Sums(log, sc, from, M, k)[j - 1],
                       Clamp(sc[j - 1] - M), from + j - 1)
<1> DEFINE w == Sums(log, sc, from, M, k)
<1>1. w = [j \in 0 .. k |->
             IF j = 0 THEN log ELSE Add(w[j - 1], Clamp(sc[j - 1] - M), from + j - 1)]
  BY SumsExist
<1> HIDE DEF w
<1>2. /\ w[0] = log
      /\ \A j \in 1 .. k : w[j] = Add(w[j - 1], Clamp(sc[j - 1] - M), from + j - 1)
  BY <1>1
<1> QED
  BY <1>2 DEF w

-----------------------------------------------------------------------------
(* A block and the recurrence over its positions. *)

LEMMA ClampedWeights ==
    ASSUME NEW log, NEW e \in Int, NEW p
    PROVE  /\ Add(log, Clamp(e), p) = Add(log, e, p)
           /\ Mul(log, Clamp(e)) = Mul(log, e)
BY DEF Add, Mul, Clamp, Zero

LEMMA MaskedLane ==
    ASSUME NEW log, NEW M \in Int, M >= NegInf \div 2, NEW p
    PROVE  Add(log, Clamp(NegInf - M), p) = log
BY NegInfAssumption DEF Add, Clamp, Zero

LEMMA MaskedWalk ==
    ASSUME NEW st, NEW c, NEW from \in Nat, NEW k \in Nat,
           \A l \in 0 .. k - 1 : Score(c, from + l) = NegInf
    PROVE  Walk(st, c, from, k)[k] = st
<1> DEFINE w == Walk(st, c, from, k)
           S == {j \in Nat : w[j] = st}
<1>1. /\ w[0] = st
      /\ \A j \in 1 .. k : w[j] = Position(w[j - 1], Score(c, from + j - 1), from + j - 1)
  BY WalkSteps
<1> HIDE DEF w
<1>2. 0 \in S
  BY <1>1
<1>3. ASSUME NEW j \in S, j \in 0 .. k - 1
      PROVE  j + 1 \in S
  <2>1. j \in Nat /\ j + 1 \in 1 .. k /\ (j + 1) - 1 = j /\ from + (j + 1) - 1 = from + j
    BY <1>3
  <2>2. w[j + 1] = Position(w[j], Score(c, from + j), from + j)
    BY <1>1, <2>1
  <2>3. Score(c, from + j) = NegInf
    BY <1>3
  <2>4. w[j + 1] = st
    BY <1>3, <2>2, <2>3 DEF Position
  <2> QED
    BY <2>1, <2>4
<1>4. 0 .. k \subseteq S
  <2> HIDE DEF S
  <2> QED
    BY <1>2, <1>3, UpTo
<1> QED
  BY <1>4 DEF w

\* Where the block raises no maximum, the lanes in order are the recurrence.
LEMMA FastWalk ==
    ASSUME NEW M \in Int, M >= NegInf \div 2, NEW a, NEW b, NEW c, NEW from \in Nat,
           NEW k \in Nat, NEW u \in Nat, k <= u, NEW v \in Nat, k <= v,
           NEW sc, \A l \in 0 .. k - 1 : /\ sc[l] = Score(c, from + l)
                                         /\ sc[l] \in Int /\ sc[l] <= M
    PROVE  Walk([M |-> M, S |-> a, VKQ |-> b], c, from, k)[k] =
             [M |-> M, S |-> Sums(a, sc, from, M, u)[k], VKQ |-> Sums(b, sc, from, M, v)[k]]
<1> DEFINE w == Walk([M |-> M, S |-> a, VKQ |-> b], c, from, k)
           x == Sums(a, sc, from, M, u)
           y == Sums(b, sc, from, M, v)
           S == {j \in Nat : w[j] = [M |-> M, S |-> x[j], VKQ |-> y[j]]}
<1>1. /\ w[0] = [M |-> M, S |-> a, VKQ |-> b]
      /\ \A j \in 1 .. k : w[j] = Position(w[j - 1], Score(c, from + j - 1), from + j - 1)
  BY WalkSteps
<1>2. /\ x[0] = a
      /\ \A j \in 1 .. u : x[j] = Add(x[j - 1], Clamp(sc[j - 1] - M), from + j - 1)
  BY SumsSteps
<1>3. /\ y[0] = b
      /\ \A j \in 1 .. v : y[j] = Add(y[j - 1], Clamp(sc[j - 1] - M), from + j - 1)
  BY SumsSteps
<1> HIDE DEF w, x, y
<1>4. 0 \in S
  BY <1>1, <1>2, <1>3
<1>5. ASSUME NEW j \in S, j \in 0 .. k - 1
      PROVE  j + 1 \in S
  <2>1. /\ j \in Nat /\ j + 1 \in 1 .. k /\ j + 1 \in 1 .. u /\ j + 1 \in 1 .. v
        /\ (j + 1) - 1 = j /\ from + (j + 1) - 1 = from + j
    BY <1>5
  <2>2. w[j + 1] = Position(w[j], sc[j], from + j) /\ sc[j] \in Int /\ sc[j] <= M
    BY <1>1, <1>5, <2>1
  <2>3. x[j + 1] = Add(x[j], Clamp(sc[j] - M), from + j)
    BY <1>2, <2>1
  <2>4. y[j + 1] = Add(y[j], Clamp(sc[j] - M), from + j)
    BY <1>3, <2>1
  <2>5. w[j] = [M |-> M, S |-> x[j], VKQ |-> y[j]]
    BY <1>5
  <2>6. CASE sc[j] = NegInf
    <3>1. x[j + 1] = x[j] /\ y[j + 1] = y[j]
      BY <2>3, <2>4, <2>6, MaskedLane
    <3>2. w[j + 1] = w[j]
      BY <2>2, <2>6 DEF Position
    <3> QED
      BY <2>1, <2>5, <3>1, <3>2
  <2>7. CASE sc[j] # NegInf
    <3>1. /\ x[j + 1] = Add(x[j], sc[j] - M, from + j)
          /\ y[j + 1] = Add(y[j], sc[j] - M, from + j)
      BY <2>2, <2>3, <2>4, ClampedWeights
    <3>2. w[j + 1] = [M |-> M, S |-> Add(x[j], sc[j] - M, from + j),
                               VKQ |-> Add(y[j], sc[j] - M, from + j)]
      BY <2>2, <2>5, <2>7 DEF Position
    <3> QED
      BY <2>1, <3>1, <3>2
  <2> QED
    BY <2>6, <2>7
<1>6. 0 .. k \subseteq S
  <2> HIDE DEF S
  <2> QED
    BY <1>4, <1>5, UpTo
<1> QED
  BY <1>6 DEF w, x, y

\* The lanes past the block add nothing.
LEMMA IdleLanes ==
    ASSUME NEW M \in Int, M >= NegInf \div 2, NEW log, NEW from \in Nat,
           NEW k \in Nat, NEW u \in Nat, k <= u,
           NEW sc, \A l \in k .. u - 1 : sc[l] = NegInf
    PROVE  Sums(log, sc, from, M, u)[u] = Sums(log, sc, from, M, u)[k]
<1> DEFINE x == Sums(log, sc, from, M, u)
           S == {j \in Nat : x[k + j] = x[k]}
<1>1. \A j \in 1 .. u : x[j] = Add(x[j - 1], Clamp(sc[j - 1] - M), from + j - 1)
  BY SumsSteps
<1> HIDE DEF x
<1>2. 0 \in S
  OBVIOUS
<1>3. ASSUME NEW j \in S, j \in 0 .. (u - k) - 1
      PROVE  j + 1 \in S
  <2>1. /\ j \in Nat /\ k + (j + 1) \in 1 .. u /\ (k + (j + 1)) - 1 = k + j
        /\ k + j \in k .. u - 1
    BY <1>3
  <2>2. x[k + (j + 1)] = Add(x[k + j], Clamp(sc[k + j] - M), from + (k + (j + 1)) - 1)
    BY <1>1, <2>1
  <2>3. x[k + (j + 1)] = x[k + j]
    BY <2>1, <2>2, MaskedLane
  <2> QED
    BY <1>3, <2>1, <2>3
<1>4. 0 .. u - k \subseteq S
  <2>1. u - k \in Nat
    OBVIOUS
  <2> HIDE DEF S
  <2> QED
    BY <1>2, <1>3, <2>1, UpTo
<1>5. u - k \in S /\ k + (u - k) = u
  BY <1>4
<1> QED
  BY <1>5 DEF x

LEMMA HighestLane ==
    ASSUME NEW sc, \A l \in Lanes : sc[l] \in Int
    PROVE  \A l \in Lanes : sc[l] <= MaxScore(sc) /\ MaxScore(sc) \in {sc[k] : k \in Lanes}
<1> DEFINE S == {j \in Nat : \E l \in 0 .. j : \A h \in 0 .. j : sc[h] <= sc[l]}
<1>1. 0 \in S
  BY BlockAssumption DEF Lanes
<1>2. ASSUME NEW j \in S, j \in 0 .. (Block - 1) - 1
      PROVE  j + 1 \in S
  <2>1. j \in Nat /\ \A h \in 0 .. j + 1 : sc[h] \in Int
    BY <1>2, BlockAssumption DEF Lanes
  <2>2. PICK l \in 0 .. j : \A h \in 0 .. j : sc[h] <= sc[l]
    OBVIOUS
  <2>3. \E m \in 0 .. j + 1 : \A h \in 0 .. j + 1 : sc[h] <= sc[m]
    <3>1. CASE sc[l] <= sc[j + 1]
      <4>1. \A h \in 0 .. j + 1 : sc[h] <= sc[j + 1]
        BY <2>1, <2>2, <3>1
      <4> QED
        BY <2>1, <4>1
    <3>2. CASE ~(sc[l] <= sc[j + 1])
      <4>1. \A h \in 0 .. j + 1 : sc[h] <= sc[l]
        BY <2>1, <2>2, <3>2
      <4> QED
        BY <2>1, <4>1
    <3> QED
      BY <3>1, <3>2
  <2> QED
    BY <2>1, <2>3
<1>3. 0 .. Block - 1 \subseteq S
  <2>1. Block - 1 \in Nat
    BY BlockAssumption
  <2> HIDE DEF S
  <2> QED
    BY <1>1, <1>2, <2>1, UpTo
<1>4. PICK l \in Lanes : \A h \in Lanes : sc[h] <= sc[l]
  BY <1>3, BlockAssumption DEF Lanes
<1>5. sc[l] \in {sc[k] : k \in Lanes} /\ \A h \in Lanes : sc[h] <= sc[l]
  BY <1>4
<1>6. /\ MaxScore(sc) \in {sc[k] : k \in Lanes}
      /\ \A h \in Lanes : sc[h] <= MaxScore(sc)
  BY <1>5 DEF MaxScore
<1> QED
  BY <1>6

-----------------------------------------------------------------------------
(* The scores of a block. *)

Top == IF kernel = "amd64" THEN reg.M ELSE memory.M

\* The maximum is a number, the scores of a block are those of its positions,
\* and the fast path runs where none of them raises the maximum.
Scores ==
    /\ reg.M \in Int /\ memory.M \in Int
    /\ memory = [M |-> memory.M, S |-> memory.S, VKQ |-> memory.VKQ]
    /\ reg = [M |-> reg.M, S |-> reg.S]
    /\ pc \in {"fast", "exact"} =>
          \A l \in Lanes : s[l] = IF l < n THEN Score(call, rows.k + l) ELSE NegInf
    /\ pc = "fast" => Top >= NegInf \div 2 /\ \A l \in Lanes : s[l] <= Top
    /\ pc \in {"convert", "convertout"} => kernel = "fhm"
    /\ pc = "pos" => kernel # "amd64"
    /\ pc \in {"block"} \cup InBlock => kernel \in {"fhm", "amd64"}

LEMMA ScoreTypes ==
    ASSUME NEW c \in Calls, NEW p \in Positions(c)
    PROVE  /\ Score(c, p) \in Int
           /\ Score(c, p) # NegInf => Score(c, p) >= NegInf \div 2
           /\ c.mask = 0 => c.dot[p] \in Finite /\ Score(c, p) = c.dot[p] + 0
           /\ (c.mask # 0 /\ c.mv[p] # NegInf) =>
                 Score(c, p) = c.dot[p] + c.mv[p] /\ Score(c, p) \in Finite
           /\ (c.mask # 0 /\ c.mv[p] = NegInf) =>
                 Score(c, p) = NegInf /\ c.dot[p] + c.mv[p] < NegInf \div 2
           /\ c.dot[p] \in Int /\ (c.mask # 0 => c.mv[p] \in Int)
<1>1. /\ c.dot[p] \in Finite
      /\ c.mask # 0 =>
            c.mv[p] = NegInf \/ (c.mv[p] \in Int /\ c.dot[p] + c.mv[p] \in Finite)
  BY CallsAssumption
<1>2. c.dot[p] \in Int /\ (c.mask # 0 => c.mv[p] \in Int)
  BY <1>1, NegInfAssumption DEF Finite
<1>3. CASE c.mask = 0
  BY <1>1, <1>2, <1>3, NegInfAssumption DEF Score, Finite
<1>4. CASE c.mask # 0 /\ c.mv[p] = NegInf
  BY <1>1, <1>2, <1>4, NegInfAssumption DEF Score, Finite
<1>5. CASE c.mask # 0 /\ c.mv[p] # NegInf
  BY <1>1, <1>2, <1>5, NegInfAssumption DEF Score, Finite
<1> QED
  BY <1>3, <1>4, <1>5

LEMMA BlockIsScores ==
    ASSUME Places, pc = "block", NEW l \in Lanes
    PROVE  Flat(ScoresOf(BlockSize))[l] =
             IF l < BlockSize THEN Score(call, rows.k + l) ELSE NegInf
<1>1. BlockSize \in 1 .. left /\ l \in Nat
  BY BlockSizes, BlockAssumption DEF Lanes
<1>2. CASE l < BlockSize
  <2> DEFINE p == rows.k + l
  <2>1. call \in Calls /\ p \in Positions(call)
    BY <1>1, <1>2, CallTypes DEF Places, Loops, Positions
  <2>2. call.mask # 0 => rows.m + l = p
    BY DEF Places
  <2>3. ScoresOf(BlockSize)[l] = call.dot[p] + MaskValue(rows.m + l)
    BY <1>2 DEF ScoresOf
  <2>4. Flat(ScoresOf(BlockSize))[l] =
          IF ScoresOf(BlockSize)[l] < NegInf \div 2 THEN NegInf ELSE ScoresOf(BlockSize)[l]
    BY DEF Flat
  <2> HIDE DEF p
  <2>5. CASE call.mask = 0
    <3>1. ScoresOf(BlockSize)[l] = call.dot[p] + 0
      BY <2>3, <2>5 DEF MaskValue
    <3>2. call.dot[p] \in Finite /\ Score(call, p) = call.dot[p] + 0
      BY <2>1, <2>5, ScoreTypes
    <3> QED
      BY NegInfAssumption, <1>2, <2>4, <3>1, <3>2 DEF Finite, p
  <2>6. CASE call.mask # 0
    <3>1. ScoresOf(BlockSize)[l] = call.dot[p] + call.mv[p]
      BY <2>2, <2>3, <2>6 DEF MaskValue
    <3>2. /\ call.mv[p] # NegInf => Score(call, p) = call.dot[p] + call.mv[p]
                                    /\ Score(call, p) \in Finite
          /\ call.mv[p] = NegInf => Score(call, p) = NegInf
                                    /\ call.dot[p] + call.mv[p] < NegInf \div 2
      BY <2>1, <2>6, ScoreTypes
    <3> QED
      BY NegInfAssumption, <1>2, <2>4, <3>1, <3>2 DEF Finite, p
  <2> QED
    BY <2>5, <2>6
<1>3. CASE ~(l < BlockSize)
  BY NegInfAssumption, <1>3 DEF Flat, ScoresOf
<1> QED
  BY <1>2, <1>3

LEMMA InitScores == Init => Scores
BY NegInfAssumption, CallTypes DEF Init, Scores, InBlock, Top

LEMMA ScoresBlock ==
    ASSUME Places, Scores, BlockScores(Top)
    PROVE  Scores'
<1> DEFINE sc == Flat(ScoresOf(BlockSize))
<1>1. /\ pc = "block" /\ n' = BlockSize /\ s' = sc /\ UNCHANGED <<kernel, call, rows, reg, memory>>
      /\ pc' = CASE MaxScore(sc) = NegInf -> "advance"
                 [] MaxScore(sc) # NegInf /\ MaxScore(sc) > Top -> "exact"
                 [] OTHER -> "fast"
  BY DEF BlockScores
<1>2. \A l \in Lanes : sc[l] = IF l < BlockSize THEN Score(call, rows.k + l) ELSE NegInf
  BY <1>1, BlockIsScores
<1>3. left \in Nat /\ BlockSize \in 1 .. left /\ call \in Calls /\ rows.k \in Nat /\ call.start \in Nat
      /\ call.end \in Nat /\ rows.k + left = call.end /\ rows.k >= call.start
  BY <1>1, BlockSizes, CallTypes DEF Places, Loops
<1>4. ASSUME NEW l \in Lanes, l < BlockSize
      PROVE  rows.k + l \in Positions(call)
  <2>1. l \in Nat /\ l < left
    BY <1>3, <1>4, BlockAssumption DEF Lanes
  <2> QED
    BY <1>3, <2>1 DEF Positions
<1>5. \A l \in Lanes : /\ sc[l] \in Int
                       /\ sc[l] # NegInf => sc[l] >= NegInf \div 2
  BY NegInfAssumption, <1>2, <1>3, <1>4, ScoreTypes
<1> HIDE DEF sc
<1>6. MaxScore(sc) \in {sc[k] : k \in Lanes} /\ \A l \in Lanes : sc[l] <= MaxScore(sc)
  BY <1>5, HighestLane, BlockAssumption DEF Lanes
<1>7. MaxScore(sc) \in Int /\ (MaxScore(sc) # NegInf => MaxScore(sc) >= NegInf \div 2)
  BY <1>5, <1>6
<1>8. Top \in Int /\ Top' = Top
  BY <1>1 DEF Top, Scores
<1>9. pc' = "fast" => Top' >= NegInf \div 2 /\ \A l \in Lanes : s'[l] <= Top'
  BY NegInfAssumption, <1>1, <1>5, <1>6, <1>7, <1>8
<1>10. \A l \in Lanes : s'[l] = IF l < n' THEN Score(call', rows'.k + l) ELSE NegInf
  BY <1>1, <1>2
<1>11. pc' \in InBlock /\ kernel' \in {"fhm", "amd64"}
  BY <1>1 DEF Scores, InBlock
<1> QED
  BY <1>1, <1>9, <1>10, <1>11 DEF Scores, InBlock

LEMMA LaneScores ==
    ASSUME Places, Scores, pc = "exact"
    PROVE  /\ s[i] = Score(call, rows.k + i) /\ s[i] \in Int
           /\ rows.k + i \in Nat /\ rows.k + i < call.end
<1>1. n \in 1 .. left /\ n <= Block /\ i \in 0 .. n - 1
  BY DEF Places, InBlock
<1>2. call \in Calls /\ rows.k + i \in Positions(call) /\ rows.k + i \in Nat /\ rows.k + i < call.end
  BY <1>1, CallTypes DEF Places, Loops, Positions
<1>3. i \in Lanes
  BY <1>1, BlockAssumption DEF Lanes
<1>4. s[i] = Score(call, rows.k + i)
  BY <1>1, <1>3 DEF Scores
<1> QED
  BY <1>2, <1>4, ScoreTypes

LEMMA NextScores == Places /\ Scores /\ [Next]_vars => Scores'
<1> SUFFICES ASSUME Places, Scores, [Next]_vars PROVE Scores'
  OBVIOUS
<1>1. CASE prologue \/ x64Prologue
  <2>1. /\ UNCHANGED <<kernel, memory>> /\ (UNCHANGED reg \/ reg' = [M |-> memory.M, S |-> memory.S])
        /\ pc' \in {"trap", "done", "ret", "convert", "pos", "block"}
        /\ pc' = "convert" => kernel = "fhm"
        /\ pc' = "pos" => kernel # "amd64"
        /\ pc' = "block" => kernel = "amd64"
    <3>1. CASE prologue
      <4>1. kernel # "amd64" /\ UNCHANGED <<kernel, memory>>
            /\ (UNCHANGED reg \/ reg' = [M |-> memory.M, S |-> memory.S])
        BY <3>1 DEF prologue, Enter
      <4>2. Enter("done", IF Blocked THEN "convert" ELSE "pos")
        BY <3>1 DEF prologue
      <4>3. pc' \in {"trap", "done"} \/ pc' = IF Blocked THEN "convert" ELSE "pos"
        BY <4>2, CallTypes DEF Enter, Places
      <4> QED
        BY <4>1, <4>3 DEF Blocked
    <3>2. CASE x64Prologue
      <4>1. kernel = "amd64" /\ UNCHANGED <<kernel, memory>>
            /\ (UNCHANGED reg \/ reg' = [M |-> memory.M, S |-> memory.S])
        BY <3>2 DEF x64Prologue, Enter
      <4>2. pc' \in {"trap", "ret", "block"}
        BY <3>2, CallTypes DEF x64Prologue, Enter, Places
      <4> QED
        BY <4>1, <4>2
    <3> QED
      BY <1>1, <3>1, <3>2
  <2>2. reg'.M \in Int /\ reg' = [M |-> reg'.M, S |-> reg'.S]
    BY <2>1 DEF Scores
  <2> QED
    BY <2>1, <2>2 DEF Scores, InBlock
<1>2. CASE perPositionLoop
  <2>1. /\ pc = "pos" /\ pc' \in {"pos", "done"} /\ UNCHANGED kernel
    BY <1>2 DEF perPositionLoop
  <2> DEFINE mv == MaskValue(rows.m)
             sc == call.dot[rows.k] + mv
  <2>2. mv # NegInf => sc \in Int
    <3>1. call \in Calls /\ rows.k \in Positions(call)
      BY <2>1, CallTypes DEF Places, Loops, Positions
    <3>2. call.mask # 0 => rows.m = rows.k
      BY DEF Places
    <3> QED
      BY <3>1, <3>2, ScoreTypes DEF MaskValue
  <2> DEFINE S1 == Add(Mul(reg.S, reg.M - sc), 0, rows.v)
             V1 == Add(Mul(memory.VKQ, reg.M - sc), 0, rows.v)
             S2 == Add(reg.S, sc - reg.M, rows.v)
             V2 == Add(memory.VKQ, sc - reg.M, rows.v)
  <2>3. \/ UNCHANGED <<reg, memory>>
        \/ sc \in Int /\ reg' = [M |-> sc, S |-> S1] /\ memory' = [memory EXCEPT !.VKQ = V1]
        \/ reg' = [reg EXCEPT !.S = S2] /\ memory' = [memory EXCEPT !.VKQ = V2]
    BY <1>2, <2>2 DEF perPositionLoop
  <2> HIDE DEF S1, S2, V1, V2, sc
  <2>4. /\ reg'.M \in Int /\ reg' = [M |-> reg'.M, S |-> reg'.S]
        /\ memory'.M \in Int
        /\ memory' = [M |-> memory'.M, S |-> memory'.S, VKQ |-> memory'.VKQ]
    BY <2>3 DEF Scores
  <2> QED
    BY <2>1, <2>4 DEF Scores, InBlock
<1>3. CASE epilogue
  <2>1. pc' = "ret" /\ UNCHANGED <<kernel, reg>> /\ memory' = [memory EXCEPT !.M = reg.M, !.S = reg.S]
    BY <1>3 DEF epilogue
  <2>2. memory' = [M |-> reg.M, S |-> reg.S, VKQ |-> memory.VKQ]
    BY <2>1 DEF Scores
  <2> QED
    BY <2>1, <2>2 DEF Scores, InBlock
<1>4. CASE fhmConvertIn
  BY <1>4 DEF fhmConvertIn, Scores, InBlock
<1>5. CASE fhmBlock \/ x64Block
  <2>1. BlockScores(Top)
    BY <1>5 DEF fhmBlock, x64Block, Top
  <2> QED
    BY <2>1, ScoresBlock
<1>6. CASE fhmFast
  <2> DEFINE S1 == AddLanes(memory.S, memory.M, Block)
  <2>1. kernel = "fhm" /\ pc' = "advance" /\ UNCHANGED <<kernel, reg>>
        /\ memory' = [memory EXCEPT !.S = S1]
    BY <1>6 DEF fhmFast
  <2> HIDE DEF S1
  <2>2. memory' = [M |-> memory.M, S |-> S1, VKQ |-> memory.VKQ]
    BY <2>1 DEF Scores
  <2> QED
    BY <2>1, <2>2 DEF Scores, InBlock
<1>7. CASE x64Fast
  <2> DEFINE S1 == AddLanes(reg.S, reg.M, Block)
             V1 == AddLanes(memory.VKQ, reg.M, n)
  <2>1. kernel = "amd64" /\ pc' = "advance" /\ UNCHANGED kernel
        /\ reg' = [reg EXCEPT !.S = S1] /\ memory' = [memory EXCEPT !.VKQ = V1]
    BY <1>7 DEF x64Fast
  <2> HIDE DEF S1, V1
  <2>2. memory' = [M |-> memory.M, S |-> memory.S, VKQ |-> V1] /\ reg' = [M |-> reg.M, S |-> S1]
    BY <2>1 DEF Scores
  <2> QED
    BY <2>1, <2>2 DEF Scores, InBlock
<1>8. CASE fhmExact \/ x64Exact
  <2>1. /\ pc = "exact" /\ pc' \in {"exact", "advance"} /\ UNCHANGED <<kernel, call, rows, n, s>>
        /\ kernel \in {"fhm", "amd64"}
    BY <1>8 DEF fhmExact, x64Exact, NextLane
  <2>2. s[i] \in Int
    BY <2>1, LaneScores
  <2> DEFINE S1(st, m) == Add(Mul(st, m), 0, rows.v + i)
             S2(st, m) == Add(st, m, rows.v + i)
  <2>3. /\ reg'.M \in Int /\ reg' = [M |-> reg'.M, S |-> reg'.S]
        /\ memory'.M \in Int
        /\ memory' = [M |-> memory'.M, S |-> memory'.S, VKQ |-> memory'.VKQ]
    <3>1. CASE fhmExact
      <4> DEFINE ms == Clamp(memory.M - s[i])
                 vs == Clamp(s[i] - memory.M)
                 A == S1(memory.S, ms)
                 B == S2(memory.S, vs)
      <4>1. /\ UNCHANGED reg
            /\ \/ UNCHANGED memory
               \/ memory' = [memory EXCEPT !.M = s[i], !.S = A]
               \/ memory' = [memory EXCEPT !.S = B]
        BY <3>1 DEF fhmExact
      <4> HIDE DEF A, B
      <4> QED
        BY <2>2, <4>1 DEF Scores
    <3>2. CASE x64Exact
      <4> DEFINE ms == Clamp(reg.M - s[i])
                 vs == Clamp(s[i] - reg.M)
                 A == S1(reg.S, ms)
                 B == S1(memory.VKQ, ms)
                 C == S2(reg.S, vs)
                 D == S2(memory.VKQ, vs)
      <4>1. \/ UNCHANGED <<reg, memory>>
            \/ reg' = [M |-> s[i], S |-> A] /\ memory' = [memory EXCEPT !.VKQ = B]
            \/ reg' = [reg EXCEPT !.S = C] /\ memory' = [memory EXCEPT !.VKQ = D]
        BY <3>2 DEF x64Exact
      <4> HIDE DEF A, B, C, D
      <4> QED
        BY <2>2, <4>1 DEF Scores
    <3> QED
      BY <1>8, <3>1, <3>2
  <2>4. pc' = "exact" => \A l \in Lanes : s'[l] = IF l < n' THEN Score(call', rows'.k + l) ELSE NegInf
    BY <2>1 DEF Scores
  <2> QED
    BY <2>1, <2>3, <2>4 DEF Scores, InBlock
<1>9. CASE fhmAdvance \/ x64Advance
  <2>1. /\ UNCHANGED <<kernel, reg, memory>> /\ kernel \in {"fhm", "amd64"}
        /\ pc' \in {"block", "convertout", "done"} /\ (pc' = "convertout" => kernel = "fhm")
    BY <1>9 DEF fhmAdvance, x64Advance, NextBlock
  <2> QED
    BY <2>1 DEF Scores, InBlock
<1>10. CASE fhmConvertOut
  <2> DEFINE V1 == VKQ16
  <2>1. /\ pc' = "done" /\ UNCHANGED kernel /\ reg' = [M |-> memory.M, S |-> memory.S]
        /\ memory' = [memory EXCEPT !.VKQ = VKQ16]
    BY <1>10 DEF fhmConvertOut
  <2> QED
    BY <2>1 DEF Scores, InBlock
<1>11. CASE UNCHANGED vars
  <2>1. UNCHANGED <<kernel, call, rows, pc, n, s, reg, memory>>
    BY <1>11 DEF vars
  <2> QED
    BY <2>1 DEF Scores, Top
<1> QED
  BY <1>1, <1>2, <1>3, <1>4, <1>5, <1>6, <1>7, <1>8, <1>9, <1>10, <1>11 DEF Next

-----------------------------------------------------------------------------
(* The kernels implement the recurrence. *)

\* What Attention sees of the state.
Offset == CASE pc = "exact" -> i [] pc = "advance" -> n [] OTHER -> 0

Here == rows.k + Offset

State == [M |-> IF InRegisters THEN reg.M ELSE memory.M,
          S |-> IF InRegisters THEN reg.S ELSE memory.S,
          VKQ |-> IF InHalves THEN VKQ16 ELSE memory.VKQ]

LEMMA AttnVars ==
    /\ Attn!attnvars = <<call, Here, State>>
    /\ Attn!attnvars' = <<call', Here', State'>>
BY Zenon DEF Attn!attnvars, Here, Offset, State

LEMMA Stutters ==
    ASSUME UNCHANGED <<call, Here, State>>
    PROVE  UNCHANGED Attn!attnvars
BY AttnVars, Zenon

LEMMA AttendIs ==
    ASSUME NEW k
    PROVE  Attn!Attend(k) <=> /\ Here + k <= call.end
                              /\ Here' = Here + k
                              /\ State' = Walk(State, call, Here, k)[k]
                              /\ UNCHANGED call
<1>1. Attn!After(k) = Walk(State, call, Here, k)[k]
  BY Zenon DEF Attn!After, Attn!Position, Attn!Score, Attn!Add, Attn!Mul, Attn!Zero,
               Walk, Position, Score, Add, Mul, Zero, Here, Offset, State
<1>2. Attn!Attend(k) <=> /\ Here + k <= call.end
                         /\ Here' = Here + k
                         /\ State' = Attn!After(k)
                         /\ UNCHANGED call
  BY Zenon DEF Attn!Attend, Here, Offset, State
<1> QED
  BY <1>1, <1>2, Zenon

LEMMA Attends ==
    ASSUME NEW k \in 1 .. Block, Here + k <= call.end, Here' = Here + k, UNCHANGED call,
           State' = Walk(State, call, Here, k)[k]
    PROVE  Attn!Next
BY AttendIs DEF Attn!Next

LEMMA InitAttention == Init => Attn!Init
<1> SUFFICES ASSUME Init PROVE Attn!Init
  OBVIOUS
<1>1. call \in Calls /\ call.start \in Nat
  BY CallTypes DEF Init
<1>2. Here = call.start
  BY <1>1 DEF Init, Here, Offset
<1>3. State = [M |-> call.M, S |-> Before(call.M), VKQ |-> Before(call.M)]
  BY DEF Init, State, InRegisters, InHalves
<1> QED
  BY <1>1, <1>2, <1>3, Zenon DEF Attn!Init, Attn!Before, Before,
                                 Here, Offset, State

\* One position of the recurrence.
LEMMA OneWalk ==
    ASSUME NEW st, NEW c, NEW from \in Nat
    PROVE  Walk(st, c, from, 1)[1] = Position(st, Score(c, from), from)
<1>1. 1 \in 1 .. 1 /\ 1 - 1 = 0 /\ from + 1 - 1 = from
  OBVIOUS
<1> QED
  BY <1>1, WalkSteps

LEMMA PositionAttends == Places /\ Scores /\ perPositionLoop => Attn!Next
<1> SUFFICES ASSUME Places, Scores, perPositionLoop PROVE Attn!Next
  OBVIOUS
<1>1. pc = "pos" /\ pc' \in {"pos", "done"} /\ UNCHANGED <<kernel, call, VKQ16>> /\ Advance(1)
  BY DEF perPositionLoop
<1>2. rows.k \in Nat /\ rows.k + 1 <= call.end /\ rows.v = rows.k
      /\ (call.mask # 0 => rows.m = rows.k) /\ call \in Calls /\ rows.k \in Positions(call)
  BY <1>1, CallTypes DEF Places, Loops, Positions
<1>3. Here = rows.k /\ Here' = rows.k + 1
  BY <1>1, <1>2 DEF Here, Offset, Advance
<1>4. State = [M |-> reg.M, S |-> reg.S, VKQ |-> memory.VKQ]
      /\ State' = [M |-> reg'.M, S |-> reg'.S, VKQ |-> memory'.VKQ]
  BY <1>1 DEF State, InRegisters, InHalves
<1> DEFINE p == rows.k
           mv == MaskValue(rows.m)
           sc == call.dot[rows.k] + mv
<1>5. /\ mv = NegInf => Score(call, p) = NegInf
      /\ mv # NegInf => Score(call, p) = sc /\ sc \in Int /\ sc # NegInf
  BY NegInfAssumption, <1>2, ScoreTypes DEF MaskValue, Finite
<1>6. State' = Position(State, Score(call, p), p)
  <2>1. CASE mv = NegInf
    <3>1. UNCHANGED <<reg, memory>>
      BY <2>1 DEF perPositionLoop
    <3> QED
      BY <1>4, <1>5, <2>1, <3>1 DEF Position
  <2>2. CASE mv # NegInf /\ sc > reg.M
    <3> DEFINE S1 == Add(Mul(reg.S, reg.M - sc), 0, p)
               V1 == Add(Mul(memory.VKQ, reg.M - sc), 0, p)
    <3>1. reg' = [M |-> sc, S |-> S1] /\ memory' = [memory EXCEPT !.VKQ = V1]
      BY <1>2, <2>2, Zenon DEF perPositionLoop
    <3>2. Position(State, Score(call, p), p) = [M |-> sc, S |-> S1, VKQ |-> V1]
      BY <1>4, <1>5, <2>2 DEF Position
    <3> HIDE DEF S1, V1, sc
    <3>3. State' = [M |-> sc, S |-> S1, VKQ |-> V1]
      BY <1>4, <3>1 DEF Scores
    <3> QED
      BY <3>2, <3>3, Zenon
  <2>3. CASE mv # NegInf /\ ~(sc > reg.M)
    <3> DEFINE S1 == Add(reg.S, sc - reg.M, p)
               V1 == Add(memory.VKQ, sc - reg.M, p)
    <3>1. reg' = [reg EXCEPT !.S = S1] /\ memory' = [memory EXCEPT !.VKQ = V1]
      BY <1>2, <2>3, Zenon DEF perPositionLoop
    <3>2. Position(State, Score(call, p), p) = [M |-> reg.M, S |-> S1, VKQ |-> V1]
      BY <1>4, <1>5, <2>3 DEF Position
    <3> HIDE DEF S1, V1, sc
    <3>3. State' = [M |-> reg.M, S |-> S1, VKQ |-> V1]
      BY <1>4, <3>1 DEF Scores
    <3> QED
      BY <3>2, <3>3, Zenon
  <2> QED
    BY <2>1, <2>2, <2>3
<1>7. State' = Walk(State, call, Here, 1)[1]
  BY <1>2, <1>3, <1>6, OneWalk
<1> HIDE DEF p, mv, sc
<1> QED
  BY <1>1, <1>2, <1>3, <1>7, Attends, BlockAssumption

LEMMA BlockAttends == Places /\ Scores /\ BlockScores(Top) =>
                         Attn!Next \/ UNCHANGED Attn!attnvars
<1> SUFFICES ASSUME Places, Scores, BlockScores(Top)
             PROVE  Attn!Next \/ UNCHANGED Attn!attnvars
  OBVIOUS
<1> DEFINE sc == Flat(ScoresOf(BlockSize))
<1>1. /\ pc = "block" /\ n' = BlockSize /\ i' = 0 /\ pc' \in InBlock
      /\ UNCHANGED <<kernel, call, rows, reg, VKQ16, memory>>
      /\ pc' = "advance" => MaxScore(sc) = NegInf
  BY DEF BlockScores, InBlock
<1>2. UNCHANGED State
  BY <1>1 DEF Scores, State, InRegisters, InHalves, InBlock
<1>3. rows.k \in Nat /\ BlockSize \in 1 .. left /\ BlockSize \in 1 .. Block
      /\ left \in Nat /\ rows.k + left = call.end
  BY <1>1, BlockSizes, CallTypes, BlockAssumption DEF Places, Loops
<1>4. Here = rows.k
  BY <1>1, <1>3 DEF Here, Offset
<1>5. CASE pc' # "advance"
  <2>1. Here' = rows.k
    BY <1>1, <1>3, <1>5 DEF Here, Offset
  <2> QED
    BY <1>1, <1>2, <1>4, <2>1, Stutters
<1>6. CASE pc' = "advance"
  <2>1. Here' = Here + BlockSize
    BY <1>1, <1>4, <1>6 DEF Here, Offset
  <2>2. \A l \in Lanes : sc[l] = IF l < BlockSize THEN Score(call, rows.k + l) ELSE NegInf
    BY <1>1, BlockIsScores
  <2>3. \A l \in Lanes : l < BlockSize => rows.k + l \in Positions(call)
    BY <1>3, CallTypes, BlockAssumption DEF Lanes, Positions, Places
  <2>4. \A l \in Lanes : /\ sc[l] \in Int
                         /\ sc[l] # NegInf => sc[l] >= NegInf \div 2
    BY NegInfAssumption, <2>2, <2>3, ScoreTypes DEF Places
  <2> HIDE DEF sc
  <2>5. \A l \in Lanes : sc[l] <= NegInf
    BY <1>1, <1>6, <2>4, HighestLane
  <2>6. ASSUME NEW l \in 0 .. BlockSize - 1
        PROVE  Score(call, rows.k + l) = NegInf
    <3>1. l \in Lanes /\ l < BlockSize
      BY <1>3, BlockAssumption DEF Lanes
    <3> QED
      BY NegInfAssumption, <2>2, <2>4, <2>5, <3>1
  <2>7. State' = Walk(State, call, Here, BlockSize)[BlockSize]
    BY <1>2, <1>3, <1>4, <2>6, MaskedWalk
  <2>8. Here + BlockSize <= call.end
    BY <1>3, <1>4
  <2> QED
    BY <1>1, <1>3, <2>1, <2>7, <2>8, Attends
<1> QED
  BY <1>5, <1>6

LEMMA FastAttends ==
    ASSUME Places, Scores, pc = "fast", pc' = "advance", UNCHANGED <<kernel, call, rows, n>>,
           NEW a, NEW b, State = [M |-> Top, S |-> a, VKQ |-> b],
           State' = [M |-> Top, S |-> AddLanes(a, Top, Block), VKQ |-> AddLanes(b, Top, n)]
    PROVE  Attn!Next
<1>1. n \in 1 .. left /\ n <= Block /\ left \in Nat /\ rows.k + left = call.end
      /\ rows.k \in Nat /\ rows.v = rows.k /\ n \in Nat
  BY CallTypes DEF Places, Loops, InBlock
<1>2. Here = rows.k /\ Here' = rows.k + n
  BY <1>1 DEF Here, Offset
<1>3. Top \in Int /\ Top >= NegInf \div 2
  BY DEF Scores, Top
<1>4. AddLanes(a, Top, Block) = Sums(a, s, rows.k, Top, Block)[Block]
      /\ AddLanes(b, Top, n) = Sums(b, s, rows.k, Top, n)[n]
  BY <1>1, Zenon DEF AddLanes, Sums
<1>5. \A l \in Lanes : s[l] = IF l < n THEN Score(call, rows.k + l) ELSE NegInf
  BY DEF Scores
<1>6. Sums(a, s, rows.k, Top, Block)[Block] = Sums(a, s, rows.k, Top, Block)[n]
  <2>1. \A l \in n .. Block - 1 : s[l] = NegInf
    BY <1>1, <1>5, BlockAssumption DEF Lanes
  <2> QED
    BY <1>1, <1>3, <2>1, IdleLanes, BlockAssumption
<1>7. ASSUME NEW l \in 0 .. n - 1
      PROVE  s[l] = Score(call, rows.k + l) /\ s[l] \in Int /\ s[l] <= Top
  <2>1. l \in Lanes /\ l < n /\ rows.k + l \in Positions(call) /\ call \in Calls
    BY <1>1, CallTypes, BlockAssumption DEF Lanes, Positions, Places
  <2>2. s[l] = Score(call, rows.k + l)
    BY <1>5, <2>1
  <2> QED
    BY <2>1, <2>2, ScoreTypes DEF Scores
<1>8. Walk([M |-> Top, S |-> a, VKQ |-> b], call, rows.k, n)[n] =
        [M |-> Top, S |-> Sums(a, s, rows.k, Top, Block)[n], VKQ |-> Sums(b, s, rows.k, Top, n)[n]]
  <2>1. n <= Block /\ Block \in Nat /\ n <= n
    BY <1>1, BlockAssumption
  <2>2. \A l \in 0 .. n - 1 : s[l] = Score(call, rows.k + l) /\ s[l] \in Int /\ s[l] <= Top
    BY <1>7
  <2> QED
    BY ONLY <1>1, <1>3, <2>1, <2>2, FastWalk
<1>9. State' = Walk(State, call, Here, n)[n]
  BY <1>2, <1>4, <1>6, <1>8, Zenon
<1>10. n \in 1 .. Block /\ Here + n <= call.end /\ Here' = Here + n
  BY <1>1, <1>2, BlockAssumption
<1> QED
  BY <1>9, <1>10, Attends

LEMMA LaneAttends ==
    ASSUME Places, Scores, pc = "exact", NextLane,
           State' = Position(State, s[i], rows.v + i)
    PROVE  Attn!Next
<1>1. n \in 1 .. left /\ i \in 0 .. n - 1 /\ left \in Nat
      /\ rows.k \in Nat /\ rows.v = rows.k
  BY CallTypes DEF Places, Loops, InBlock
<1>2. s[i] = Score(call, rows.k + i) /\ rows.k + i \in Nat /\ rows.k + i < call.end
  BY LaneScores
<1>3. Here = rows.k + i
  BY DEF Here, Offset
<1>4. Here' = Here + 1
  <2>1. i' = i + 1 /\ pc' = (IF i' < n THEN "exact" ELSE "advance") /\ UNCHANGED <<rows, n>>
    BY DEF NextLane
  <2> QED
    BY <1>1, <1>3, <2>1 DEF Here, Offset
<1>5. State' = Walk(State, call, Here, 1)[1]
  BY <1>1, <1>2, <1>3, OneWalk
<1>6. Here + 1 <= call.end
  BY <1>2, <1>3, CallTypes DEF Places
<1>7. UNCHANGED call
  BY DEF NextLane
<1> QED
  BY <1>4, <1>5, <1>6, <1>7, Attends, BlockAssumption

LEMMA FastFhmAttends == Places /\ Scores /\ fhmFast => Attn!Next
<1> SUFFICES ASSUME Places, Scores, fhmFast PROVE Attn!Next
  OBVIOUS
<1> DEFINE a == memory.S
           b == VKQ16
           S1 == AddLanes(memory.S, memory.M, Block)
           V1 == AddLanes(VKQ16, memory.M, n)
<1>1. /\ kernel = "fhm" /\ pc = "fast" /\ pc' = "advance" /\ UNCHANGED <<kernel, call, rows, n>>
      /\ memory' = [memory EXCEPT !.S = S1] /\ VKQ16' = V1 /\ UNCHANGED reg
  BY DEF fhmFast
<1>2. Top = memory.M
  BY <1>1 DEF Top
<1> HIDE DEF S1, V1
<1>3. State = [M |-> memory.M, S |-> a, VKQ |-> b]
  BY <1>1 DEF State, InRegisters, InHalves
<1>4. State' = [M |-> memory.M, S |-> S1, VKQ |-> V1]
  BY <1>1 DEF State, InRegisters, InHalves, Scores
<1>5. State = [M |-> Top, S |-> a, VKQ |-> b]
      /\ State' = [M |-> Top, S |-> AddLanes(a, Top, Block), VKQ |-> AddLanes(b, Top, n)]
  BY <1>2, <1>3, <1>4, Zenon DEF S1, V1
<1> QED
  BY <1>1, <1>5, FastAttends

LEMMA FastX64Attends == Places /\ Scores /\ x64Fast => Attn!Next
<1> SUFFICES ASSUME Places, Scores, x64Fast PROVE Attn!Next
  OBVIOUS
<1> DEFINE a == reg.S
           b == memory.VKQ
           S1 == AddLanes(reg.S, reg.M, Block)
           V1 == AddLanes(memory.VKQ, reg.M, n)
<1>1. /\ kernel = "amd64" /\ pc = "fast" /\ pc' = "advance" /\ UNCHANGED <<kernel, call, rows, n>>
      /\ reg' = [reg EXCEPT !.S = S1] /\ memory' = [memory EXCEPT !.VKQ = V1]
  BY DEF x64Fast
<1>2. Top = reg.M
  BY <1>1 DEF Top
<1> HIDE DEF S1, V1
<1>3. State = [M |-> reg.M, S |-> a, VKQ |-> b]
  BY <1>1 DEF State, InRegisters, InHalves
<1>4. State' = [M |-> reg.M, S |-> S1, VKQ |-> V1]
  BY <1>1 DEF State, InRegisters, InHalves, Scores
<1>5. State = [M |-> Top, S |-> a, VKQ |-> b]
      /\ State' = [M |-> Top, S |-> AddLanes(a, Top, Block), VKQ |-> AddLanes(b, Top, n)]
  BY <1>2, <1>3, <1>4, Zenon DEF S1, V1
<1> QED
  BY <1>1, <1>5, FastAttends

LEMMA LaneFhmAttends == Places /\ Scores /\ fhmExact => Attn!Next
<1> SUFFICES ASSUME Places, Scores, fhmExact PROVE Attn!Next
  OBVIOUS
<1> DEFINE p == rows.v + i
           S1 == Add(Mul(memory.S, memory.M - s[i]), 0, p)
           V1 == Add(Mul(VKQ16, memory.M - s[i]), 0, p)
           S2 == Add(memory.S, s[i] - memory.M, p)
           V2 == Add(VKQ16, s[i] - memory.M, p)
<1>1. /\ kernel = "fhm" /\ pc = "exact" /\ pc' \in {"exact", "advance"} /\ NextLane
      /\ UNCHANGED <<kernel, reg>>
  BY DEF fhmExact, NextLane
<1>2. s[i] \in Int /\ memory.M \in Int
  BY <1>1, LaneScores DEF Scores
<1>3. /\ State = [M |-> memory.M, S |-> memory.S, VKQ |-> VKQ16]
      /\ State' = [M |-> memory'.M, S |-> memory'.S, VKQ |-> VKQ16']
  BY <1>1 DEF State, InRegisters, InHalves
<1>4. Clamp(memory.M - s[i]) \in Int /\ Clamp(s[i] - memory.M) \in Int
  BY <1>2 DEF Clamp
<1>5. State' = Position(State, s[i], p)
  <2>1. CASE s[i] = NegInf
    <3>1. UNCHANGED <<memory, VKQ16>>
      BY <2>1 DEF fhmExact
    <3> QED
      BY <1>3, <2>1, <3>1 DEF Position
  <2>2. CASE s[i] # NegInf /\ s[i] > memory.M
    <3>1. /\ memory' = [memory EXCEPT !.M = s[i],
                          !.S = Add(Mul(memory.S, Clamp(memory.M - s[i])), 0, p)]
          /\ VKQ16' = Add(Mul(VKQ16, Clamp(memory.M - s[i])), 0, p)
      BY <2>2 DEF fhmExact
    <3>2. /\ Mul(memory.S, Clamp(memory.M - s[i])) = Mul(memory.S, memory.M - s[i])
          /\ Mul(VKQ16, Clamp(memory.M - s[i])) = Mul(VKQ16, memory.M - s[i])
      BY <1>2, ClampedWeights
    <3>3. memory' = [memory EXCEPT !.M = s[i], !.S = S1] /\ VKQ16' = V1
      BY <3>1, <3>2, Zenon
    <3>4. Position(State, s[i], p) = [M |-> s[i], S |-> S1, VKQ |-> V1]
      BY <1>2, <1>3, <2>2 DEF Position
    <3> HIDE DEF S1, V1
    <3>5. State' = [M |-> s[i], S |-> S1, VKQ |-> V1]
      BY <1>3, <3>3 DEF Scores
    <3> QED
      BY <3>4, <3>5, Zenon
  <2>3. CASE s[i] # NegInf /\ ~(s[i] > memory.M)
    <3>1. /\ memory' = [memory EXCEPT !.S = Add(memory.S, Clamp(s[i] - memory.M), p)]
          /\ VKQ16' = Add(VKQ16, Clamp(s[i] - memory.M), p)
      BY <2>3 DEF fhmExact
    <3>2. /\ Add(memory.S, Clamp(s[i] - memory.M), p) = S2
          /\ Add(VKQ16, Clamp(s[i] - memory.M), p) = V2
      BY <1>2, ClampedWeights
    <3>3. memory' = [memory EXCEPT !.S = S2] /\ VKQ16' = V2
      BY <3>1, <3>2, Zenon
    <3>4. Position(State, s[i], p) = [M |-> memory.M, S |-> S2, VKQ |-> V2]
      BY <1>2, <1>3, <2>3 DEF Position
    <3> HIDE DEF S2, V2
    <3>5. State' = [M |-> memory.M, S |-> S2, VKQ |-> V2]
      BY <1>3, <3>3 DEF Scores
    <3> QED
      BY <3>4, <3>5, Zenon
  <2> QED
    BY <2>1, <2>2, <2>3
<1> QED
  BY <1>1, <1>5, LaneAttends

LEMMA LaneX64Attends == Places /\ Scores /\ x64Exact => Attn!Next
<1> SUFFICES ASSUME Places, Scores, x64Exact PROVE Attn!Next
  OBVIOUS
<1> DEFINE p == rows.v + i
           S1 == Add(Mul(reg.S, reg.M - s[i]), 0, p)
           V1 == Add(Mul(memory.VKQ, reg.M - s[i]), 0, p)
           S2 == Add(reg.S, s[i] - reg.M, p)
           V2 == Add(memory.VKQ, s[i] - reg.M, p)
<1>1. /\ kernel = "amd64" /\ pc = "exact" /\ pc' \in {"exact", "advance"} /\ NextLane
      /\ UNCHANGED kernel
  BY DEF x64Exact, NextLane
<1>2. s[i] \in Int /\ reg.M \in Int
  BY <1>1, LaneScores DEF Scores
<1>3. /\ State = [M |-> reg.M, S |-> reg.S, VKQ |-> memory.VKQ]
      /\ State' = [M |-> reg'.M, S |-> reg'.S, VKQ |-> memory'.VKQ]
  BY <1>1 DEF State, InRegisters, InHalves
<1>5. State' = Position(State, s[i], p)
  <2>1. CASE s[i] = NegInf
    <3>1. UNCHANGED <<memory, reg>>
      BY <2>1 DEF x64Exact
    <3> QED
      BY <1>3, <2>1, <3>1 DEF Position
  <2>2. CASE s[i] # NegInf /\ s[i] > reg.M
    <3>1. /\ reg' = [M |-> s[i], S |-> Add(Mul(reg.S, Clamp(reg.M - s[i])), 0, p)]
          /\ memory' = [memory EXCEPT !.VKQ = Add(Mul(memory.VKQ, Clamp(reg.M - s[i])), 0, p)]
      BY <2>2 DEF x64Exact
    <3>2. /\ Mul(reg.S, Clamp(reg.M - s[i])) = Mul(reg.S, reg.M - s[i])
          /\ Mul(memory.VKQ, Clamp(reg.M - s[i])) = Mul(memory.VKQ, reg.M - s[i])
      BY <1>2, ClampedWeights
    <3>3. reg' = [M |-> s[i], S |-> S1] /\ memory' = [memory EXCEPT !.VKQ = V1]
      BY <3>1, <3>2, Zenon
    <3>4. Position(State, s[i], p) = [M |-> s[i], S |-> S1, VKQ |-> V1]
      BY <1>2, <1>3, <2>2 DEF Position
    <3> HIDE DEF S1, V1
    <3>5. State' = [M |-> s[i], S |-> S1, VKQ |-> V1]
      BY <1>3, <3>3 DEF Scores
    <3> QED
      BY <3>4, <3>5, Zenon
  <2>3. CASE s[i] # NegInf /\ ~(s[i] > reg.M)
    <3>1. /\ reg' = [reg EXCEPT !.S = Add(reg.S, Clamp(s[i] - reg.M), p)]
          /\ memory' = [memory EXCEPT !.VKQ = Add(memory.VKQ, Clamp(s[i] - reg.M), p)]
      BY <2>3 DEF x64Exact
    <3>2. /\ Add(reg.S, Clamp(s[i] - reg.M), p) = S2
          /\ Add(memory.VKQ, Clamp(s[i] - reg.M), p) = V2
      BY <1>2, ClampedWeights
    <3>3. reg' = [reg EXCEPT !.S = S2] /\ memory' = [memory EXCEPT !.VKQ = V2]
      BY <3>1, <3>2, Zenon
    <3>4. Position(State, s[i], p) = [M |-> reg.M, S |-> S2, VKQ |-> V2]
      BY <1>2, <1>3, <2>3 DEF Position
    <3> HIDE DEF S2, V2
    <3>5. State' = [M |-> reg.M, S |-> S2, VKQ |-> V2]
      BY <1>3, <3>3 DEF Scores
    <3> QED
      BY <3>4, <3>5, Zenon
  <2> QED
    BY <2>1, <2>2, <2>3
<1> QED
  BY <1>1, <1>5, LaneAttends

LEMMA NextAttention == Places /\ Scores /\ [Next]_vars => [Attn!Next]_(Attn!attnvars)
<1> SUFFICES ASSUME Places, Scores, [Next]_vars
             PROVE  Attn!Next \/ UNCHANGED Attn!attnvars
  OBVIOUS
<1>1. CASE prologue \/ x64Prologue
  <2>1. /\ pc = "prologue" /\ UNCHANGED <<call, rows, memory>>
        /\ pc' \in {"pos", "done", "block"} => reg' = [M |-> memory.M, S |-> memory.S]
        /\ pc' \in {"trap", "done", "ret", "convert", "pos", "block"}
        /\ pc' = "block" => kernel = "amd64" /\ kernel' = "amd64"
    <3>1. CASE prologue
      <4>1. kernel # "amd64" /\ Enter("done", IF Blocked THEN "convert" ELSE "pos")
            /\ (PointersFit => reg' = [M |-> memory.M, S |-> memory.S])
        BY <3>1 DEF prologue
      <4>2. pc' = "trap" \/ (PointersFit /\ pc' \in {"done", "convert", "pos"})
        BY <4>1, CallTypes DEF Enter, Places
      <4> QED
        BY <4>1, <4>2 DEF Enter
    <3>2. CASE x64Prologue
      <4>1. pc' \in {"trap", "ret", "block"}
        BY <3>2, CallTypes DEF x64Prologue, Enter, Places
      <4>2. kernel = "amd64" /\ Enter("ret", "block")
            /\ (pc' = "block" => reg' = [M |-> memory.M, S |-> memory.S])
        BY <3>2 DEF x64Prologue
      <4> QED
        BY <4>1, <4>2 DEF Enter
    <3> QED
      BY <1>1, <3>1, <3>2
  <2>2. UNCHANGED Here
    BY <2>1 DEF Here, Offset
  <2>3. State = [M |-> memory.M, S |-> memory.S, VKQ |-> memory.VKQ]
    BY <2>1 DEF State, InRegisters, InHalves
  <2>4. State' = [M |-> memory.M, S |-> memory.S, VKQ |-> memory.VKQ]
    BY <2>1 DEF State, InRegisters, InHalves
  <2> QED
    BY <2>1, <2>2, <2>3, <2>4, Stutters
<1>2. CASE perPositionLoop
  BY <1>2, PositionAttends
<1>3. CASE epilogue
  <2>1. pc = "done" /\ pc' = "ret" /\ UNCHANGED <<call, rows>>
        /\ memory' = [memory EXCEPT !.M = reg.M, !.S = reg.S]
    BY <1>3 DEF epilogue
  <2>2. memory' = [M |-> reg.M, S |-> reg.S, VKQ |-> memory.VKQ]
    BY <2>1 DEF Scores
  <2>3. UNCHANGED Here
    BY <2>1 DEF Here, Offset
  <2>4. State' = State
    BY <2>1, <2>2 DEF State, InRegisters, InHalves
  <2> QED
    BY <2>1, <2>3, <2>4, Stutters
<1>4. CASE fhmConvertIn
  <2>1. pc = "convert" /\ pc' = "block" /\ UNCHANGED <<kernel, call, rows, memory>>
        /\ VKQ16' = memory.VKQ
    BY <1>4 DEF fhmConvertIn
  <2>2. kernel = "fhm"
    BY <2>1 DEF Scores
  <2>3. UNCHANGED Here
    BY <2>1 DEF Here, Offset
  <2>4. State' = State
    BY <2>1, <2>2 DEF State, InRegisters, InHalves
  <2> QED
    BY <2>1, <2>3, <2>4, Stutters
<1>5. CASE fhmBlock \/ x64Block
  <2>1. BlockScores(Top)
    BY <1>5 DEF fhmBlock, x64Block, Top
  <2> QED
    BY <2>1, BlockAttends
<1>6. CASE fhmFast
  BY <1>6, FastFhmAttends
<1>7. CASE x64Fast
  BY <1>7, FastX64Attends
<1>8. CASE fhmExact
  BY <1>8, LaneFhmAttends
<1>9. CASE x64Exact
  BY <1>9, LaneX64Attends
<1>10. CASE fhmAdvance \/ x64Advance
  <2>1. /\ pc = "advance" /\ UNCHANGED <<kernel, call, n, reg, VKQ16, memory>> /\ Advance(n)
        /\ \/ kernel = "fhm" /\ pc' \in {"block", "convertout"}
           \/ kernel = "amd64" /\ pc' \in {"block", "done"}
    BY <1>10 DEF fhmAdvance, x64Advance, NextBlock
  <2>2. rows.k \in Nat /\ n \in Nat /\ rows'.k = rows.k + n
    BY <2>1 DEF Places, InBlock, Advance
  <2>3. UNCHANGED Here
    BY <2>1, <2>2 DEF Here, Offset
  <2>4. State' = State
    BY <2>1 DEF State, InRegisters, InHalves
  <2> QED
    BY <2>1, <2>3, <2>4, Stutters
<1>11. CASE fhmConvertOut
  <2>1. /\ pc = "convertout" /\ pc' = "done" /\ UNCHANGED <<kernel, call, rows>>
        /\ memory' = [memory EXCEPT !.VKQ = VKQ16]
        /\ reg' = [M |-> memory.M, S |-> memory.S]
    BY <1>11 DEF fhmConvertOut
  <2>2. kernel = "fhm"
    BY <2>1 DEF Scores
  <2>3. UNCHANGED Here
    BY <2>1 DEF Here, Offset
  <2>4. memory'.VKQ = VKQ16
    BY <2>1 DEF Scores
  <2>5. State' = State
    BY <2>1, <2>2, <2>4 DEF State, InRegisters, InHalves
  <2> QED
    BY <2>1, <2>3, <2>5, Stutters
<1>12. CASE UNCHANGED vars
  <2>1. UNCHANGED <<kernel, call, rows, pc, n, i, reg, VKQ16, memory>>
    BY <1>12 DEF vars
  <2>2. UNCHANGED <<Here, State>>
    BY <2>1 DEF Here, Offset, State, InRegisters, InHalves
  <2> QED
    BY <2>1, <2>2, Stutters
<1> QED
  BY <1>1, <1>2, <1>3, <1>4, <1>5, <1>6, <1>7, <1>8, <1>9, <1>10, <1>11, <1>12 DEF Next

\* Every kernel implements the recurrence, rounding for rounding, for any
\* scores, any number of positions and any size of block: the scores a block
\* hides from the maximum, the lanes past the last position, the clamp of the
\* exponents and the state that moves between memory, registers and halves
\* change no addition and no multiplication.
THEOREM BlocksChangeNothing == Spec => ImplementsRecurrence
<1> QED
  BY InitPlaces, InitScores, InitAttention, NextPlaces, NextScores, NextAttention, PTL
     DEF Spec, ImplementsRecurrence, Attn!Spec

-----------------------------------------------------------------------------
(* What a position weighs in a log, entry by entry. *)

Entry == {<<"mul", e>> : e \in Int} \cup {<<"add", e, p>> : e \in Int, p \in Nat}

\* The weights w of p after the entry x.
Weighed(w, x, p) ==
    CASE x[1] = "mul" -> [e \in DOMAIN w |-> w[e] + x[2]]
      [] x[1] = "add" /\ x[3] = p -> Append(w, x[2])
      [] OTHER -> w

Weighing(log, p) ==
    LET w[j \in 0 .. Len(log)] ==
            IF j = 0 THEN <<>>
            ELSE CASE log[j][1] = "mul" -> [e \in DOMAIN w[j - 1] |-> w[j - 1][e] + log[j][2]]
                   [] log[j][1] = "add" /\ log[j][3] = p -> Append(w[j - 1], log[j][2])
                   [] OTHER -> w[j - 1]
    IN w

LEMMA WeighingExists ==
    ASSUME NEW log, NEW p, Len(log) \in Nat
    PROVE  Weighing(log, p) =
             [j \in 0 .. Len(log) |->
                IF j = 0 THEN <<>>
                ELSE Weighed(Weighing(log, p)[j - 1], log[j], p)]
<1> DEFINE k == Len(log)
<1>k. k \in Nat
  OBVIOUS
<1> HIDE DEF k
<1> DEFINE Body(f, j) == IF j = 0 THEN <<>>
                         ELSE Weighed(f[j - 1], log[j], p)
           Good(f, m) == f = [j \in 0 .. m |-> Body(f, j)]
           S == {m \in Nat : \E f : Good(f, m)}
<1>1. 0 \in S
  <2>1. Good([j \in 0 .. 0 |-> <<>>], 0)
    OBVIOUS
  <2> QED
    BY <2>1
<1>2. ASSUME NEW m \in S, m \in 0 .. k - 1
      PROVE  m + 1 \in S
  <2>1. m \in Nat
    OBVIOUS
  <2>2. PICK f : Good(f, m)
    OBVIOUS
  <2> DEFINE g == [j \in 0 .. m + 1 |-> IF j <= m THEN f[j] ELSE Body(f, m + 1)]
  <2>3. ASSUME NEW j \in 0 .. m + 1
        PROVE  g[j] = Body(g, j)
    <3>1. CASE j = 0
      BY <2>1, <2>2, <3>1
    <3>2. CASE j # 0
      <4>1. j - 1 \in 0 .. m /\ g[j - 1] = f[j - 1]
        BY <2>1, <3>2
      <4>2. Body(g, j) = Body(f, j)
        BY <3>2, <4>1
      <4>3. j <= m => f[j] = Body(f, j)
        BY <2>1, <2>2
      <4>4. ~(j <= m) => j = m + 1
        BY <2>1
      <4>5. g[j] = Body(f, j)
        BY <4>3, <4>4
      <4> QED
        BY <4>2, <4>5
    <3> QED
      BY <3>1, <3>2
  <2>4. Good(g, m + 1)
    BY <2>3
  <2>5. \E h : Good(h, m + 1)
    <3> HIDE DEF g, Good
    <3> QED
      BY <2>4
  <2> QED
    BY <2>1, <2>5
<1>3. 0 .. k \subseteq S
  <2> HIDE DEF S
  <2> QED
    BY <1>1, <1>2, <1>k, UpTo
<1>4. PICK f : Good(f, k)
  <2>1. k \in S
    BY <1>3, <1>k
  <2> HIDE DEF Good
  <2> QED
    BY <2>1
<1>5. Weighing(log, p) = CHOOSE h : Good(h, k)
  BY DEF k, Weighing, Weighed
<1> QED
  BY <1>4, <1>5 DEF k

LEMMA WeighingSteps ==
    ASSUME NEW log, NEW p, Len(log) \in Nat
    PROVE  /\ Weighing(log, p)[0] = <<>>
           /\ \A j \in 1 .. Len(log) :
                 Weighing(log, p)[j] = Weighed(Weighing(log, p)[j - 1], log[j], p)
<1> DEFINE w == Weighing(log, p)
<1>1. w = [j \in 0 .. Len(log) |-> IF j = 0 THEN <<>> ELSE Weighed(w[j - 1], log[j], p)]
  BY WeighingExists
<1> HIDE DEF w
<1>2. /\ w[0] = <<>>
      /\ \A j \in 1 .. Len(log) : w[j] = Weighed(w[j - 1], log[j], p)
  BY <1>1
<1> QED
  BY <1>2 DEF w

LEMMA WeightsAre ==
    ASSUME NEW log, NEW p
    PROVE  Weights(log, p) = Weighing(log, p)[Len(log)]
BY Zenon DEF Weights, Weighing

LEMMA WeightsOfNothing ==
    ASSUME NEW p
    PROVE  Weights(<<>>, p) = <<>>
<1>1. Len(<<>>) = 0
  OBVIOUS
<1> QED
  BY <1>1, WeighingSteps, WeightsAre

LEMMA WeightsOfAppend ==
    ASSUME NEW log \in Seq(Entry), NEW x \in Entry, NEW p
    PROVE  Weights(Append(log, x), p) = Weighed(Weights(log, p), x, p)
<1> DEFINE k == Len(log)
           v == Weighing(log, p)
           w == Weighing(Append(log, x), p)
           S == {j \in Nat : w[j] = v[j]}
<1>1. /\ k \in Nat /\ Len(Append(log, x)) = k + 1 /\ Append(log, x)[k + 1] = x
      /\ \A j \in 1 .. k : Append(log, x)[j] = log[j]
  OBVIOUS
<1>2. /\ v[0] = <<>>
      /\ \A j \in 1 .. k : v[j] = Weighed(v[j - 1], log[j], p)
  BY <1>1, WeighingSteps
<1>3. /\ w[0] = <<>>
      /\ \A j \in 1 .. k + 1 : w[j] = Weighed(w[j - 1], Append(log, x)[j], p)
  <2> DEFINE a == Append(log, x)
  <2>1. Len(a) \in Nat /\ Len(a) = k + 1
    BY <1>1
  <2> HIDE DEF a, k
  <2>2. /\ Weighing(a, p)[0] = <<>>
        /\ \A j \in 1 .. Len(a) : Weighing(a, p)[j] = Weighed(Weighing(a, p)[j - 1], a[j], p)
    BY <2>1, WeighingSteps
  <2> QED
    BY <2>1, <2>2 DEF a
<1>4. Weights(log, p) = v[k] /\ Weights(Append(log, x), p) = w[k + 1]
  BY <1>1, WeightsAre
<1> HIDE DEF k, v, w
<1>5. 0 \in S
  BY <1>2, <1>3
<1>6. ASSUME NEW j \in S, j \in 0 .. k - 1
      PROVE  j + 1 \in S
  <2>1. j \in Nat /\ j + 1 \in 1 .. k /\ j + 1 \in 1 .. k + 1 /\ (j + 1) - 1 = j
    BY <1>1, <1>6
  <2>2. v[j + 1] = Weighed(v[j], log[j + 1], p)
    BY <1>2, <2>1
  <2>3. w[j + 1] = Weighed(w[j], log[j + 1], p)
    BY <1>1, <1>3, <2>1
  <2> QED
    BY <1>6, <2>1, <2>2, <2>3
<1>7. 0 .. k \subseteq S
  <2> HIDE DEF S
  <2> QED
    BY <1>1, <1>5, <1>6, UpTo
<1>8. w[k] = v[k]
  BY <1>1, <1>7
<1>9. k + 1 \in 1 .. k + 1 /\ (k + 1) - 1 = k
  BY <1>1
<1>10. w[k + 1] = Weighed(w[k], x, p)
  BY <1>1, <1>3, <1>9
<1> QED
  BY <1>4, <1>8, <1>10, Zenon

\* The weights w are those of one exponential, or vanish with it.
Amounts(w, x) ==
    /\ \A j \in DOMAIN w : w[j] \in Int
    /\ IF Zero(x) THEN \A j \in DOMAIN w : Zero(w[j]) ELSE w = <<x>>

\* A log after the positions of c before h, rescaled to the maximum M.
LogTells(c, h, M, log) ==
    /\ log \in Seq(Entry)
    /\ \A p \in Positions(c) :
          IF p < h /\ Score(c, p) # NegInf
          THEN Amounts(Weights(log, p), Score(c, p) - M)
          ELSE Weights(log, p) = <<>>
    /\ c.M # NegInf => Amounts(Weights(log, 0), c.M - M)

\* The state of the recurrence before position h.
Tells(c, h, st) ==
    /\ st.M \in Int /\ st.M >= c.M
    /\ st.M = c.M \/ \E p \in Positions(c) :
                        p < h /\ Score(c, p) # NegInf /\ st.M = Score(c, p)
    /\ \A p \in Positions(c) : p < h /\ Score(c, p) # NegInf => Score(c, p) <= st.M
    /\ LogTells(c, h, st.M, st.S)
    /\ LogTells(c, h, st.M, st.VKQ)

LEMMA AmountsOfNothing ==
    ASSUME NEW x, Zero(x)
    PROVE  Amounts(<<>>, x)
BY DEF Amounts

LEMMA AmountsOfOne ==
    ASSUME NEW x \in Int
    PROVE  Amounts(Append(<<>>, x), x)
<1>1. Append(<<>>, x) = <<x>> /\ DOMAIN <<x>> = 1 .. 1 /\ <<x>>[1] = x
  OBVIOUS
<1> QED
  BY <1>1 DEF Amounts

LEMMA AmountsRescaled ==
    ASSUME NEW w, NEW x \in Int, Amounts(w, x), NEW e \in Int, e <= 0
    PROVE  Amounts([j \in DOMAIN w |-> w[j] + e], x + e)
<1> DEFINE v == [j \in DOMAIN w |-> w[j] + e]
<1>1. DOMAIN v = DOMAIN w /\ \A j \in DOMAIN v : v[j] = w[j] + e /\ w[j] \in Int
  BY DEF Amounts
<1>2. CASE Zero(x)
  <2>1. \A j \in DOMAIN w : Zero(w[j])
    BY <1>2 DEF Amounts
  <2> HIDE DEF v
  <2> QED
    BY <1>1, <1>2, <2>1 DEF Amounts, Zero
<1>3. CASE ~ Zero(x)
  <2>1. w = <<x>>
    BY <1>3 DEF Amounts
  <2>2. DOMAIN <<x>> = 1 .. 1 /\ <<x>>[1] = x
    OBVIOUS
  <2>3. v = <<x + e>>
    BY <2>1, <2>2
  <2>4. DOMAIN v = 1 .. 1 /\ v[1] = x + e
    BY <2>1, <2>2
  <2>5. ~ Zero(x + e) => v = <<x + e>>
    BY <2>3
  <2>6. \A j \in DOMAIN v : v[j] = x + e
    BY <2>4
  <2> HIDE DEF v
  <2>7. Amounts(v, x + e)
    BY <2>5, <2>6 DEF Amounts
  <2> QED
    BY <2>7 DEF v
<1> QED
  BY <1>2, <1>3

\* An addition for the position h, of weight e.
LEMMA LogAdd ==
    ASSUME NEW c \in Calls, c.start # 0, NEW h \in Positions(c), NEW M \in Int, NEW log,
           LogTells(c, h, M, log), Score(c, h) # NegInf
    PROVE  LogTells(c, h + 1, M, Add(log, Score(c, h) - M, h))
<1>1. c.start \in Nat /\ c.end \in Nat /\ c.M \in Int /\ h \in Nat /\ h # 0
      /\ Positions(c) \subseteq Nat
  BY CallTypes DEF Positions
<1>2. Score(c, h) \in Int /\ \A p \in Positions(c) : Score(c, p) \in Int
  BY ScoreTypes
<1> DEFINE e == Score(c, h) - M
<1>3. e \in Int
  BY <1>2
<1>4. log \in Seq(Entry) /\ Weights(log, h) = <<>>
  BY <1>1 DEF LogTells
<1>5. \A p \in Positions(c) : p # h => ((p < h + 1) <=> (p < h))
  BY <1>1
<1>6. h < h + 1
  BY <1>1
<1> HIDE DEF e
<1>7. CASE Zero(e)
  <2>1. Add(log, e, h) = log
    BY <1>7 DEF Add
  <2>2. Amounts(Weights(log, h), e)
    BY <1>4, <1>7, AmountsOfNothing
  <2>3. ASSUME NEW p \in Positions(c)
        PROVE  IF p < h + 1 /\ Score(c, p) # NegInf
               THEN Amounts(Weights(log, p), Score(c, p) - M)
               ELSE Weights(log, p) = <<>>
    <3>1. CASE p = h
      BY <1>6, <2>2, <3>1 DEF e
    <3>2. CASE p # h
      BY <1>5, <3>2 DEF LogTells
    <3> QED
      BY <3>1, <3>2
  <2> QED
    BY <2>1, <2>3 DEF LogTells, e
<1>8. CASE ~ Zero(e)
  <2> DEFINE x == <<"add", e, h>>
             new == Append(log, x)
  <2>1. Add(log, e, h) = new
    BY <1>8 DEF Add
  <2>2. x \in Entry /\ x[1] = "add" /\ x[2] = e /\ x[3] = h
    BY <1>1, <1>3 DEF Entry
  <2> HIDE DEF x
  <2>3. new \in Seq(Entry)
    BY <1>4, <2>2
  <2>4. ASSUME NEW p
        PROVE  Weights(new, p) = IF p = h THEN Append(Weights(log, p), e) ELSE Weights(log, p)
    <3>1. Weights(new, p) = Weighed(Weights(log, p), x, p)
      BY <1>4, <2>2, WeightsOfAppend
    <3> QED
      BY <2>2, <3>1 DEF Weighed
  <2> HIDE DEF new
  <2>5. Amounts(Weights(new, h), e)
    <3>1. Weights(new, h) = Append(<<>>, e)
      BY <1>4, <2>4
    <3> QED
      BY <1>3, <3>1, AmountsOfOne
  <2>6. ASSUME NEW p \in Positions(c)
        PROVE  IF p < h + 1 /\ Score(c, p) # NegInf
               THEN Amounts(Weights(new, p), Score(c, p) - M)
               ELSE Weights(new, p) = <<>>
    <3>1. CASE p = h
      BY <1>6, <2>5, <3>1 DEF e
    <3>2. CASE p # h
      <4>1. Weights(new, p) = Weights(log, p)
        BY <2>4, <3>2
      <4> QED
        BY <1>5, <3>2, <4>1 DEF LogTells
    <3> QED
      BY <3>1, <3>2
  <2>7. Weights(new, 0) = Weights(log, 0)
    BY <1>1, <2>4
  <2> QED
    BY <2>1, <2>3, <2>6, <2>7 DEF LogTells, e
<1> QED
  BY <1>7, <1>8

\* The maximum rises from M to L.
LEMMA LogMul ==
    ASSUME NEW c \in Calls, NEW h \in Positions(c), NEW M \in Int, NEW L \in Int, M < L,
           c.M <= M, \A p \in Positions(c) : p < h /\ Score(c, p) # NegInf => Score(c, p) <= M,
           NEW log, LogTells(c, h, M, log)
    PROVE  LogTells(c, h, L, Mul(log, M - L))
<1>1. c.M \in Int /\ \A p \in Positions(c) : Score(c, p) \in Int
  BY CallTypes, ScoreTypes
<1> DEFINE e == M - L
<1>2. e \in Int /\ e < 0
  OBVIOUS
<1>3. log \in Seq(Entry)
  BY DEF LogTells
<1>4. CASE Zero(e)
  <2>1. Mul(log, e) = <<>>
    BY <1>4 DEF Mul
  <2>2. <<>> \in Seq(Entry)
    OBVIOUS
  <2>3. \A p : Weights(<<>>, p) = <<>>
    BY WeightsOfNothing
  <2>4. \A x \in Int : x <= M => Zero(x - L)
    BY <1>4 DEF Zero
  <2>5. \A x \in Int : x <= M => Amounts(<<>>, x - L)
    BY <2>4, AmountsOfNothing
  <2>6. ASSUME NEW p \in Positions(c)
        PROVE  IF p < h /\ Score(c, p) # NegInf
               THEN Amounts(Weights(<<>>, p), Score(c, p) - L)
               ELSE Weights(<<>>, p) = <<>>
    <3>1. p < h /\ Score(c, p) # NegInf => Amounts(<<>>, Score(c, p) - L)
      BY <1>1, <2>5
    <3>2. Weights(<<>>, p) = <<>>
      BY <2>3
    <3>3. p < h /\ Score(c, p) # NegInf => Amounts(Weights(<<>>, p), Score(c, p) - L)
      BY <3>1, <3>2, Zenon
    <3> QED
      BY <3>2, <3>3
  <2>7. Amounts(Weights(<<>>, 0), c.M - L)
    BY <1>1, <2>3, <2>5
  <2> QED
    BY <2>1, <2>2, <2>6, <2>7 DEF LogTells
<1>5. CASE ~ Zero(e)
  <2> DEFINE x == <<"mul", e>>
             new == Append(log, x)
  <2>1. Mul(log, e) = new
    BY <1>2, <1>5 DEF Mul
  <2>2. x \in Entry /\ x[1] = "mul" /\ x[2] = e
    BY <1>2 DEF Entry
  <2> HIDE DEF x
  <2>3. new \in Seq(Entry)
    BY <1>3, <2>2
  <2>4. ASSUME NEW p
        PROVE  Weights(new, p) = [j \in DOMAIN Weights(log, p) |-> Weights(log, p)[j] + e]
    <3>1. Weights(new, p) = Weighed(Weights(log, p), x, p)
      BY <1>3, <2>2, WeightsOfAppend
    <3> QED
      BY <2>2, <3>1 DEF Weighed
  <2> HIDE DEF new
  <2>5. ASSUME NEW p, NEW y \in Int, Amounts(Weights(log, p), y - M)
        PROVE  Amounts(Weights(new, p), y - L)
    <3>1. y - M \in Int /\ (y - M) + e = y - L
      OBVIOUS
    <3>2. Amounts([j \in DOMAIN Weights(log, p) |-> Weights(log, p)[j] + e], (y - M) + e)
      <4> HIDE DEF e
      <4> QED
        BY <1>2, <2>5, <3>1, AmountsRescaled
    <3> QED
      BY <2>4, <3>1, <3>2
  <2>6. ASSUME NEW p, Weights(log, p) = <<>>
        PROVE  Weights(new, p) = <<>>
    BY <2>4, <2>6
  <2>7. ASSUME NEW p \in Positions(c)
        PROVE  IF p < h /\ Score(c, p) # NegInf
               THEN Amounts(Weights(new, p), Score(c, p) - L)
               ELSE Weights(new, p) = <<>>
    BY <1>1, <2>5, <2>6 DEF LogTells
  <2>8. c.M # NegInf => Amounts(Weights(new, 0), c.M - L)
    BY <1>1, <2>5 DEF LogTells
  <2> QED
    BY <2>1, <2>3, <2>7, <2>8 DEF LogTells
<1> QED
  BY <1>4, <1>5

LEMMA LogSkip ==
    ASSUME NEW c \in Calls, NEW h \in Positions(c), NEW M \in Int, NEW log,
           LogTells(c, h, M, log), Score(c, h) = NegInf
    PROVE  LogTells(c, h + 1, M, log)
<1>1. \A p \in Positions(c) : p # h => ((p < h + 1) <=> (p < h))
  BY CallTypes DEF Positions
<1>2. ~(h < h)
  BY CallTypes DEF Positions
<1> QED
  BY <1>1, <1>2 DEF LogTells

LEMMA PositionTells ==
    ASSUME NEW c \in Calls, c.start # 0, NEW h \in Positions(c), NEW st, Tells(c, h, st)
    PROVE  Tells(c, h + 1, Position(st, Score(c, h), h))
<1> DEFINE x == Score(c, h)
           new == Position(st, x, h)
<1>1. x \in Int /\ c.M \in Int /\ h \in Nat /\ Positions(c) \subseteq Nat
      /\ \A p \in Positions(c) : Score(c, p) \in Int
  BY CallTypes, ScoreTypes DEF Positions
<1>2. \A p \in Positions(c) : p < h + 1 => p = h \/ p < h
  BY <1>1
<1>3. \A p \in Positions(c) : p < h => p < h + 1
  BY <1>1
<1>4. h < h + 1 /\ st.M \in Int /\ st.M >= c.M
  BY <1>1 DEF Tells
<1>5. CASE x = NegInf
  <2>1. new = st
    BY <1>5 DEF Position
  <2>2. LogTells(c, h + 1, st.M, st.S) /\ LogTells(c, h + 1, st.M, st.VKQ)
    BY <1>5, LogSkip DEF Tells
  <2>3. \A p \in Positions(c) : p < h + 1 /\ Score(c, p) # NegInf => Score(c, p) <= st.M
    BY <1>2, <1>5 DEF Tells
  <2>4. st.M = c.M \/ \E p \in Positions(c) :
                         p < h + 1 /\ Score(c, p) # NegInf /\ st.M = Score(c, p)
    BY <1>3 DEF Tells
  <2> HIDE DEF x, new
  <2>5. Tells(c, h + 1, st)
    BY <1>4, <2>2, <2>3, <2>4 DEF Tells
  <2> QED
    BY <2>1, <2>5 DEF x, new
<1>6. CASE x # NegInf /\ x > st.M
  <2>1. /\ new.M = x
        /\ new.S = Add(Mul(st.S, st.M - x), 0, h)
        /\ new.VKQ = Add(Mul(st.VKQ, st.M - x), 0, h)
    BY <1>6 DEF Position
  <2>2. \A p \in Positions(c) : p < h /\ Score(c, p) # NegInf => Score(c, p) <= st.M
    BY DEF Tells
  <2>3. LogTells(c, h, x, Mul(st.S, st.M - x)) /\ LogTells(c, h, x, Mul(st.VKQ, st.M - x))
    <3> HIDE DEF x
    <3> QED
      BY <1>1, <1>4, <1>6, <2>2, LogMul DEF Tells
  <2>4. x - x = 0
    BY <1>1
  <2>5. LogTells(c, h + 1, x, new.S) /\ LogTells(c, h + 1, x, new.VKQ)
    <3>1. \A log : LogTells(c, h, x, log) => LogTells(c, h + 1, x, Add(log, x - x, h))
      BY <1>1, <1>6, LogAdd
    <3> HIDE DEF x, new
    <3> QED
      BY <2>1, <2>3, <2>4, <3>1
  <2>6. \A p \in Positions(c) : p < h + 1 /\ Score(c, p) # NegInf => Score(c, p) <= x
    BY <1>1, <1>2, <1>4, <1>6, <2>2
  <2>7. \E p \in Positions(c) : p < h + 1 /\ Score(c, p) # NegInf /\ x = Score(c, p)
    BY <1>4, <1>6
  <2>8. x >= c.M
    BY <1>1, <1>4, <1>6
  <2> HIDE DEF x, new
  <2>9. Tells(c, h + 1, new)
    BY <1>1, <2>1, <2>5, <2>6, <2>7, <2>8 DEF Tells
  <2> QED
    BY <2>9 DEF x, new
<1>7. CASE x # NegInf /\ ~(x > st.M)
  <2>1. /\ new.M = st.M
        /\ new.S = Add(st.S, x - st.M, h)
        /\ new.VKQ = Add(st.VKQ, x - st.M, h)
    BY <1>7 DEF Position
  <2>2. LogTells(c, h + 1, st.M, new.S) /\ LogTells(c, h + 1, st.M, new.VKQ)
    <3>1. \A log : LogTells(c, h, st.M, log) => LogTells(c, h + 1, st.M, Add(log, x - st.M, h))
      BY <1>4, <1>7, LogAdd
    <3> HIDE DEF x, new
    <3> QED
      BY <2>1, <3>1 DEF Tells
  <2>3. \A p \in Positions(c) : p < h + 1 /\ Score(c, p) # NegInf => Score(c, p) <= st.M
    BY <1>1, <1>2, <1>4, <1>7 DEF Tells
  <2>4. st.M = c.M \/ \E p \in Positions(c) :
                         p < h + 1 /\ Score(c, p) # NegInf /\ st.M = Score(c, p)
    BY <1>3 DEF Tells
  <2> HIDE DEF x, new
  <2>5. Tells(c, h + 1, new)
    BY <1>4, <2>1, <2>2, <2>3, <2>4 DEF Tells
  <2> QED
    BY <2>5 DEF x, new
<1> QED
  BY <1>5, <1>6, <1>7

-----------------------------------------------------------------------------
(* What a call returns. *)

\* A call that is over has been through all its positions.
Finished == pc \in {"convertout", "done", "ret"} => rows.k >= call.end

LEMMA NextFinished == Places /\ Finished /\ [Next]_vars => Finished'
<1> SUFFICES ASSUME Places, Finished, [Next]_vars PROVE Finished'
  OBVIOUS
<1>1. Places'
  BY NextPlaces
<1>2. call.end \in Nat /\ call.start \in Nat /\ rows.k \in Nat
  BY CallTypes DEF Places
<1> SUFFICES pc' \in {"convertout", "done", "ret"} => rows'.k >= call'.end
  BY <1>1 DEF Finished, Places, Loops
<1>3. CASE prologue \/ x64Prologue
  <2>1. PICK empty \in {"done", "ret"}, first \in {"convert", "pos", "block"} : Enter(empty, first)
    BY <1>3 DEF prologue, x64Prologue
  <2>2. pc = "prologue" /\ UNCHANGED <<call, rows>>
    BY <2>1 DEF Enter
  <2>3. rows.k = call.start
    BY <2>2 DEF Places
  <2>4. call.end > call.start => pc' \notin {"convertout", "done", "ret"}
    BY <2>1, <1>2 DEF Enter
  <2> QED
    BY <1>2, <2>2, <2>3, <2>4
<1>4. ASSUME NEW by \in Nat, Advance(by), UNCHANGED call, pc \in Loops,
             pc' \in {"convertout", "done", "ret"} => left' = 0
      PROVE  pc' \in {"convertout", "done", "ret"} => rows'.k >= call'.end
  <2>1. left = call.end - rows.k /\ left' = left - by /\ rows'.k = rows.k + by
    BY <1>4 DEF Places, Advance
  <2> QED
    BY <1>2, <1>4, <2>1
<1>5. CASE perPositionLoop
  <2>1. Advance(1) /\ UNCHANGED call /\ pc \in Loops /\ (pc' = "done" => left' = 0)
        /\ pc' \in {"pos", "done"}
    BY <1>5 DEF perPositionLoop, Loops
  <2> QED
    BY <1>4, <2>1
<1>6. CASE fhmAdvance \/ x64Advance
  <2>1. /\ Advance(n) /\ UNCHANGED call /\ pc = "advance"
        /\ pc' # "block" => left' = 0
        /\ pc' \in {"block", "convertout", "done"}
    BY <1>6 DEF fhmAdvance, x64Advance, NextBlock
  <2>2. n \in Nat /\ pc \in Loops
    BY <2>1 DEF Places, InBlock, Loops
  <2> QED
    BY <1>4, <2>1, <2>2
<1>7. CASE epilogue \/ fhmConvertOut \/ UNCHANGED vars
  <2>1. /\ UNCHANGED <<call, rows>>
        /\ pc' \in {"convertout", "done", "ret"} => pc \in {"convertout", "done", "ret"}
    BY <1>7 DEF epilogue, fhmConvertOut, vars
  <2> QED
    BY <2>1 DEF Finished
<1>8. CASE fhmConvertIn \/ fhmBlock \/ x64Block \/ fhmFast \/ x64Fast \/ fhmExact \/ x64Exact
  <2>1. pc' \in {"block", "fast", "exact", "advance"}
    BY <1>8 DEF fhmConvertIn, fhmBlock, x64Block, fhmFast, x64Fast, fhmExact, x64Exact,
                NextLane, BlockScores
  <2> QED
    BY <2>1
<1> QED
  BY <1>3, <1>5, <1>6, <1>7, <1>8 DEF Next

LEMMA WalkTells ==
    ASSUME NEW c \in Calls, c.start # 0, NEW from \in Nat, c.start <= from,
           NEW k \in Nat, from + k <= c.end, NEW st, Tells(c, from, st)
    PROVE  Tells(c, from + k, Walk(st, c, from, k)[k])
<1> DEFINE w == Walk(st, c, from, k)
           S == {j \in Nat : Tells(c, from + j, w[j])}
<1>1. /\ w[0] = st
      /\ \A j \in 1 .. k : w[j] = Position(w[j - 1], Score(c, from + j - 1), from + j - 1)
  BY WalkSteps
<1> HIDE DEF w
<1>2. 0 \in S
  <2>1. from + 0 = from
    OBVIOUS
  <2> QED
    BY <1>1, <2>1
<1>3. ASSUME NEW j \in S, j \in 0 .. k - 1
      PROVE  j + 1 \in S
  <2>1. /\ j \in Nat /\ j + 1 \in 1 .. k /\ (j + 1) - 1 = j /\ from + (j + 1) - 1 = from + j
        /\ (from + j) + 1 = from + (j + 1)
    BY <1>3
  <2>2. w[j + 1] = Position(w[j], Score(c, from + j), from + j)
    BY <1>1, <2>1
  <2>3. from + j \in Positions(c)
    BY <1>3, <2>1, CallTypes DEF Positions
  <2>4. Tells(c, from + j, w[j])
    BY <1>3
  <2>5. Tells(c, (from + j) + 1, w[j + 1])
    BY <2>2, <2>3, <2>4, PositionTells
  <2> QED
    BY <2>1, <2>5
<1>4. 0 .. k \subseteq S
  <2> HIDE DEF S
  <2> QED
    BY <1>2, <1>3, UpTo
<1>5. k \in S
  BY <1>4
<1> QED
  BY <1>5 DEF w

StateTells == Tells(call, Here, State)

LEMMA InitTells ==
    ASSUME Init, call.start # 0
    PROVE  StateTells
<1>1. call \in Calls /\ call.start \in Nat /\ call.M \in Int /\ Positions(call) \subseteq Nat
  BY CallTypes DEF Init, Positions
<1>2. Here = call.start
  BY <1>1 DEF Init, Here, Offset
<1>3. State = [M |-> call.M, S |-> Before(call.M), VKQ |-> Before(call.M)]
  BY DEF Init, State, InRegisters, InHalves
<1>4. \A p \in Positions(call) : ~(p < call.start)
  BY <1>1, CallTypes DEF Positions
<1>5. \A p : Weights(<<>>, p) = <<>>
  BY WeightsOfNothing
<1> DEFINE x == <<"add", 0, 0>>
<1>6. <<>> \in Seq(Entry) /\ x \in Entry /\ x[1] = "add" /\ x[2] = 0 /\ x[3] = 0
      /\ <<x>> = Append(<<>>, x) /\ <<x>> \in Seq(Entry)
  BY DEF Entry
<1> HIDE DEF x
<1>7. \A p : Weights(<<x>>, p) = IF p = 0 THEN Append(<<>>, 0) ELSE <<>>
  <2> SUFFICES ASSUME NEW p
               PROVE  Weights(<<x>>, p) = IF p = 0 THEN Append(<<>>, 0) ELSE <<>>
    OBVIOUS
  <2>1. Weights(<<x>>, p) = Weighed(<<>>, x, p)
    BY <1>5, <1>6, WeightsOfAppend
  <2> QED
    BY <1>6, <2>1 DEF Weighed
<1>8. Before(call.M) = IF call.M = NegInf THEN <<>> ELSE <<x>>
  BY DEF Before, x
<1>9. Amounts(Append(<<>>, 0), 0) /\ call.M - call.M = 0
  BY <1>1, AmountsOfOne
<1>10. LogTells(call, call.start, call.M, Before(call.M))
  <2>1. CASE call.M = NegInf
    BY <1>4, <1>5, <1>6, <1>8, <2>1 DEF LogTells
  <2>2. CASE call.M # NegInf
    <3>1. Before(call.M) = <<x>>
      BY <1>8, <2>2
    <3>2. \A p \in Positions(call) : Weights(<<x>>, p) = <<>>
      <4>1. 0 \notin Positions(call)
        BY <1>1, CallTypes DEF Positions
      <4> QED
        BY <1>7, <4>1
    <3>3. Amounts(Weights(<<x>>, 0), call.M - call.M)
      <4>1. Weights(<<x>>, 0) = Append(<<>>, 0)
        BY <1>7
      <4> QED
        BY <1>9, <4>1, Zenon
    <3> QED
      BY <1>4, <1>6, <3>1, <3>2, <3>3 DEF LogTells
  <2> QED
    BY <2>1, <2>2
<1>11. Tells(call, call.start, State)
  <2>1. State.M = call.M /\ State.S = Before(call.M) /\ State.VKQ = Before(call.M)
    BY <1>3
  <2>2. LogTells(call, call.start, State.M, State.S) /\ LogTells(call, call.start, State.M, State.VKQ)
    BY <1>10, <2>1, Zenon
  <2> QED
    BY <1>1, <1>4, <2>1, <2>2 DEF Tells
<1> QED
  BY <1>2, <1>11, Zenon DEF StateTells

LEMMA NextTells ==
    ASSUME Places, Scores, StateTells, call.start # 0, [Next]_vars
    PROVE  StateTells'
<1>1. CASE UNCHANGED Attn!attnvars
  <2>1. call' = call /\ Here' = Here /\ State' = State
    BY <1>1, AttnVars
  <2> QED
    BY <2>1, Zenon DEF StateTells
<1>2. CASE Attn!Next
  <2>1. PICK k \in 1 .. Block : Attn!Attend(k)
    BY <1>2 DEF Attn!Next
  <2>2. /\ Here + k <= call.end /\ Here' = Here + k /\ UNCHANGED call
        /\ State' = Walk(State, call, Here, k)[k]
    BY <2>1, AttendIs
  <2>3. Here \in Nat /\ call.start <= Here /\ k \in Nat /\ call \in Calls
    BY BlockAssumption, CallTypes DEF Places, Here, Offset, InBlock
  <2>4. Tells(call, Here + k, Walk(State, call, Here, k)[k])
    BY <2>2, <2>3, WalkTells DEF StateTells
  <2>5. Tells(call', Here', State')
    BY <2>2, <2>4, Zenon
  <2> QED
    BY <2>5, Zenon DEF StateTells
<1> QED
  BY <1>1, <1>2, NextAttention

LEMMA ReturnedIsSoftmax ==
    ASSUME Places, Finished, StateTells
    PROVE  SoftmaxOfRange
<1> SUFFICES ASSUME pc = "ret" PROVE SoftmaxOfRange
  BY DEF SoftmaxOfRange
<1>1. call \in Calls /\ rows.k \in Nat /\ rows.k >= call.end /\ call.end \in Nat
      /\ call.start \in Nat /\ call.M \in Int
  BY CallTypes DEF Places, Finished
<1>2. Here = rows.k
  BY <1>1 DEF Here, Offset
<1>3. State.M = memory.M /\ State.S = memory.S /\ State.VKQ = memory.VKQ
  BY DEF State, InRegisters, InHalves
<1>4. \A p \in Positions(call) : p < Here /\ Score(call, p) \in Int
  BY <1>1, <1>2, ScoreTypes DEF Positions
<1>5. Tells(call, Here, State)
  BY DEF StateTells
<1> DEFINE m == memory.M
<1>6. /\ m \in Int /\ m >= call.M
      /\ m = call.M \/ \E p \in Scored : m = Score(call, p)
      /\ \A p \in Scored : m >= Score(call, p)
      /\ LogTells(call, Here, m, memory.S) /\ LogTells(call, Here, m, memory.VKQ)
  <2>1. /\ m \in Int /\ m >= call.M
        /\ m = call.M \/ \E p \in Positions(call) :
                             p < Here /\ Score(call, p) # NegInf /\ m = Score(call, p)
        /\ \A p \in Positions(call) :
              p < Here /\ Score(call, p) # NegInf => Score(call, p) <= m
        /\ LogTells(call, Here, m, memory.S) /\ LogTells(call, Here, m, memory.VKQ)
    BY <1>3, <1>5, Zenon DEF Tells
  <2> HIDE DEF m
  <2> QED
    BY <1>4, <2>1 DEF Scored
<1> HIDE DEF m
<1>7. m = Largest
  <2>1. /\ m \in {call.M} \cup {Score(call, p) : p \in Scored}
        /\ m >= call.M /\ \A p \in Scored : m >= Score(call, p)
    BY <1>6
  <2>2. /\ Largest \in {call.M} \cup {Score(call, p) : p \in Scored}
        /\ Largest >= call.M /\ \A p \in Scored : Largest >= Score(call, p)
    BY <2>1 DEF Largest
  <2>3. \A p \in Scored : Score(call, p) \in Int
    BY <1>4 DEF Scored
  <2> QED
    BY <1>1, <1>6, <2>1, <2>2, <2>3
<1>8. ASSUME NEW log, LogTells(call, Here, m, log)
      PROVE  /\ \A p \in Positions(call) :
                   IF p \in Scored THEN WeighedAs(log, p, Score(call, p) - m)
                                   ELSE Weights(log, p) = <<>>
             /\ call.M # NegInf => WeighedAs(log, 0, call.M - m)
  <2>1. \A p, x : Amounts(Weights(log, p), x) => WeighedAs(log, p, x)
    BY DEF Amounts, WeighedAs
  <2> QED
    BY <1>4, <1>8, <2>1 DEF LogTells, Scored
<1> QED
  BY <1>6, <1>7, <1>8, Zenon DEF SoftmaxOfRange, m

\* A call that returns has added the softmax of its range, whatever its
\* scores, its mask, the size of the blocks and the kernel: the maximum is
\* that of all scores seen, each position the mask lets through weighs
\* exp(score - maximum), once, in the sum and in the row, what was there
\* before is rescaled to the same maximum, and a masked position weighs
\* nothing.  Position 0 stands for the calls before, so that none starts at it.
THEOREM SoftmaxIsWhole ==
    ASSUME \A c \in Calls : c.start # 0
    PROVE  Spec => []SoftmaxOfRange
<1>1. Init => StateTells
  BY InitTells DEF Init
<1>2. Init => Finished
  BY DEF Init, Finished
<1>3. Places => call.start # 0
  BY DEF Places
<1>4. Places /\ Scores /\ StateTells /\ [Next]_vars => StateTells'
  BY <1>3, NextTells
<1> QED
  BY <1>1, <1>2, <1>4, InitPlaces, InitScores, NextPlaces, NextScores, NextFinished,
     ReturnedIsSoftmax, PTL DEF Spec
=============================================================================
